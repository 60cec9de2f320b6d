--------------------------- MODULE GatewareProofs ---------------------------
(***************************************************************************)
(* Proofs about the clocked cores, each for every value of its constants:  *)
(* the TDM port, the MIDI transmitter, the pulse generator, and the time   *)
(* base with its accessors.                                                *)
(***************************************************************************)
EXTENDS GhostTime, BeatPulse, MidiTx, Tdm, TLAPS

---------------------------------------------------------------------------
(* The TDM port *)

\* A count that has not been cleared stands for a frame that has ended.
CountIsFresh ==
    /\ fresh \in BOOLEAN
    /\ ~fresh => frame_cnt = s_last_count
    /\ tdm_pc \in {"frame", "clear"} => fresh

\* Every period of BCK and every step of the main loop keep it.
LEMMA TdmStep == CountIsFresh /\ [TdmNext]_tdmVars => CountIsFresh'
  <1> SUFFICES ASSUME CountIsFresh, [TdmNext]_tdmVars PROVE CountIsFresh'
    OBVIOUS
  <1> USE DEF CountIsFresh
  <1>1. CASE BckPeriod
    <2>1. /\ fresh' = (fresh \/ (LastBit /\ LastSlot))
          /\ UNCHANGED <<tdm_pc, s_last_count>>
      BY <1>1 DEF BckPeriod
    <2>2. ~(LastBit /\ LastSlot) => frame_cnt' = frame_cnt
      BY <1>1 DEF BckPeriod
    <2> QED
      BY <2>1, <2>2
  <1>2. CASE Poll
    BY <1>2 DEF Poll, serdes
  <1>3. CASE OnTdmFrame
    BY <1>3 DEF OnTdmFrame, serdes
  <1>4. CASE FrameDone
    BY <1>4 DEF FrameDone, serdes
  <1>5. CASE ClearFramePending
    BY <1>5 DEF ClearFramePending, serdes
  <1>6. CASE UNCHANGED tdmVars
    BY <1>6 DEF tdmVars, serdes
  <1> QED
    BY <1>1, <1>2, <1>3, <1>4, <1>5, <1>6 DEF TdmNext

\* main.c:98-103.  However many frames end while the handler runs, and for
\* every wrap of the frame counter, no frame is handled twice.
THEOREM FramesAreHandledOnce == TdmSpec => []HandledOnce
  <1>1. TdmInit => CountIsFresh
    BY DEF TdmInit, CountIsFresh
  <1>2. CountIsFresh => HandledOnce
    BY DEF CountIsFresh, HandledOnce
  <1> QED
    BY <1>1, <1>2, TdmStep, PTL DEF TdmSpec

---------------------------------------------------------------------------
(* The MIDI transmitter *)

\* The n data bytes behind byte d.
Run(d, n) == [x \in 1 .. n |-> d + x]

\* A run of data bytes is a sequence.
LEMMA RunSeq ==
    ASSUME NEW d \in Nat, NEW n \in Nat
    PROVE  Run(d, n) \in Seq(Nat) /\ Len(Run(d, n)) = n
  BY DEF Run

\* Queueing the next byte extends a run.
LEMMA RunAppend ==
    ASSUME NEW d \in Nat, NEW n \in Nat
    PROVE  Append(Run(d, n), d + n + 1) = Run(d, n + 1)
  <1> DEFINE s == Append(Run(d, n), d + n + 1)
  <1>1. Run(d, n) \in Seq(Nat) /\ Len(Run(d, n)) = n /\ d + n + 1 \in Nat
    BY RunSeq
  <1>2. s \in Seq(Nat) /\ Len(s) = n + 1 /\ s[n + 1] = d + n + 1
        /\ \A x \in 1 .. n : s[x] = Run(d, n)[x]
    BY <1>1
  <1>3. \A x \in 1 .. n + 1 : s[x] = d + x
    BY <1>2 DEF Run
  <1>4. Run(d, n + 1) \in Seq(Nat) /\ Len(Run(d, n + 1)) = n + 1
        /\ \A x \in 1 .. n + 1 : Run(d, n + 1)[x] = d + x
    BY RunSeq DEF Run
  <1> HIDE DEF s
  <1>5. s = Run(d, n + 1)
    BY <1>2, <1>3, <1>4
  <1> QED
    BY <1>5 DEF s

\* Reading the FIFO takes the first byte of a run.
LEMMA RunTail ==
    ASSUME NEW d \in Nat, NEW n \in Nat \ {0}
    PROVE  /\ Run(d, n) # <<>> /\ Head(Run(d, n)) = d + 1
           /\ Tail(Run(d, n)) = Run(d + 1, n - 1)
  <1> DEFINE s == Tail(Run(d, n))
  <1>1. Run(d, n) \in Seq(Nat) /\ Len(Run(d, n)) = n /\ Run(d, n)[1] = d + 1
    BY RunSeq DEF Run
  <1>2. s \in Seq(Nat) /\ Len(s) = n - 1
        /\ \A x \in 1 .. n - 1 : s[x] = Run(d, n)[x + 1]
    BY <1>1
  <1>3. \A x \in 1 .. n - 1 : s[x] = d + 1 + x
    BY <1>2 DEF Run
  <1>4. Run(d + 1, n - 1) \in Seq(Nat) /\ Len(Run(d + 1, n - 1)) = n - 1
        /\ \A x \in 1 .. n - 1 : Run(d + 1, n - 1)[x] = d + 1 + x
    BY RunSeq DEF Run
  <1> HIDE DEF s
  <1>5. s = Run(d + 1, n - 1)
    BY <1>2, <1>3, <1>4
  <1> QED
    BY <1>1, <1>5 DEF s

\* The types of the transmitter.
TxTypeOK ==
    /\ high \in [Input -> Nat] /\ rt_pending \in BOOLEAN
    /\ tx_busy \in 0 .. ByteCycles /\ rt_wait \in Nat
    /\ pushed \in Nat /\ data_out \in 0 .. pushed

\* The byte on the wire and the wait for it take one byte time together.
WaitFits ==
    /\ rt_wait + tx_busy <= ByteCycles
    /\ ~rt_pending => rt_wait = 0

\* The inductive invariant of the transmitter.
TxInv == TxTypeOK /\ WaitFits /\ DataComplete

\* Reset of the transmitter.
LEMMA TxInitInv == TxInit => TxInv
  <1> SUFFICES ASSUME TxInit PROVE TxInv
    OBVIOUS
  <1>1. TxTypeOK
    <2>1. ByteCycles \in Nat /\ 0 \in 0 .. ByteCycles /\ 0 \in 0 .. 0
      BY MidiTxAssumption
    <2>2. high \in [Input -> Nat]
      BY DEF TxInit
    <2> QED
      BY <2>1, <2>2 DEF TxInit, TxTypeOK
  <1>2. WaitFits
    BY MidiTxAssumption DEF TxInit, WaitFits
  <1>3. DataComplete
    BY DEF TxInit, DataComplete
  <1> QED
    BY <1>1, <1>2, <1>3 DEF TxInv

\* One clock cycle keeps the invariant, with any pulses and any write.
LEMMA TxCycleInv ==
    ASSUME TxInv, NEW rising \in SUBSET Input, NEW push \in BOOLEAN,
           TxCycle(rising, push)
    PROVE  TxInv'
  <1>1. ByteCycles \in Nat \ {0} /\ PulseCycles \in Nat
    BY MidiTxAssumption
  <1>2. TxTypeOK /\ WaitFits /\ fifo = Run(data_out, pushed - data_out)
    BY DEF TxInv, DataComplete, Run
  <1>3. Pulses(rising) /\ Pushed(push) /\ Arbiter /\ Uart /\ TxFifo(push)
    BY DEF TxCycle
  <1>4. high' \in [Input -> Nat]
    BY <1>1, <1>2, <1>3 DEF Pulses, NewHigh, TxTypeOK
  <1>5. pushed' = (IF push THEN pushed + 1 ELSE pushed) /\ pushed' \in Nat
    BY <1>2, <1>3 DEF Pushed, TxTypeOK
  <1>6. /\ rt_pending' \in BOOLEAN /\ rt_wait' \in Nat
        /\ ~rt_pending' => rt_wait' = 0
    BY <1>2, <1>3 DEF Arbiter, Pending, TxTypeOK
  <1>7. tx_busy' \in 0 .. ByteCycles /\ rt_wait' + tx_busy' <= ByteCycles
    BY <1>1, <1>2, <1>3 DEF Arbiter, Uart, TakeRt, TxTypeOK, WaitFits
  <1>8. fifo # <<>> <=> pushed - data_out # 0
    <2>1. pushed - data_out \in Nat
      BY <1>2 DEF TxTypeOK
    <2>2. Len(fifo) = pushed - data_out /\ fifo \in Seq(Nat)
      BY <1>2, <2>1, RunSeq DEF TxTypeOK
    <2> QED
      BY <2>1, <2>2
  <1> DEFINE rest == IF DrainFifo THEN Tail(fifo) ELSE fifo
  <1>9. /\ data_out' \in 0 .. pushed /\ data_out' \in Nat
        /\ rest = Run(data_out', pushed - data_out')
    <2>1. CASE DrainFifo
      <3>1. data_out' = Head(fifo) /\ rest = Tail(fifo) /\ fifo # <<>>
        BY <1>3, <2>1 DEF DrainFifo, Uart, TakeRt
      <3>2. data_out \in Nat /\ pushed - data_out \in Nat \ {0} /\ pushed \in Nat
        BY <1>2, <1>8, <3>1 DEF TxTypeOK
      <3>3. data_out' = data_out + 1
            /\ rest = Run(data_out + 1, (pushed - data_out) - 1)
        BY <1>2, <3>1, <3>2, RunTail
      <3>4. (pushed - data_out) - 1 = pushed - data_out'
        BY <3>2, <3>3
      <3> QED
        BY <3>2, <3>3, <3>4
    <2>2. CASE ~DrainFifo
      <3>1. data_out' = data_out /\ rest = fifo
        BY <1>2, <1>3, <2>2 DEF DrainFifo, Uart, TakeRt, TxTypeOK
      <3> QED
        BY <1>2, <3>1 DEF TxTypeOK
    <2> QED BY <2>1, <2>2
  <1>10. fifo' = Run(data_out', pushed' - data_out')
    <2>1. fifo' = IF push THEN Append(rest, pushed + 1) ELSE rest
      BY <1>3 DEF TxFifo
    <2> HIDE DEF rest
    <2>2. CASE push
      <3>1. pushed \in Nat /\ pushed - data_out' \in Nat
            /\ data_out' + (pushed - data_out') + 1 = pushed + 1
            /\ pushed' - data_out' = (pushed - data_out') + 1
        <4>1. pushed \in Nat /\ data_out' \in Nat /\ data_out' <= pushed
          BY <1>2, <1>9 DEF TxTypeOK
        <4>2. pushed' = pushed + 1
          BY <1>5, <2>2
        <4>3. \A q, d \in Nat : d <= q => /\ q - d \in Nat /\ d + (q - d) + 1 = q + 1
                                        /\ (q + 1) - d = (q - d) + 1
          OBVIOUS
        <4> QED
          BY <4>1, <4>2, <4>3
      <3>2. Append(Run(data_out', pushed - data_out'), pushed + 1)
               = Run(data_out', (pushed - data_out') + 1)
        BY <1>9, <3>1, RunAppend
      <3> QED
        BY <1>9, <2>1, <2>2, <3>1, <3>2
    <2>3. CASE ~push
      BY <1>5, <1>9, <2>1, <2>3
    <2> QED BY <2>2, <2>3
  <1>11. data_out' \in 0 .. pushed'
    BY <1>2, <1>5, <1>9 DEF TxTypeOK
  <1> QED
    BY <1>4, <1>5, <1>6, <1>7, <1>10, <1>11
       DEF TxInv, TxTypeOK, WaitFits, DataComplete, Run

\* Every reachable state of the transmitter satisfies TxInv.
LEMMA TxInvariance == TxSpec => []TxInv
  <1>1. TxInv /\ [TxNext]_txVars => TxInv'
    <2>1. TxInv /\ TxNext => TxInv'
      BY TxCycleInv DEF TxNext
    <2>2. TxInv /\ UNCHANGED txVars => TxInv'
      BY DEF txVars, TxInv, TxTypeOK, WaitFits, DataComplete
    <2> QED BY <2>1, <2>2
  <1> QED
    BY <1>1, TxInitInv, PTL DEF TxSpec

\* midi.py:156, 205-235.  For every FIFO depth, pulse width and byte length, a
\* real-time byte waits for at most the byte on the wire.
THEOREM RealTimeIsPrompt == TxSpec => []RtLatency
  <1>1. TxInv => RtLatency
    BY MidiTxAssumption DEF TxInv, TxTypeOK, WaitFits, RtLatency
  <1> QED
    BY <1>1, TxInvariance, PTL

\* midi.py:201-235.  And no data byte is lost, doubled or overtaken, however
\* real-time bytes cut in.
THEOREM DataIsComplete == TxSpec => []DataComplete
  <1>1. TxInv => DataComplete
    BY DEF TxInv
  <1> QED
    BY <1>1, TxInvariance, PTL

---------------------------------------------------------------------------
(* The pulse generator *)

\* The types of the pulse generator.
PulseTypeOK == period \in 1 .. CntWrap - 1 /\ cnt \in Nat /\ age \in Nat /\ due \in Nat

\* The inductive invariant of the pulse generator.
PulseInv == PulseTypeOK /\ PulseSpacing

\* beat_pulse.py:80-103.  For every set of periods below the wrap of the
\* counter: the next pulse begins one period after the last, whatever the
\* firmware writes in between.
THEOREM PulsesAreSpaced == PulseSpec => []PulseSpacing
  <1>1. PulseInit => PulseInv
    BY PulseAssumption DEF PulseInit, PulseInv, PulseTypeOK, PulseSpacing
  <1>2. ASSUME PulseInv, NEW tick \in BOOLEAN, PulseCycle(tick)
        PROVE  PulseInv'
    <2>1. period' \in 1 .. CntWrap - 1
      BY <1>2, PulseAssumption
         DEF PulseInv, PulseTypeOK, PulseCycle, Firmware, NoWrite, WritePeriod,
             WriteReset, WriteFlags, registers
    <2>2. Reload = period - 1
      <3>1. CntWrap \in Nat /\ period \in Int /\ 1 <= period /\ period <= CntWrap - 1
        BY <1>2, PulseAssumption DEF PulseInv, PulseTypeOK
      <3> QED
        BY <3>1, SMTT(20) DEF Reload
    <2>3. cnt' \in Nat /\ age' \in Nat /\ due' \in Nat /\ PulseSpacing'
      <3>1. PulseTypeOK /\ PulseSpacing /\ Periodic(tick)
        BY <1>2 DEF PulseInv, PulseCycle
      <3> QED
        BY <2>2, <3>1 DEF Periodic, PulseTypeOK, PulseSpacing
    <2> QED
      BY <2>1, <2>3 DEF PulseInv, PulseTypeOK
  <1>3. PulseInv /\ [PulseNext]_pulseVars => PulseInv'
    <2>1. PulseInv /\ PulseNext => PulseInv'
      BY <1>2 DEF PulseNext
    <2>2. PulseInv /\ UNCHANGED pulseVars => PulseInv'
      BY DEF pulseVars, registers, PulseInv, PulseTypeOK, PulseSpacing
    <2> QED BY <2>1, <2>2
  <1>4. PulseInv => PulseSpacing
    BY DEF PulseInv
  <1> QED
    BY <1>1, <1>3, <1>4, PTL DEF PulseSpec

---------------------------------------------------------------------------
(* The time base *)

\* Division with remainder.
LEMMA DivMod ==
    ASSUME NEW N \in Nat \ {0}, NEW x \in Int
    PROVE  /\ x % N \in Int /\ 0 <= x % N /\ x % N < N
           /\ x \div N \in Int /\ x = (x \div N) * N + (x % N)
  <1>1. x % N \in Int /\ 0 <= x % N /\ x % N < N
    BY SMTT(20)
  <1>2. x \div N \in Int /\ x = (x \div N) * N + (x % N)
    BY SMTT(20)
  <1> QED BY <1>1, <1>2

\* The quotient grows with the dividend.
LEMMA DivMono ==
    ASSUME NEW N \in Nat \ {0}, NEW x \in Int, NEW y \in Int, x <= y
    PROVE  x \div N <= y \div N
  <1> DEFINE p == x \div N
             q == y \div N
  <1>1. /\ p \in Int /\ q \in Int /\ x % N \in Int /\ y % N \in Int
        /\ 0 <= x % N /\ y % N < N
        /\ x = p * N + (x % N) /\ y = q * N + (y % N)
    BY DivMod
  <1> HIDE DEF p, q
  <1>2. ASSUME q < p PROVE FALSE
    <2>1. (p - q) * N >= N
      BY <1>1, <1>2, SMTT(20)
    <2>2. (p - q) * N = p * N - q * N /\ p * N \in Int /\ q * N \in Int
      BY <1>1
    <2> QED
      BY <1>1, <2>1, <2>2
  <1>3. p <= q
    BY <1>1, <1>2
  <1> QED
    BY <1>3 DEF p, q

\* The types of the counter, the registers and the accessors.
GhostTypeOK ==
    /\ host_time \in Nat /\ host_time <= MaxHost
    /\ inter_lo \in Int /\ inter_hi \in Int /\ new \in Int
    /\ snap_host \in Nat /\ lo \in Int /\ began \in Nat
    /\ ret \in [kind : {"none", "host", "ghost"}, v : Int, from : Int, to : Int]
    /\ ghost_pc \in {"idle", "host_hi", "ghost_lo", "ghost_hi", "inter_hi"}

\* The snapshot lags by at most one tick, and not behind a call.
SnapshotLag ==
    /\ host_time - 1 <= snap_host /\ snap_host <= host_time
    /\ ghost_pc # "idle" => began <= snap_host

\* The low word of host_time_us is that of an instant of the call.
HostLow ==
    ghost_pc = "host_hi" =>
        \E t \in Nat : began - 1 <= t /\ t <= began /\ lo = t % W

\* The registers hold the intercept set last, but for the high word that the
\* accessor has yet to write.
InterceptSet ==
    /\ ghost_pc # "inter_hi" => Word64(inter_hi, inter_lo) = new
    /\ ghost_pc = "inter_hi" => inter_lo = new % W

\* While ghost_time_us reads, the snapshot is taken with the intercept in
\* force, and the low word is that of an instant of the call.
GhostLow ==
    /\ ghost_pc \in {"ghost_lo", "ghost_hi"} => snap_ghost = GhostUnder(snap_host)
    /\ ghost_pc = "ghost_hi" =>
          \E t \in Nat : began <= t /\ t <= snap_host /\ lo = GhostUnder(t) % W

\* Each word of a host time is that of an instant of the call.
HostReadWords ==
    ret.kind = "host" =>
        \E t, u \in During(ret) : ret.v = Word64(u \div W, t % W)

\* The inductive invariant of the time base.
GhostInv ==
    GhostTypeOK /\ SnapshotLag /\ HostLow /\ InterceptSet /\ GhostLow /\ HostReadWords

\* Power-up.
LEMMA GhostInitInv == GhostInit => GhostInv
  BY GhostAssumption DEF GhostInit, GhostInv, GhostTypeOK, SnapshotLag, HostLow,
     InterceptSet, GhostLow, HostReadWords, Word64

\* What every cycle does.
LEMMA CycleInv ==
    ASSUME GhostTypeOK, SnapshotLag, CounterCycle
    PROVE  /\ host_time' \in Nat /\ host_time' <= MaxHost
           /\ host_time <= host_time' /\ host_time' <= host_time + 1
           /\ snap_host' = host_time /\ snap_ghost' = GhostOf(host_time)
           /\ ghost_pc # "idle" => began <= host_time
  <1>1. /\ host_time' \in Nat /\ host_time' <= MaxHost
        /\ host_time <= host_time' /\ host_time' <= host_time + 1
    BY DEF GhostTypeOK, CounterCycle
  <1>2. snap_host' = host_time /\ snap_ghost' = GhostOf(host_time)
    BY DEF CounterCycle
  <1>3. ghost_pc # "idle" => began <= host_time
    BY DEF GhostTypeOK, SnapshotLag
  <1> QED BY <1>1, <1>2, <1>3

\* The read of the high word completes a value.
LEMMA HostReturn ==
    ASSUME GhostInv, ghost_pc = "host_hi"
    PROVE  /\ Word64(snap_host \div W, lo) \in Int
           /\ \E t, u \in began - 1 .. host_time :
                 Word64(snap_host \div W, lo) = Word64(u \div W, t % W)
  <1>1. PICK t \in Nat : began - 1 <= t /\ t <= began /\ lo = t % W
    BY DEF GhostInv, HostLow
  <1>2. /\ began \in Nat /\ snap_host \in Nat /\ host_time \in Nat /\ lo \in Int
        /\ began <= snap_host /\ snap_host <= host_time
    BY DEF GhostInv, GhostTypeOK, SnapshotLag
  <1>3. t \in began - 1 .. host_time /\ snap_host \in began - 1 .. host_time
    BY <1>1, <1>2
  <1>4. W \in Nat \ {0}
    BY GhostAssumption
  <1>5. snap_host \div W \in Int
    BY <1>2, <1>4, DivMod
  <1>6. Word64(snap_host \div W, lo) \in Int
    BY <1>2, <1>4, <1>5 DEF Word64
  <1> QED
    BY <1>1, <1>3, <1>6

\* The same of ghost_time_us, under the intercept set last.
LEMMA GhostReturn ==
    ASSUME GhostInv, ghost_pc = "ghost_hi"
    PROVE  /\ Word64(snap_ghost \div W, lo) \in Int
           /\ \E t, u \in began - 1 .. host_time :
                 Word64(snap_ghost \div W, lo) = Word64(GhostUnder(u) \div W, GhostUnder(t) % W)
  <1>1. PICK t \in Nat : began <= t /\ t <= snap_host /\ lo = GhostUnder(t) % W
    BY DEF GhostInv, GhostLow
  <1>2. /\ began \in Nat /\ snap_host \in Nat /\ host_time \in Nat /\ lo \in Int
        /\ began <= snap_host /\ snap_host <= host_time /\ new \in Int
        /\ snap_ghost = GhostUnder(snap_host)
    BY DEF GhostInv, GhostTypeOK, SnapshotLag, GhostLow
  <1>3. t \in began - 1 .. host_time /\ snap_host \in began - 1 .. host_time
    BY <1>1, <1>2
  <1>4. W \in Nat \ {0} /\ W * W \in Nat \ {0} /\ snap_host + new \in Int
    BY <1>2, GhostAssumption
  <1>5. snap_ghost \in Int
    BY <1>2, <1>4, DivMod DEF GhostUnder
  <1>6. snap_ghost \div W \in Int
    BY <1>4, <1>5, DivMod
  <1>7. Word64(snap_ghost \div W, lo) \in Int
    BY <1>2, <1>4, <1>6 DEF Word64
  <1> QED
    BY <1>1, <1>2, <1>3, <1>7

\* Every cycle, with any access of the CPU, keeps the invariant.
LEMMA GhostStep == GhostInv /\ [GhostNext]_ghostVars => GhostInv'
  <1> SUFFICES ASSUME GhostInv, [GhostNext]_ghostVars PROVE GhostInv'
    OBVIOUS
  <1>1. GhostTypeOK /\ SnapshotLag /\ HostLow /\ InterceptSet /\ GhostLow /\ HostReadWords
    BY DEF GhostInv
  <1>2. W \in Nat \ {0} /\ \A x \in Int : x % W \in Int /\ x \div W \in Int
    BY GhostAssumption, DivMod
  <1>3. CASE Wait
    <2>1. CounterCycle /\ UNCHANGED <<inter_lo, inter_hi, ghost_pc, lo, new, began, ret>>
      BY <1>3 DEF Wait
    <2>2. GhostTypeOK' /\ SnapshotLag'
      BY <1>1, <2>1, CycleInv DEF GhostTypeOK, SnapshotLag
    <2>3. HostLow' /\ HostReadWords' /\ InterceptSet'
      BY <1>1, <2>1 DEF HostLow, HostReadWords, During, InterceptSet, Word64
    <2>4. GhostLow'
      BY <1>1, <2>1, CycleInv DEF GhostLow, GhostUnder, GhostOf, InterceptSet,
         GhostTypeOK, SnapshotLag
    <2> QED BY <2>2, <2>3, <2>4 DEF GhostInv
  <1>4. ASSUME NEW next, Call(next), lo' \in Int, inter_lo' \in Int, new' \in Int,
               next \in {"host_hi", "ghost_lo", "inter_hi"},
               next = "host_hi" => lo' = snap_host % W,
               next # "inter_hi" => UNCHANGED <<inter_lo, new>>,
               next = "inter_hi" => inter_lo' = new' % W,
               UNCHANGED <<inter_hi, ret>>
        PROVE  GhostInv'
    <2>1. CounterCycle /\ ghost_pc = "idle" /\ ghost_pc' = next /\ began' = host_time
      BY <1>4 DEF Call
    <2>2. GhostTypeOK' /\ SnapshotLag'
      BY <1>1, <1>4, <2>1, CycleInv DEF GhostTypeOK, SnapshotLag
    <2>3. HostLow'
      BY <1>1, <1>4, <2>1 DEF HostLow, GhostTypeOK, SnapshotLag
    <2>4. InterceptSet'
      BY <1>1, <1>4, <2>1 DEF InterceptSet, Word64
    <2>5. GhostLow'
      BY <1>1, <1>4, <2>1 DEF GhostLow, GhostUnder, GhostOf, InterceptSet, CounterCycle
    <2>6. HostReadWords'
      BY <1>1, <1>4 DEF HostReadWords, During
    <2> QED BY <2>2, <2>3, <2>4, <2>5, <2>6 DEF GhostInv
  <1>5. ASSUME NEW kind \in {"host", "ghost"}, NEW v \in Int, Return(kind, v),
               ghost_pc \notin {"idle", "inter_hi"},
               kind = "host" => \E t, u \in began - 1 .. host_time :
                                   v = Word64(u \div W, t % W)
        PROVE  GhostInv'
    <2>1. /\ CounterCycle /\ ghost_pc' = "idle"
          /\ ret' = [kind |-> kind, v |-> v, from |-> began, to |-> host_time]
          /\ UNCHANGED <<inter_lo, inter_hi, lo, new, began>>
      BY <1>5 DEF Return
    <2>2. GhostTypeOK' /\ SnapshotLag'
      BY <1>1, <1>5, <2>1, CycleInv DEF GhostTypeOK, SnapshotLag
    <2>3. HostLow' /\ GhostLow' /\ InterceptSet'
      BY <1>1, <1>5, <2>1 DEF HostLow, GhostLow, InterceptSet, Word64
    <2>4. ret'.kind = kind /\ ret'.v = v /\ During(ret') = began - 1 .. host_time
      BY <2>1 DEF During
    <2>5. HostReadWords'
      BY <1>5, <2>4 DEF HostReadWords, Word64, During
    <2> QED BY <2>2, <2>3, <2>5 DEF GhostInv
  <1>6. CASE HostTimeUs
    <2>1. CASE /\ Call("host_hi") /\ lo' = snap_host % W
               /\ UNCHANGED <<inter_lo, inter_hi, new, ret>>
      BY <1>1, <1>2, <1>4, <2>1 DEF GhostTypeOK
    <2>2. CASE ghost_pc = "host_hi" /\ Return("host", Word64(snap_host \div W, lo))
      BY <1>5, <2>2, HostReturn
    <2> QED BY <1>6, <2>1, <2>2 DEF HostTimeUs
  <1>7. CASE GhostTimeUs
    <2>1. CASE Call("ghost_lo") /\ UNCHANGED <<inter_lo, inter_hi, lo, new, ret>>
      BY <1>1, <1>4, <2>1 DEF GhostTypeOK
    <2>2. CASE /\ ghost_pc = "ghost_lo" /\ ghost_pc' = "ghost_hi"
               /\ lo' = snap_ghost % W
               /\ CounterCycle
               /\ UNCHANGED <<inter_lo, inter_hi, new, began, ret>>
      <3>1. snap_ghost = GhostUnder(snap_host)
        BY <1>1, <2>2 DEF GhostLow
      <3>2. snap_ghost \in Int
        <4>1. snap_host + new \in Int /\ W * W \in Nat \ {0}
          BY <1>1, <1>2 DEF GhostTypeOK
        <4> QED BY <3>1, <4>1, DivMod DEF GhostUnder
      <3>3. lo' \in Int
        BY <1>2, <2>2, <3>2
      <3>4. GhostTypeOK' /\ SnapshotLag'
        BY <1>1, <2>2, <3>3, CycleInv DEF GhostTypeOK, SnapshotLag
      <3>5. HostLow' /\ HostReadWords' /\ InterceptSet'
        BY <1>1, <2>2 DEF HostLow, HostReadWords, During, InterceptSet, Word64
      <3>6. GhostLow'
        <4>1. snap_ghost' = GhostUnder(snap_host)'
          BY <1>1, <2>2 DEF CounterCycle, GhostOf, GhostUnder, InterceptSet
        <4>2. /\ snap_host \in Nat /\ began' <= snap_host /\ snap_host <= snap_host'
              /\ lo' = (GhostUnder(snap_host) % W)
          BY <1>1, <2>2, <3>1 DEF CounterCycle, GhostTypeOK, SnapshotLag
        <4> QED BY <2>2, <4>1, <4>2 DEF GhostLow, GhostUnder
      <3> QED BY <3>4, <3>5, <3>6 DEF GhostInv
    <2>3. CASE ghost_pc = "ghost_hi" /\ Return("ghost", Word64(snap_ghost \div W, lo))
      BY <1>5, <2>3, GhostReturn
    <2> QED BY <1>7, <2>1, <2>2, <2>3 DEF GhostTimeUs
  <1>8. CASE SetIntercept
    <2>1. W * W \in Nat \ {0}
      BY <1>2
    <2>2. CASE \E x \in Intercept : /\ Call("inter_hi")
                                    /\ new' = x % (W * W)
                                    /\ inter_lo' = new' % W
                                    /\ UNCHANGED <<inter_hi, lo, ret>>
      <3>1. PICK x \in Intercept : /\ Call("inter_hi")
                                   /\ new' = x % (W * W)
                                   /\ inter_lo' = new' % W
                                   /\ UNCHANGED <<inter_hi, lo, ret>>
        BY <2>2
      <3>2. x \in Int
        BY GhostAssumption
      <3>3. new' \in Int
        BY <2>1, <3>1, <3>2, DivMod
      <3>4. inter_lo' \in Int
        BY <1>2, <3>1, <3>3
      <3> QED BY <1>1, <1>4, <3>1, <3>3, <3>4 DEF GhostTypeOK
    <2>3. CASE /\ ghost_pc = "inter_hi" /\ ghost_pc' = "idle"
               /\ inter_hi' = new \div W
               /\ CounterCycle
               /\ UNCHANGED <<inter_lo, lo, new, began, ret>>
      <3>1. inter_hi' \in Int
        BY <1>1, <1>2, <2>3 DEF GhostTypeOK
      <3>2. GhostTypeOK' /\ SnapshotLag'
        BY <1>1, <2>3, <3>1, CycleInv DEF GhostTypeOK, SnapshotLag
      <3>3. HostLow' /\ GhostLow' /\ HostReadWords'
        BY <1>1, <2>3 DEF HostLow, GhostLow, HostReadWords, During
      <3>4. new = (new \div W) * W + (new % W)
        BY <1>1, <1>2, DivMod DEF GhostTypeOK
      <3>5. InterceptSet'
        BY <1>1, <2>3, <3>4 DEF InterceptSet, Word64
      <3> QED BY <3>2, <3>3, <3>5 DEF GhostInv
    <2> QED BY <1>8, <2>2, <2>3 DEF SetIntercept
  <1>9. CASE UNCHANGED ghostVars
    BY <1>1, <1>9 DEF ghostVars, GhostInv, GhostTypeOK, SnapshotLag, HostLow, GhostLow,
       GhostUnder, InterceptSet, Word64, HostReadWords, During
  <1> QED
    BY <1>3, <1>6, <1>7, <1>8, <1>9 DEF GhostNext

\* No carry into the high word from a tick before the call to its return.
NoCarry(r) == (r.from - 1) \div W = r.to \div W

\* ghost_time.c:4-9.  For every word size: a host time that is read while no
\* carry reaches the high word is an instant of the call.  (With a carry it
\* need not be: HostReadCoherent is refuted.)
THEOREM HostReadsAreCoherent ==
    GhostSpec => [](ret.kind = "host" /\ NoCarry(ret) => ret.v \in During(ret))
  <1>1. GhostInv => (ret.kind = "host" /\ NoCarry(ret) => ret.v \in During(ret))
    <2> SUFFICES ASSUME GhostInv, ret.kind = "host", NoCarry(ret)
                 PROVE  ret.v \in During(ret)
      OBVIOUS
    <2>1. PICK t, u \in During(ret) : ret.v = Word64(u \div W, t % W)
      BY DEF GhostInv, HostReadWords
    <2>2. /\ W \in Nat \ {0} /\ ret.from - 1 \in Int /\ ret.to \in Int
          /\ t \in Int /\ ret.from - 1 <= t /\ t <= ret.to
          /\ u \in Int /\ ret.from - 1 <= u /\ u <= ret.to
      BY GhostAssumption DEF GhostInv, GhostTypeOK, During
    <2> DEFINE Q(x) == x \div W
    <2>3. /\ Q(ret.from - 1) <= Q(t) /\ Q(t) <= Q(ret.to)
          /\ Q(ret.from - 1) <= Q(u) /\ Q(u) <= Q(ret.to)
      BY <2>2, DivMono
    <2>4. Q(t) \in Int /\ Q(u) \in Int /\ Q(ret.to) \in Int
          /\ Q(ret.from - 1) = Q(ret.to)
      BY <2>2, DivMod DEF NoCarry
    <2> HIDE DEF Q
    <2>5. Q(u) = Q(t)
      BY <2>3, <2>4
    <2>6. t = Q(t) * W + (t % W)
      BY <2>2, DivMod DEF Q
    <2>7. ret.v = t
      BY <2>1, <2>5, <2>6 DEF Word64, Q
    <2> QED
      BY <2>1, <2>7
  <1> QED
    BY <1>1, GhostInitInv, GhostStep, PTL DEF GhostSpec

\* ghost_time.c:11-23.  For every word size and every intercept, wrap of the
\* 64-bit sum included: ghost_time_us never mixes two intercepts.
THEOREM GhostReadsAreWhole == GhostSpec => OneIntercept
  <1> DEFINE Whole == \E t, u \in During(ret') :
                        ret'.v = Word64(GhostUnder(u) \div W, GhostUnder(t) % W)
             A == ret' # ret /\ ret'.kind = "ghost" => Whole
  <1>1. ASSUME GhostInv, [GhostNext]_ghostVars
        PROVE  [A]_ghostVars
    <2> SUFFICES ASSUME ret' # ret, ret'.kind = "ghost" PROVE Whole
      OBVIOUS
    <2>1. ghost_pc = "ghost_hi" /\ Return("ghost", Word64(snap_ghost \div W, lo))
      BY <1>1 DEF ghostVars, GhostNext, Wait, HostTimeUs, GhostTimeUs, SetIntercept, Return
    <2>2. ret' = [kind |-> "ghost", v |-> Word64(snap_ghost \div W, lo),
                  from |-> began, to |-> host_time]
      BY <2>1 DEF Return
    <2>3. /\ ret'.v = Word64(snap_ghost \div W, lo)
          /\ During(ret') = began - 1 .. host_time
      BY <2>2 DEF During
    <2> QED
      BY <1>1, <2>1, <2>3, GhostReturn
  <1> QED
    BY <1>1, GhostInitInv, GhostStep, PTL DEF GhostSpec, OneIntercept

=============================================================================
