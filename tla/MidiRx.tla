------------------------------- MODULE MidiRx -------------------------------
(***************************************************************************)
(* The receive half of litex_soc/midi.py: the timestamp register, the      *)
(* one-slot real-time event and the clock period meter, drained by         *)
(* midi_tick of firmware/midi.c.                                           *)
(*                                                                         *)
(* The UART is left out: a byte arrives as a whole, in the cycle of        *)
(* rx_strobe.  Bytes that are not real-time go to a FIFO that nothing      *)
(* reads; of them only the effect on the timestamp register is kept.       *)
(* midi_tick makes one register access per step, so bytes may arrive       *)
(* between any two of its reads.                                           *)
(***************************************************************************)
EXTENDS LocalTimeline

CONSTANTS
    Byte,         \* bytes that may arrive, of AllBytes
    Mode,         \* modes that midi_set_sync_mode may be given
    MaxBytes      \* bound: bytes received

\* START stands for CONTINUE as well, which is handled alike.
AllBytes == {"CLOCK", "START", "STOP", "OTHER_RT", "DATA"}
AllModes == {"OFF", "OBSERVE", "FOLLOWER"}

ASSUME MidiRxAssumption ==
    /\ Byte \subseteq AllBytes /\ Mode \subseteq AllModes
    /\ MaxBytes \in Nat

VARIABLES
    rx_ts,                        \* when the last byte arrived
    rt_q,                         \* the event slot; its time, and history: at
    rx_clk_ts, cur_period,        \* the period meter
    rx_mode, rx_pc, regs,         \* midi_tick
    observed_period, last_clock,  \* what it keeps
    transport,                    \* history: last transport byte that got into
                                  \* the slot, if it came to a follower
    bytes

rxVars == <<host_us, rx_ts, rt_q, rx_clk_ts, cur_period, rx_mode, rx_pc,
            regs, observed_period, last_clock, link, transport, bytes>>

rxRegisters == <<rx_ts, rt_q, rx_clk_ts, cur_period>>
rxHistory == <<transport, bytes>>
rxKept == <<observed_period, last_clock, link>>

NoEvent == [valid |-> FALSE, byte |-> "none", ts |-> 0, at |-> 0]
NoRegs == [byte |-> "none", lo |-> 0, hi |-> 0, at |-> 0]

---------------------------------------------------------------------------
(* The gateware *)

\* A real-time byte is queued if the slot is free, else dropped.  The slot
\* takes the value rx_ts has before this byte updates it.
Latched(b) ==
    IF b # "DATA" /\ ~rt_q.valid
    THEN [valid |-> TRUE, byte |-> b, ts |-> rx_ts, at |-> host_us]
    ELSE rt_q

RxByte(b) ==
    /\ bytes < MaxBytes
    /\ bytes' = bytes + 1
    /\ rx_ts' = host_us
    /\ rt_q' = Latched(b)
    /\ cur_period' = IF b = "CLOCK" /\ rx_clk_ts # 0 THEN rx_ts - rx_clk_ts
                     ELSE cur_period
    /\ rx_clk_ts' = IF b = "CLOCK" THEN rx_ts ELSE rx_clk_ts
    /\ transport' = IF b \notin {"START", "STOP"} \/ rt_q.valid THEN transport
                    ELSE IF rx_mode = "FOLLOWER" THEN b ELSE "none"
    /\ UNCHANGED <<host_us, rx_mode, rx_pc, regs, rxKept>>

---------------------------------------------------------------------------
(* midi_tick *)

\* The period; a change of it updates the observed tempo.
ReadPeriod ==
    /\ rx_pc = "idle" /\ rx_pc' = "valid"
    /\ observed_period' = IF cur_period > 0 THEN cur_period ELSE observed_period
    /\ UNCHANGED <<host_us, rxRegisters, rx_mode, regs, last_clock, link, rxHistory>>

ReadValid ==
    /\ rx_pc = "valid"
    /\ rx_pc' = IF rt_q.valid THEN "byte" ELSE "idle"
    /\ UNCHANGED <<host_us, rxRegisters, rx_mode, regs, rxKept, rxHistory>>

ReadByte ==
    /\ rx_pc = "byte" /\ rx_pc' = "ts_lo"
    /\ regs' = [regs EXCEPT !.byte = rt_q.byte, !.at = rt_q.at]
    /\ UNCHANGED <<host_us, rxRegisters, rx_mode, rxKept, rxHistory>>

ReadTsLo ==
    /\ rx_pc = "ts_lo" /\ rx_pc' = "ts_hi"
    /\ regs' = [regs EXCEPT !.lo = rt_q.ts]
    /\ UNCHANGED <<host_us, rxRegisters, rx_mode, rxKept, rxHistory>>

ReadTsHi ==
    /\ rx_pc = "ts_hi" /\ rx_pc' = "ack"
    /\ regs' = [regs EXCEPT !.hi = rt_q.ts]
    /\ UNCHANGED <<host_us, rxRegisters, rx_mode, rxKept, rxHistory>>

\* Slip: stop is handled like start.
RxPlayAfterNoStop == IF rx_mode # "OFF" /\ regs.byte \in {"START", "STOP"} THEN TRUE
                   ELSE play

\* START and STOP drive the play state in every rx_mode but OFF.
RxPlayAfter == IF rx_mode = "OFF" THEN play
             ELSE IF regs.byte = "START" THEN TRUE
             ELSE IF regs.byte = "STOP" THEN FALSE ELSE play

\* A clock byte sets the tempo of a follower, which moves the origin to now.
Follows == regs.byte = "CLOCK" /\ rx_mode = "FOLLOWER" /\ observed_period > 0

\* Acknowledge the event and act on it.
AckAndAct ==
    /\ rx_pc = "ack" /\ rx_pc' = "idle"
    /\ rt_q' = [rt_q EXCEPT !.valid = FALSE]
    /\ last_clock' = IF regs.byte = "CLOCK" THEN regs.lo ELSE last_clock
    /\ tempo' = IF Follows THEN [period |-> observed_period, ppqn |-> 24] ELSE tempo
    /\ origin' = IF Follows THEN host_us ELSE origin
    /\ play' = RxPlayAfter
    /\ UNCHANGED <<host_us, rx_ts, rx_clk_ts, cur_period, rx_mode, regs,
                   observed_period, rxHistory>>

MidiTick == ReadPeriod \/ ReadValid \/ ReadByte \/ ReadTsLo \/ ReadTsHi \/ AckAndAct

\* midi_set_sync_mode, between two turns of the main loop.
SetMidiSyncMode ==
    /\ rx_pc = "idle"
    /\ rx_mode' \in Mode \ {rx_mode}
    /\ transport' = "none"
    /\ UNCHANGED <<host_us, rxRegisters, rx_pc, regs, rxKept, bytes>>

---------------------------------------------------------------------------
\* midi_init.
RxInit ==
    /\ rx_ts = 0 /\ rt_q = NoEvent /\ rx_clk_ts = 0 /\ cur_period = 0
    /\ rx_mode = "OBSERVE" /\ rx_pc = "idle" /\ regs = NoRegs
    /\ observed_period = 0 /\ last_clock = 0
    /\ transport = "none" /\ bytes = 0

RxNext == (\E b \in Byte : RxByte(b)) \/ MidiTick \/ SetMidiSyncMode

\* The receiver on its own; the clock runs between any two steps.
RxClock ==
    /\ HostClock
    /\ UNCHANGED <<rxRegisters, rx_mode, rx_pc, regs, observed_period, last_clock,
                   rxHistory>>

RxSpec == LinkInit /\ RxInit /\ [][RxNext \/ RxClock]_rxVars

---------------------------------------------------------------------------
(* Properties *)

\* midi.py:13-18, midi.c:70-71, docs/architecture.md:170-171: the event carries
\* the time at which its own byte was complete, in both halves.
EventTimed == rx_pc = "ack" => regs.lo = regs.at /\ regs.hi = regs.at

\* midi.c:83-108.  While the board follows, every transport byte that reached
\* the slot is acted on in the end, in their order, and nothing else moves the
\* play state: it comes to rest at the last of them, whatever arrives while
\* midi_tick reads.  (A byte that came in another mode is not spoken of.)
TransportFollowed ==
    \A b \in {"START", "STOP"} :
        <>[](transport = b) => <>[](play = (b = "START"))

=============================================================================
