------------------------------- MODULE MidiTx -------------------------------
(***************************************************************************)
(* The transmit half of litex_soc/midi.py: the arbiter that turns the      *)
(* pulses of BeatPulseGen into MIDI real-time bytes, the data FIFO that    *)
(* midi_send_byte of firmware/midi.c fills, and the UART they share.       *)
(*                                                                         *)
(* A step is one clock cycle and all registers change at once.  The bits   *)
(* on the wire are left out: a byte occupies the UART for ByteCycles.  The *)
(* pulses are inputs, PulseCycles long (beat_pulse.py keeps every pulse    *)
(* high for PULSE_WIDTH_US).  Data bytes are numbered in the order in      *)
(* which the firmware sends them.                                          *)
(***************************************************************************)
EXTENDS Integers, Sequences

CONSTANTS
    ByteCycles,   \* ten bits at 31250 baud: 320 us
    PulseCycles,  \* PULSE_WIDTH_US: 1000 us
    Depth,        \* depth of the FIFO
    MaxPulses,    \* bound: pulses
    MaxData       \* bound: data bytes

ASSUME MidiTxAssumption ==
    /\ ByteCycles \in Nat \ {0} /\ PulseCycles \in Nat \ {0}
    /\ Depth \in Nat \ {0} /\ MaxPulses \in Nat /\ MaxData \in Nat

VARIABLES
    high,         \* cycles for which each input stays high
    rt_pending, rt_byte_out,
    tx_busy,      \* cycles left of the byte on the wire
    tx_shift,     \* what that byte is
    fifo,         \* tx_data_fifo
    pushed,       \* data bytes accepted so far
    pulses,       \* pulses so far
    data_out,     \* history: the last data byte that went out
    rt_wait       \* history: how long the pending byte has been waiting

txVars == <<high, rt_pending, rt_byte_out, tx_busy, tx_shift, fifo, pushed,
          pulses, data_out, rt_wait>>

Input == {"start", "stop", "clk_24"}

---------------------------------------------------------------------------
(* The environment *)

\* A low input may rise; a high one falls when its width is over.
NewHigh(rising) == [p \in Input |->
    IF p \in rising THEN PulseCycles ELSE IF high[p] > 0 THEN high[p] - 1 ELSE 0]

Pulses(rising) ==
    /\ \A p \in rising : high[p] = 0
    /\ rising = {} \/ pulses < MaxPulses
    /\ high' = NewHigh(rising)
    /\ pulses' = IF rising = {} THEN pulses ELSE pulses + 1

\* midi_send_byte: refused while the FIFO is full.
Pushed(push) ==
    /\ push => pushed < MaxData /\ Len(fifo) < Depth
    /\ pushed' = IF push THEN pushed + 1 ELSE pushed

---------------------------------------------------------------------------
(* The gateware *)

\* Slip: the clock goes first.
RequestedClockFirst == IF high["clk_24"] > 0 THEN "CLOCK"
                       ELSE IF high["start"] > 0 THEN "START"
                       ELSE IF high["stop"] > 0 THEN "STOP" ELSE "none"

\* The arbiter: start before stop before clock, for as long as they are high.
Requested == IF high["start"] > 0 THEN "START"
             ELSE IF high["stop"] > 0 THEN "STOP"
             ELSE IF high["clk_24"] > 0 THEN "CLOCK" ELSE "none"

\* Slip: queued data goes first.
TakeRtDataFirst == tx_busy = 0 /\ rt_pending /\ fifo = <<>>

\* An idle UART takes the pending real-time byte.
TakeRt == tx_busy = 0 /\ rt_pending

\* Slip: the FIFO is read out although a real-time byte is taken.
DrainFifoAlways == tx_busy = 0 /\ fifo # <<>>

\* tx_data_fifo.re.
DrainFifo == tx_busy = 0 /\ ~rt_pending /\ fifo # <<>>

\* Taking the byte is the later assignment and wins over a new request.
Pending == ~TakeRt /\ (rt_pending \/ Requested # "none")

Arbiter ==
    /\ rt_byte_out' = IF Requested # "none" THEN Requested ELSE rt_byte_out
    /\ rt_pending' = Pending
    /\ rt_wait' = IF rt_pending /\ ~TakeRt THEN rt_wait + 1 ELSE 0

Uart ==
    \/ /\ TakeRt
       /\ tx_shift' = rt_byte_out /\ tx_busy' = ByteCycles
       /\ UNCHANGED data_out
    \/ /\ ~TakeRt /\ tx_busy = 0 /\ fifo # <<>>
       /\ tx_shift' = "DATA" /\ tx_busy' = ByteCycles
       /\ data_out' = Head(fifo)
    \/ /\ ~TakeRt /\ ~(tx_busy = 0 /\ fifo # <<>>)
       /\ tx_busy' = IF tx_busy > 0 THEN tx_busy - 1 ELSE 0
       /\ UNCHANGED <<tx_shift, data_out>>

TxFifo(push) ==
    LET rest == IF DrainFifo THEN Tail(fifo) ELSE fifo IN
    fifo' = IF push THEN Append(rest, pushed + 1) ELSE rest

---------------------------------------------------------------------------
TxInit ==
    /\ high = [p \in Input |-> 0]
    /\ rt_pending = FALSE /\ rt_byte_out = "none"
    /\ tx_busy = 0 /\ tx_shift = "none"
    /\ fifo = <<>> /\ pushed = 0
    /\ pulses = 0 /\ data_out = 0 /\ rt_wait = 0

TxCycle(rising, push) ==
    Pulses(rising) /\ Pushed(push) /\ Arbiter /\ Uart /\ TxFifo(push)

TxNext == \E rising \in SUBSET Input, push \in BOOLEAN : TxCycle(rising, push)

TxSpec == TxInit /\ [][TxNext]_txVars

\* The clock never stops.
TxFairSpec == TxSpec /\ WF_txVars(TxNext)

---------------------------------------------------------------------------
(* Properties *)

\* midi.py:156, 205-235.  A real-time byte never waits for more than the rest
\* of the byte that is on the wire, however much data is queued.
RtLatency == rt_wait <= ByteCycles

\* midi.py:201-235.  Data bytes leave in the order in which the firmware sent
\* them, none is lost and none goes out twice: what is queued is what was
\* accepted after the last one on the wire.  (The FIFO's read strobe and the
\* UART's load are separate statements with conditions of their own.)
DataComplete == fifo = [x \in 1 .. pushed - data_out |-> data_out + x]

\* midi.py:166-192.  A start pulse puts a start byte on the wire, whatever
\* else is asked for at the time.
StartSent == (high["start"] > 0) ~> (tx_busy > 0 /\ tx_shift = "START")

=============================================================================
