------------------------------ MODULE MCTicks ------------------------------
(***************************************************************************)
(* What the ticks of the main loop bring about, each with the other end of *)
(* its wire: link_tick among the nodes of a LAN, midi_tick on a MIDI       *)
(* cable, the MIDI transmitter that runs by itself, euro_tick on a modular *)
(* clock, and the median that measurement_tick takes at the end. They      *)
(* share no state but the timeline; in a behaviour one of them is          *)
(* connected and the others are silent. (Two clock inputs at once would    *)
(* fight over the timeline; no document says who wins.)                    *)
(*                                                                         *)
(* Link: a table of two slots and three remote nodes, so that the table    *)
(* fills, slots are freed behind and before a match and a node is turned   *)
(* away; a clock that runs long enough for a peer to expire and be heard   *)
(* again.  Median: arrays over five values around zero, so that both       *)
(* signs, ties, odd and even lengths and odd sums occur.                   *)
(***************************************************************************)
EXTENDS Discovery, MidiRx, MidiTx, Eurorack, Median

CONSTANT r1

VARIABLE source   \* what is connected

midiOnly == <<rxRegisters, rx_mode, rx_pc, regs, observed_period, last_clock,
              rxHistory>>
euroOnly == <<inputs, mode, ppqn, kept, pc, r, modes>>
timeline == <<host_us, link>>
ticksVars == <<source, vars, timeline, midiOnly, euroOnly, txVars,
               medianVars>>

SmallValues == -2 .. 2

\* Where no LAN is connected there is nothing to announce either.
LanInit ==
    IF source = "link" THEN Init
    ELSE /\ now = 0 /\ peers = [x \in Slot |-> Free]
         /\ last_bcast = 0 /\ next_bcast = 0 /\ dirty = FALSE
         /\ tx = "none" /\ heard = [rm \in Remote |-> 0]

\* Every state message and every departure of a remote node, and one of each
\* kind that is dropped whoever sent it: a foreign group, an unknown type, and
\* what comes back from this board itself.
Datagrams ==
    [mtype: {"ALIVE", "RESPONSE", "BYEBYE"}, group: {0}, id: Remote]
    \cup {[mtype |-> "ALIVE", group |-> 1, id |-> r1],
          [mtype |-> "OTHER", group |-> 0, id |-> r1],
          [mtype |-> "ALIVE", group |-> 0, id |-> Self]}

TicksInit ==
    /\ source \in {"link", "midi in", "midi out", "eurorack", "median"}
    /\ LanInit /\ LinkInit /\ RxInit /\ TxInit /\ EuroInit /\ MedianInit
    /\ source # "eurorack" => ~run_s
    /\ source # "median" => n = 0

LinkStep(A) ==
    /\ source = "link" /\ A
    /\ UNCHANGED <<source, timeline, midiOnly, euroOnly, txVars, medianVars>>

MidiStep(A) ==
    /\ source = "midi in" /\ A
    /\ UNCHANGED <<source, vars, euroOnly, txVars, medianVars>>

TxStep ==
    /\ source = "midi out" /\ TxNext
    /\ UNCHANGED <<source, vars, timeline, midiOnly, euroOnly, medianVars>>

EuroStep(A) ==
    /\ source = "eurorack" /\ A
    /\ UNCHANGED <<source, vars, midiOnly, txVars, medianVars>>

TimePasses ==
    /\ source \in {"midi in", "eurorack"} /\ HostClock
    /\ UNCHANGED <<source, vars, midiOnly, euroOnly, txVars, medianVars>>

MedianStep ==
    /\ source = "median" /\ MedianNext
    /\ UNCHANGED <<source, vars, timeline, midiOnly, euroOnly, txVars>>

\* The median has been returned.
Returned == source = "median" /\ median_pc = "done" /\ UNCHANGED ticksVars

TicksNext ==
    \/ LinkStep(Next) \/ MidiStep(RxNext) \/ TxStep \/ EuroStep(EuroNext)
    \/ TimePasses \/ MedianStep \/ Returned

\* main.c calls all ticks on every turn of its endless loop, the clocks never
\* stop, and sequential code runs to its end.  Where a part is not connected
\* nothing of it is enabled.
TicksSpec ==
    /\ TicksInit
    /\ [][TicksNext]_ticksVars
    /\ WF_ticksVars(LinkStep(LinkTick)) /\ WF_ticksVars(LinkStep(Clock))
    /\ WF_ticksVars(MidiStep(MidiTick))
    /\ WF_ticksVars(TxStep)
    /\ WF_ticksVars(EuroStep(EuroTick))
    /\ WF_ticksVars(MedianStep)
=============================================================================
