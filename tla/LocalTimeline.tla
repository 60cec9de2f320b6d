--------------------------- MODULE LocalTimeline ---------------------------
(***************************************************************************)
(* What the followers of an outside clock share: the microsecond counter   *)
(* and the part of link_self_timeline and link_self_startstop that they    *)
(* set through link_set_local_tempo, link_set_play and the time origin.    *)
(* A tempo is the pair of a pulse period and the pulses per quarter that   *)
(* it was computed with.                                                   *)
(***************************************************************************)
EXTENDS Integers

CONSTANT MaxUs   \* bound on the clock

ASSUME ClockAssumption == MaxUs \in Nat \ {0}

VARIABLES host_us, tempo, play, origin

link == <<tempo, play, origin>>

NoTempo == [period |-> 0, ppqn |-> 0]

\* The counter has left its reset value; nothing has been set from outside.
LinkInit == host_us = 1 /\ tempo = NoTempo /\ play = FALSE /\ origin = 0

HostClock == host_us < MaxUs /\ host_us' = host_us + 1 /\ UNCHANGED link
=============================================================================
