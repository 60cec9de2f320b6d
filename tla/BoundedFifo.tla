---------------------------- MODULE BoundedFifo ----------------------------
(***************************************************************************)
(* What a subscription's jitter ring promises: the samples come out in the *)
(* order they arrived, and when it is full the oldest one makes room.      *)
(***************************************************************************)
EXTENDS Naturals, Sequences

CONSTANTS Sample, Capacity

VARIABLES queue, out

vars == <<queue, out>>

Init == queue = <<>> /\ out \in Sample

Put(v) ==
    /\ queue' = IF Len(queue) < Capacity THEN Append(queue, v)
                ELSE Append(Tail(queue), v)
    /\ UNCHANGED out

Get ==
    /\ queue # <<>>
    /\ out' = Head(queue)
    /\ queue' = Tail(queue)

\* A new subscription starts empty.
Clear == queue' = <<>> /\ UNCHANGED out

Next == (\E v \in Sample : Put(v)) \/ Get \/ Clear

Spec == Init /\ [][Next]_vars
=============================================================================
