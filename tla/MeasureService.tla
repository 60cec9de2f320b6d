--------------------------- MODULE MeasureService ---------------------------
(***************************************************************************)
(* What session.c relies on when it calls measurement_start: one           *)
(* measurement at a time, of one session fixed at the start, and exactly   *)
(* one verdict for it.  A start while one is running has no effect.        *)
(***************************************************************************)
CONSTANT Session

VARIABLES busy, sess, verdict

vars == <<busy, sess, verdict>>

Init == busy = FALSE /\ sess \in Session /\ verdict = "none"

\* measurement_start on an idle module.
Start ==
    /\ ~busy
    /\ busy' = TRUE
    /\ sess' \in Session
    /\ verdict' = "pending"

\* completion(1, intercept) or completion(0, 0).
Done ==
    /\ busy
    /\ busy' = FALSE
    /\ verdict' \in {"ok", "failed"}
    /\ UNCHANGED sess

Next == Start \/ Done

Spec == Init /\ [][Next]_vars
=============================================================================
