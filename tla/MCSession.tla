----------------------------- MODULE MCSession -----------------------------
(***************************************************************************)
(* Two or three boards.  The phases say which board booted first: an older *)
(* board's clock is ahead.  Both margins exceed the jitter and the drift   *)
(* of the instance, so the rule names one winner throughout.               *)
(*                                                                         *)
(* To keep the instance small a behaviour has either inexact measurements  *)
(* and expiring entries, or an edit or a drift step, chosen at the start.  *)
(***************************************************************************)
EXTENDS Session

VARIABLE noisy    \* is it the former

\* Board 2 is older by more than EPS and wins against the lower id; or the
\* boards are within EPS and the lower id wins although it is younger.
Pair == {<<0, 7>>, <<0, 1>>}

\* Three boards: 1 and 2 within EPS, 3 much older.
Three == {<<0, 0, 12>>}

Exact == {0}
Noisy == {-1, 0, 1}

\* No entry expires, and a measurement that is answered is exact.
ExactStep ==
    /\ \A n, m \in Node : peers[n][m].in_use => peers'[n][m].in_use
    /\ \A n \in Node : meas'[n].answered /\ ~meas[n].answered =>
          meas'[n].value = G(meas[n].peer) - phase[n]

RegimeInit == Init /\ noisy \in BOOLEAN

RegimeNext ==
    /\ Next
    /\ IF noisy THEN UNCHANGED <<edits, drifts>> ELSE ExactStep
    /\ UNCHANGED noisy

RegimeSpec ==
    /\ RegimeInit
    /\ [][RegimeNext]_<<vars, noisy>>
    /\ Fairness
=============================================================================
