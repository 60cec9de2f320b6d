----------------------------- MODULE MCBoards ------------------------------
(***************************************************************************)
(* Boards among themselves: the election of the session between two        *)
(* boards, or the audio channels between a publishing board and a client   *)
(* that may hold a channel twice and in which either side may be in one of *)
(* two sessions and change it.  AudioChannels leaves open when a board     *)
(* joins another session, so the two share no state: in a behaviour one of *)
(* them moves, chosen at the start.                                        *)
(***************************************************************************)
EXTENDS MCSession, AudioChannels

CONSTANTS c1, sa

VARIABLE talk    \* the one that moves

boardsVars == <<talk, vars, noisy, audioVars>>

\* random_id draws from the time since power-up, so a board may come back
\* under the id it had, with an empty list of subscribers.
SameIds == <<{c1}, {c1}>>

\* Where only audio moves the boards are in one session and at rest.
Settled ==
    /\ phase = [x \in Node |-> 0] /\ addr = Node
    /\ session = [x \in Node |-> Winner] /\ intercept = [x \in Node |-> 0]
    /\ tl = [x \in Node |-> [origin |-> 0, by |-> Winner]]
    /\ peers = [x \in Node |-> [y \in Node |-> Unknown(y)]]
    /\ target = [x \in Node |-> NoSession]
    /\ meas = [x \in Node |-> Idle(x)]
    /\ chan = [x \in Node |-> [y \in Node |-> NoMsg(x)]]
    /\ edits = 0 /\ drifts = 0 /\ noisy = FALSE

BoardsInit ==
    /\ talk \in {"election", "audio"}
    /\ IF talk = "election" THEN RegimeInit ELSE Settled
    /\ AudioInit
    /\ talk = "election" =>
          pub_session = sa /\ \A b \in Client : link_session[b] = sa

BoardsNext ==
    \/ talk = "election" /\ RegimeNext /\ UNCHANGED <<talk, audioVars>>
    \/ talk = "audio" /\ AudioNext /\ UNCHANGED <<talk, vars, noisy>>

\* The fairness of the module that moves.
BoardsSpec ==
    /\ BoardsInit
    /\ [][BoardsNext]_boardsVars
    /\ \/ talk = "election" /\ Fairness
       \/ talk = "audio" /\ AudioFairness
=============================================================================
