------------------------------ MODULE Session ------------------------------
(***************************************************************************)
(* Session election between boards that all run this firmware:            *)
(* session.c together with the parts of link.c and measurement.c that it   *)
(* calls.  Every handler runs to completion in the board's main loop, so   *)
(* one step is one handler of one board; the interleavings are those of    *)
(* the boards and of the datagrams between them.                           *)
(*                                                                         *)
(* What the neighbouring modules establish is used here in abstract form:  *)
(* a measurement is the MeasureService (one at a time, one verdict), its   *)
(* result is the responder's ghost clock up to an error in Jitter, and a   *)
(* peer entry may expire whenever its sender was not heard (Discovery).    *)
(* The table's slots are keyed by node id (Discovery shows that a node     *)
(* holds at most one); the order of the slots only decides which of        *)
(* several equally good peers is taken, and that is left open.             *)
(*                                                                         *)
(* A host clock is its phase against real time, so G(n), the phase plus    *)
(* the intercept, is the phase of board n's ghost clock: two boards show   *)
(* the same ghost time exactly when their G agree.                         *)
(***************************************************************************)
EXTENDS Integers

CONSTANTS
    Node,         \* node ids, which are also session ids; ordered as memcmp
    EPS,          \* LINK_SESSION_EPS_US
    InitPhase,    \* possible phases of the host clocks at start
    Jitter,       \* possible errors of a measured intercept
    Addressed,    \* boards that have their IPv4 address at start
    MaxEvents,    \* bound: timeline edits and drift steps together
    MayExpire     \* whether peer entries expire in this instance

ASSUME SessionAssumption ==
    /\ Node \subseteq Nat \ {0}
    /\ EPS \in Nat \ {0}
    /\ InitPhase \subseteq [Node -> Int]
    /\ Jitter \subseteq Int
    /\ Addressed \subseteq Node
    /\ MaxEvents \in Nat /\ MayExpire \in BOOLEAN

VARIABLES
    phase,        \* host clocks
    addr,         \* boards whose DHCP or AutoIP has finished
    session,      \* link_self_session
    intercept,    \* the GhostTime CSR
    tl,           \* link_self_timeline: its time_origin and who edited it
    peers,        \* link_peers
    target,       \* s_active_target_session
    meas,         \* measurement.c: is one running, against whom, for what
    chan,         \* the datagram in flight from one board to another
    edits,        \* timeline edits so far
    drifts        \* drift steps so far

vars == <<phase, addr, session, intercept, tl, peers, target, meas, chan,
          edits, drifts>>

NoSession == 0
Timeline == [origin: Nat, by: Node]

\* memset(peer, 0): a free entry; its fields are never read.
Unknown(m) == [in_use |-> FALSE, sess |-> NoSession, mep4 |-> FALSE,
               tl |-> [origin |-> 0, by |-> m], measured |-> FALSE]

Idle(n) == [active |-> FALSE, peer |-> n, sess |-> NoSession, mep4 |-> FALSE,
            answered |-> FALSE, value |-> 0]

NoMsg(n) == [kind |-> "none", sess |-> NoSession, mep4 |-> FALSE,
             tl |-> [origin |-> 0, by |-> n]]

\* The phase of the ghost clock of board n.
G(n) == phase[n] + intercept[n]

---------------------------------------------------------------------------
(* Announcements *)

\* encode_msg: the state of board n as it stands.
Snapshot(n, kind) == [kind |-> kind, sess |-> session[n], mep4 |-> n \in addr,
                      tl |-> tl[n]]

\* send_alive: one multicast; what was still in flight is overtaken.
Announce(n) ==
    /\ chan' = [chan EXCEPT ![n] = [m \in Node |->
                    IF m = n THEN NoMsg(n) ELSE Snapshot(n, "ALIVE")]]
    /\ UNCHANGED <<phase, addr, session, intercept, tl, peers, target, meas,
                   edits, drifts>>

Lose(n, m) ==
    /\ chan[n][m].kind # "none"
    /\ chan' = [chan EXCEPT ![n][m] = NoMsg(n)]
    /\ UNCHANGED <<phase, addr, session, intercept, tl, peers, target, meas,
                   edits, drifts>>

---------------------------------------------------------------------------
(* session_observe_peer *)

\* The peers that board n has on record in session s.
Members(tab, s) == {m \in Node : tab[m].in_use /\ tab[m].sess = s}

\* find_founder: the founder if it is there, else any member.
Founders(tab, s) == IF s \in Members(tab, s) THEN {s} ELSE Members(tab, s)

\* session_known_in_local_view.
KnownSession(n, tab, s) ==
    s = session[n] \/ \E m \in Members(tab, s) : tab[m].measured

\* measurement_start: a running measurement is left alone.
StartMeasurement(n, tab, q, s) ==
    meas' = IF meas[n].active THEN meas
            ELSE [meas EXCEPT ![n] = [active |-> TRUE, peer |-> q, sess |-> s,
                                      mep4 |-> tab[q].mep4,
                                      answered |-> FALSE, value |-> 0]]

\* The target session is noted before measurement_start is asked.
Observe(n, tab, s) ==
    IF KnownSession(n, tab, s) THEN UNCHANGED <<target, meas>>
    ELSE \E q \in Founders(tab, s) :
            IF ~tab[q].mep4 THEN UNCHANGED <<target, meas>>
            ELSE /\ target' = [target EXCEPT ![n] = s]
                 /\ StartMeasurement(n, tab, q, s)

\* link_handle_rx on board n for an ALIVE or RESPONSE of board m: update the
\* entry (the measured flag of an existing one stays), observe, answer.
Heard(n, m, msg) ==
    [in_use |-> TRUE, sess |-> msg.sess, mep4 |-> msg.mep4, tl |-> msg.tl,
     measured |-> peers[n][m].in_use /\ peers[n][m].measured]

Receive(m, n) ==
    LET msg == chan[m][n]
        tab == [peers[n] EXCEPT ![m] = Heard(n, m, msg)]
    IN  /\ msg.kind # "none"
        /\ peers' = [peers EXCEPT ![n] = tab]
        /\ Observe(n, tab, msg.sess)
        /\ chan' = IF msg.kind = "ALIVE"
                   THEN [chan EXCEPT ![m][n] = NoMsg(m),
                                     ![n][m] = Snapshot(n, "RESPONSE")]
                   ELSE [chan EXCEPT ![m][n] = NoMsg(m)]
        /\ UNCHANGED <<phase, addr, session, intercept, tl, edits, drifts>>

\* The prune of link_tick, or a BYEBYE.
Expire(n, m) ==
    /\ MayExpire
    /\ peers[n][m].in_use
    /\ peers' = [peers EXCEPT ![n][m] = Unknown(m)]
    /\ UNCHANGED <<phase, addr, session, intercept, tl, target, meas, chan,
                   edits, drifts>>

---------------------------------------------------------------------------
(* on_measure_done *)

Abs(x) == IF x >= 0 THEN x ELSE -x

\* Slip: the tie-break also accepts a session that is far behind.
BetterNoAbs(n, x) ==
    LET diff == x - intercept[n] IN
    diff > EPS \/ (diff < EPS /\ target[n] < session[n])

\* Slip: the lower id is not preferred within EPS.
BetterNoTie(n, x) == x - intercept[n] > EPS

\* Slip: within EPS every other session is preferred.
BetterAnyTie(n, x) ==
    LET diff == x - intercept[n] IN
    diff > EPS \/ Abs(diff) < EPS

\* The SESSION_EPS rule.
Better(n, x) ==
    LET diff == x - intercept[n] IN
    diff > EPS \/ (Abs(diff) < EPS /\ target[n] < session[n])

\* Every peer on record in the target session is now measured.
Marked(n) == [m \in Node |->
    IF peers[n][m].in_use /\ peers[n][m].sess = target[n]
    THEN [peers[n][m] EXCEPT !.measured = TRUE] ELSE peers[n][m]]

\* Slip: the new intercept is not written.
JoinNoIntercept(n, x) ==
    /\ session' = [session EXCEPT ![n] = target[n]]
    /\ UNCHANGED <<intercept, tl>>

\* Adopt the session, its ghost clock, and the latest timeline among its
\* members on record (none may be left, then the own timeline stays).
Join(n, x) ==
    /\ session' = [session EXCEPT ![n] = target[n]]
    /\ intercept' = [intercept EXCEPT ![n] = x]
    /\ LET C == Members(peers[n], target[n]) IN
       IF C = {} THEN tl' = tl
       ELSE \E b \in C :
               /\ \A c \in C : peers[n][c].tl.origin <= peers[n][b].tl.origin
               /\ tl' = [tl EXCEPT ![n] = peers[n][b].tl]

OnMeasureDone(n, x) ==
    /\ peers' = [peers EXCEPT ![n] = Marked(n)]
    /\ IF Better(n, x) THEN Join(n, x)
       ELSE UNCHANGED <<session, intercept, tl>>

\* The peer has answered the last ping, like all before it as a member of
\* the session under measurement; the pong is on its way.
LastPong(n) ==
    LET q == meas[n].peer IN
    /\ meas[n].active /\ ~meas[n].answered /\ meas[n].mep4
    /\ session[q] = meas[n].sess
    /\ \E e \in Jitter :
          meas' = [meas EXCEPT ![n] = [@ EXCEPT !.answered = TRUE,
                                                !.value = G(q) - phase[n] + e]]
    /\ UNCHANGED <<phase, addr, session, intercept, tl, peers, target, chan,
                   edits, drifts>>

\* The last pong arrives.  The peer may have switched in the meantime.
MeasureOk(n) ==
    /\ meas[n].active /\ meas[n].answered
    /\ meas' = [meas EXCEPT ![n] = Idle(n)]
    /\ OnMeasureDone(n, meas[n].value)
    /\ UNCHANGED <<phase, addr, target, chan, edits, drifts>>

\* The budget ran out or a pong named another session: nothing is recorded.
MeasureFail(n) ==
    /\ meas[n].active
    /\ meas' = [meas EXCEPT ![n] = Idle(n)]
    /\ UNCHANGED <<phase, addr, session, intercept, tl, peers, target, chan,
                   edits, drifts>>

\* session_tick, 30 s after the last one: only in a session that another
\* board founded, and whatever endpoint is on record.
Remeasure(n) ==
    /\ session[n] # n
    /\ \E q \in Founders(peers[n], session[n]) :
          /\ target' = [target EXCEPT ![n] = session[n]]
          /\ StartMeasurement(n, peers[n], q, session[n])
    /\ UNCHANGED <<phase, addr, session, intercept, tl, peers, chan,
                   edits, drifts>>

---------------------------------------------------------------------------
(* The user and the environment *)

\* link_set_local_tempo: the timeline is re-anchored at the current time,
\* later than every earlier edit.
Edit(n) ==
    /\ edits + drifts < MaxEvents
    /\ edits' = edits + 1
    /\ tl' = [tl EXCEPT ![n] = [origin |-> edits + 1, by |-> n]]
    /\ UNCHANGED <<phase, addr, session, intercept, peers, target, meas, chan,
                   drifts>>

\* DHCP or AutoIP completes.
GetAddress(n) ==
    /\ n \notin addr
    /\ addr' = addr \cup {n}
    /\ UNCHANGED <<phase, session, intercept, tl, peers, target, meas, chan,
                   edits, drifts>>

\* The crystals differ: a host clock moves against the others.
Drift(n) ==
    /\ edits + drifts < MaxEvents
    /\ drifts' = drifts + 1
    /\ \E d \in {-1, 1} : phase' = [phase EXCEPT ![n] = @ + d]
    /\ UNCHANGED <<addr, session, intercept, tl, peers, target, meas, chan,
                   edits>>

---------------------------------------------------------------------------
\* link_init: each board founds the session named after it.
Init ==
    /\ phase \in InitPhase
    /\ addr = Addressed
    /\ session = [n \in Node |-> n]
    /\ intercept = [n \in Node |-> 0]
    /\ tl = [n \in Node |-> [origin |-> 0, by |-> n]]
    /\ peers = [n \in Node |-> [m \in Node |-> Unknown(m)]]
    /\ target = [n \in Node |-> NoSession]
    /\ meas = [n \in Node |-> Idle(n)]
    /\ chan = [n \in Node |-> [m \in Node |-> NoMsg(n)]]
    /\ edits = 0
    /\ drifts = 0

Next ==
    \E n \in Node :
        \/ Announce(n) \/ Remeasure(n)
        \/ LastPong(n) \/ MeasureOk(n) \/ MeasureFail(n)
        \/ Edit(n) \/ GetAddress(n) \/ Drift(n)
        \/ \E m \in Node \ {n} : Receive(m, n) \/ Lose(m, n) \/ Expire(n, m)

Spec == Init /\ [][Next]_vars

\* The main loop of every board runs for ever, its heartbeat repeats, and
\* the LAN is fair-lossy: what is sent again and again arrives again and
\* again, and so do the pongs of repeated measurements.
Fairness ==
    \A n \in Node :
        /\ WF_vars(Announce(n))
        /\ WF_vars(GetAddress(n))
        /\ SF_vars(LastPong(n)) /\ SF_vars(MeasureOk(n))
        /\ \A m \in Node \ {n} : SF_vars(Receive(m, n))

FairSpec == Spec /\ Fairness

---------------------------------------------------------------------------
(* Properties *)

PeerRec == [in_use: BOOLEAN, sess: Node \cup {NoSession}, mep4: BOOLEAN,
            tl: Timeline, measured: BOOLEAN]

TypeOK ==
    /\ phase \in [Node -> Int]
    /\ addr \subseteq Node
    /\ session \in [Node -> Node]
    /\ intercept \in [Node -> Int]
    /\ tl \in [Node -> Timeline]
    /\ peers \in [Node -> [Node -> PeerRec]]
    /\ target \in [Node -> Node \cup {NoSession}]
    /\ meas \in [Node -> [active: BOOLEAN, peer: Node,
                         sess: Node \cup {NoSession}, mep4: BOOLEAN,
                         answered: BOOLEAN, value: Int]]
    /\ chan \in [Node -> [Node -> [kind: {"none", "ALIVE", "RESPONSE"},
                                  sess: Node \cup {NoSession}, mep4: BOOLEAN,
                                  tl: Timeline]]]
    /\ edits \in Nat
    /\ drifts \in Nat

\* session.c:88-95.  No switch ever sets a board's ghost clock back by EPS
\* or more.
NoBackwardJump ==
    [][\A n \in Node : session'[n] # session[n] =>
          intercept'[n] - intercept[n] > -EPS]_vars

\* session.c:109-110.  A board that is in a session runs on the ghost clock
\* of that session, which is its founder's host clock: up to the error of a
\* measurement and what the crystals have drifted since.
OnSessionClock ==
    \A n \in Node : \E e \in Jitter \cup {0} :
        Abs(G(n) - phase[session[n]] - e) <= drifts

\* session.c:88-95.  Two boards that measure each other at the same time
\* never trade places.
NoSwap == \A n, m \in Node : session[n] = m /\ session[m] = n => n = m

\* What the SESSION_EPS rule says of two boards that both start alone: the
\* one whose clock is ahead by more than EPS, else the lower id.
Winner ==
    CHOOSE n \in Node : \A m \in Node \ {n} :
        \/ phase[n] - phase[m] > EPS
        \/ Abs(phase[n] - phase[m]) < EPS /\ n < m

\* docs/sync-guide.md:259-261 "two newly-booted devices will agree on a
\* session": both end up in the session that the rule names, and stay.
WinnerElected == <>[](\A n \in Node : session[n] = Winner)

=============================================================================
