--------------------------- MODULE SessionProofs ---------------------------
(***************************************************************************)
(* Theorems about Session for any number of boards, any boot times, any    *)
(* measurement error and any bounds: the types, and that no switch sets a  *)
(* ghost clock back by EPS or more.  For two boards whose clocks are not   *)
(* too close to EPS apart: each is on the clock of its session, and they   *)
(* never trade places.                                                     *)
(***************************************************************************)
EXTENDS Session, TLAPS

MsgRec == [kind: {"none", "ALIVE", "RESPONSE"}, sess: Node \cup {NoSession},
           mep4: BOOLEAN, tl: Timeline]

MeasRec == [active: BOOLEAN, peer: Node, sess: Node \cup {NoSession},
            mep4: BOOLEAN, answered: BOOLEAN, value: Int]

\* The records the actions build have the types of the variables.
LEMMA BlankTypes ==
    ASSUME NEW n \in Node
    PROVE  /\ Unknown(n) \in PeerRec
           /\ Idle(n) \in MeasRec
           /\ NoMsg(n) \in MsgRec
  BY DEF Unknown, Idle, NoMsg, PeerRec, MeasRec, MsgRec, Timeline

\* encode_msg builds a datagram.
LEMMA SnapshotType ==
    ASSUME TypeOK, NEW n \in Node, NEW k \in {"ALIVE", "RESPONSE"}
    PROVE  Snapshot(n, k) \in MsgRec
  <1>1. session[n] \in Node /\ tl[n] \in Timeline
    BY DEF TypeOK
  <1>2. (n \in addr) \in BOOLEAN
    OBVIOUS
  <1> QED
    BY <1>1, <1>2 DEF Snapshot, MsgRec

\* link_handle_rx builds a peer entry.
LEMMA HeardType ==
    ASSUME TypeOK, NEW n \in Node, NEW m \in Node, NEW msg \in MsgRec
    PROVE  Heard(n, m, msg) \in PeerRec
  <1>1. (peers[n][m].in_use /\ peers[n][m].measured) \in BOOLEAN
    OBVIOUS
  <1> QED
    BY <1>1 DEF Heard, PeerRec, MsgRec

\* Founders are boards.
LEMMA FounderIsNode ==
    ASSUME NEW tab, NEW s, NEW q \in Founders(tab, s)
    PROVE  q \in Node
  BY DEF Founders, Members

\* measurement_start keeps the type of the measurement.
LEMMA StartType ==
    ASSUME TypeOK, NEW n \in Node, NEW tab \in [Node -> PeerRec],
           NEW q \in Node, NEW s \in Node \cup {NoSession},
           StartMeasurement(n, tab, q, s)
    PROVE  meas' \in [Node -> MeasRec]
  <1>1. meas \in [Node -> MeasRec]
    BY DEF TypeOK, MeasRec
  <1>2. [active |-> TRUE, peer |-> q, sess |-> s, mep4 |-> tab[q].mep4,
         answered |-> FALSE, value |-> 0] \in MeasRec
    BY DEF MeasRec, PeerRec
  <1> QED
    BY <1>1, <1>2 DEF StartMeasurement

\* So does session_observe_peer.
LEMMA ObserveType ==
    ASSUME TypeOK, NEW n \in Node, NEW tab \in [Node -> PeerRec],
           NEW s \in Node \cup {NoSession}, Observe(n, tab, s)
    PROVE  /\ meas' \in [Node -> MeasRec]
           /\ target' \in [Node -> Node \cup {NoSession}]
  <1>1. meas \in [Node -> MeasRec] /\ target \in [Node -> Node \cup {NoSession}]
    BY DEF TypeOK, MeasRec
  <1>2. CASE UNCHANGED <<target, meas>>
    BY <1>1, <1>2
  <1>3. CASE ~UNCHANGED <<target, meas>>
    <2>1. PICK q \in Founders(tab, s) :
             target' = [target EXCEPT ![n] = s] /\ StartMeasurement(n, tab, q, s)
      BY <1>3 DEF Observe
    <2>2. q \in Node
      BY FounderIsNode
    <2> QED
      BY <1>1, <2>1, <2>2, StartType
  <1> QED
    BY <1>2, <1>3

\* The intercept that a measurement reports is an integer.
LEMMA MeasuredIsInt ==
    ASSUME TypeOK, NEW n \in Node, NEW q \in Node, NEW e \in Jitter
    PROVE  G(q) - phase[n] + e \in Int
  BY SessionAssumption DEF TypeOK, G

\* link_init establishes the types.
LEMMA InitType == Init => TypeOK
  <1> SUFFICES ASSUME Init PROVE TypeOK
    OBVIOUS
  <1>1. peers \in [Node -> [Node -> PeerRec]]
    BY BlankTypes DEF Init
  <1>2. meas \in [Node -> MeasRec] /\ chan \in [Node -> [Node -> MsgRec]]
    BY BlankTypes DEF Init
  <1>3. /\ phase \in [Node -> Int] /\ addr \subseteq Node
        /\ session \in [Node -> Node] /\ intercept \in [Node -> Int]
        /\ tl \in [Node -> Timeline]
        /\ target \in [Node -> Node \cup {NoSession}]
        /\ edits \in Nat /\ drifts \in Nat
    BY SessionAssumption DEF Init, Timeline
  <1> QED
    BY <1>1, <1>2, <1>3 DEF TypeOK, MeasRec, MsgRec

\* What on_measure_done does to the types.
LEMMA DoneType ==
    ASSUME TypeOK, NEW n \in Node, NEW x \in Int, target[n] \in Node,
           OnMeasureDone(n, x)
    PROVE  /\ peers' \in [Node -> [Node -> PeerRec]]
           /\ session' \in [Node -> Node]
           /\ intercept' \in [Node -> Int]
           /\ tl' \in [Node -> Timeline]
  <1>1. /\ peers \in [Node -> [Node -> PeerRec]] /\ session \in [Node -> Node]
        /\ intercept \in [Node -> Int] /\ tl \in [Node -> Timeline]
    BY DEF TypeOK
  <1>2. Marked(n) \in [Node -> PeerRec]
    <2>1. ASSUME NEW m \in Node
          PROVE  /\ peers[n][m] \in PeerRec
                 /\ [peers[n][m] EXCEPT !.measured = TRUE] \in PeerRec
      <3>1. peers[n][m] \in PeerRec
        BY <1>1
      <3> QED
        BY <3>1 DEF PeerRec
    <2> QED
      BY <2>1 DEF Marked
  <1>3. peers' \in [Node -> [Node -> PeerRec]]
    BY <1>1, <1>2 DEF OnMeasureDone
  <1>4. CASE Join(n, x)
    <2>1. session' \in [Node -> Node] /\ intercept' \in [Node -> Int]
      BY <1>1, <1>4 DEF Join
    <2>2. CASE tl' = tl
      BY <1>1, <1>3, <2>1, <2>2
    <2>3. CASE tl' # tl
      <3>1. PICK b \in Members(peers[n], target[n]) :
               tl' = [tl EXCEPT ![n] = peers[n][b].tl]
        BY <1>4, <2>3 DEF Join
      <3>2. b \in Node
        BY DEF Members
      <3>3. peers[n][b].tl \in Timeline
        BY <1>1, <3>2 DEF PeerRec
      <3> QED
        BY <1>1, <1>3, <2>1, <3>1, <3>3
    <2> QED
      BY <2>2, <2>3
  <1>5. CASE UNCHANGED <<session, intercept, tl>>
    BY <1>1, <1>3, <1>5
  <1> QED
    BY <1>4, <1>5 DEF OnMeasureDone

(***************************************************************************)
(* TypeOK alone is not inductive: the session that a board joins is its    *)
(* target, and the target comes from a datagram.  Both are typed with the  *)
(* blank session id of a zeroed record, which is never joined because      *)
(* every datagram in flight names a real session, and a measurement only   *)
(* runs once there is a target.                                            *)
(***************************************************************************)
Named ==
    /\ \A n, m \in Node : chan[n][m].kind # "none" => chan[n][m].sess \in Node
    /\ \A n \in Node : meas[n].active => target[n] \in Node

IInv == TypeOK /\ Named

\* link_init establishes the invariant: nothing is in flight or measured.
LEMMA InitInv == Init => IInv
  <1> SUFFICES ASSUME Init PROVE Named
    BY InitType DEF IInv
  <1>1. \A n, m \in Node : chan[n][m].kind = "none"
    BY DEF Init, NoMsg
  <1>2. \A n \in Node : meas[n].active = FALSE
    BY DEF Init, Idle
  <1> QED
    BY <1>1, <1>2 DEF Named

\* The split form of TypeOK that the steps below use.
LEMMA TypeParts ==
    TypeOK <=>
      /\ phase \in [Node -> Int] /\ addr \subseteq Node
      /\ session \in [Node -> Node] /\ intercept \in [Node -> Int]
      /\ tl \in [Node -> Timeline] /\ peers \in [Node -> [Node -> PeerRec]]
      /\ target \in [Node -> Node \cup {NoSession}]
      /\ meas \in [Node -> MeasRec] /\ chan \in [Node -> [Node -> MsgRec]]
      /\ edits \in Nat /\ drifts \in Nat
  BY DEF TypeOK, MeasRec, MsgRec

\* Every handler of every board preserves the invariant.
LEMMA NextInv == IInv /\ [Next]_vars => IInv'
  <1> SUFFICES ASSUME IInv, [Next]_vars PROVE IInv'
    OBVIOUS
  <1>t. /\ phase \in [Node -> Int] /\ addr \subseteq Node
        /\ session \in [Node -> Node] /\ intercept \in [Node -> Int]
        /\ tl \in [Node -> Timeline] /\ peers \in [Node -> [Node -> PeerRec]]
        /\ target \in [Node -> Node \cup {NoSession}]
        /\ meas \in [Node -> MeasRec] /\ chan \in [Node -> [Node -> MsgRec]]
        /\ edits \in Nat /\ drifts \in Nat
    BY TypeParts DEF IInv
  <1>n. TypeOK /\ Named
    BY DEF IInv
  \* A step that leaves the measurements and targets alone and puts only
  \* named datagrams in flight keeps Named.
  <1>q. ASSUME UNCHANGED <<meas, target>>,
               \A n, m \in Node : chan'[n][m].kind # "none" => chan'[n][m].sess \in Node
        PROVE  Named'
    BY <1>n, <1>q DEF Named
  <1>1. CASE UNCHANGED vars
    BY <1>n, <1>1 DEF IInv, TypeOK, Named, vars
  <1>2. ASSUME NEW n \in Node, Announce(n) PROVE IInv'
    <2>1. /\ Snapshot(n, "ALIVE") \in MsgRec /\ NoMsg(n) \in MsgRec
          /\ Snapshot(n, "ALIVE").sess \in Node
      BY <1>n, <1>t, SnapshotType, BlankTypes DEF Snapshot
    <2>2. chan' \in [Node -> [Node -> MsgRec]]
      BY <1>2, <1>t, <2>1 DEF Announce
    <2>3. TypeOK'
      BY <1>2, <1>t, <2>2, TypeParts DEF Announce, TypeOK, MeasRec, MsgRec
    <2>4. \A a, b \in Node : chan'[a][b].kind # "none" => chan'[a][b].sess \in Node
      <3> SUFFICES ASSUME NEW a \in Node, NEW b \in Node,
                          chan'[a][b].kind # "none"
                   PROVE  chan'[a][b].sess \in Node
        OBVIOUS
      <3>1. CASE a = n
        <4>1. chan'[a][b] = IF b = n THEN NoMsg(n) ELSE Snapshot(n, "ALIVE")
          BY <1>2, <1>t, <3>1 DEF Announce
        <4> QED
          BY <2>1, <4>1 DEF NoMsg
      <3>2. CASE a # n
        <4>1. chan'[a][b] = chan[a][b]
          BY <1>2, <1>t, <3>2 DEF Announce
        <4> QED
          BY <1>n, <4>1 DEF Named
      <3> QED
        BY <3>1, <3>2
    <2> QED
      BY <1>2, <1>q, <2>3, <2>4 DEF IInv, Announce
  <1>3. ASSUME NEW n \in Node, NEW m \in Node, Lose(m, n) PROVE IInv'
    <2>1. chan' \in [Node -> [Node -> MsgRec]]
      BY <1>3, <1>t, BlankTypes DEF Lose
    <2>2. TypeOK'
      BY <1>3, <1>t, <2>1 DEF Lose, TypeOK, MeasRec, MsgRec
    <2>3. \A a, b \in Node : chan'[a][b] = chan[a][b] \/ chan'[a][b] = NoMsg(m)
      BY <1>3, <1>t DEF Lose
    <2>4. \A a, b \in Node : chan'[a][b].kind # "none" => chan'[a][b].sess \in Node
      BY <1>n, <2>3 DEF Named, NoMsg
    <2> QED
      BY <1>3, <1>q, <2>2, <2>4 DEF IInv, Lose
  <1>4. ASSUME NEW n \in Node, NEW m \in Node \ {n}, Receive(m, n) PROVE IInv'
    <2> DEFINE msg == chan[m][n]
               tab == [peers[n] EXCEPT ![m] = Heard(n, m, msg)]
    <2>1. msg \in MsgRec /\ msg.sess \in Node
      BY <1>4, <1>n, <1>t DEF Receive, Named
    <2>2. Heard(n, m, msg) \in PeerRec
      BY <1>n, <2>1, HeardType
    <2>3. tab \in [Node -> PeerRec]
      BY <1>t, <2>2
    <2>4. peers' = [peers EXCEPT ![n] = tab] /\ Observe(n, tab, msg.sess)
      BY <1>4 DEF Receive
    <2>5. peers' \in [Node -> [Node -> PeerRec]]
      BY <1>t, <2>3, <2>4
    <2>6. meas' \in [Node -> MeasRec] /\ target' \in [Node -> Node \cup {NoSession}]
      <3> HIDE DEF tab, msg
      <3> QED
        BY <1>n, <2>1, <2>3, <2>4, ObserveType
    <2>7. /\ Snapshot(n, "RESPONSE") \in MsgRec /\ NoMsg(m) \in MsgRec
          /\ Snapshot(n, "RESPONSE").sess \in Node
      BY <1>n, <1>t, SnapshotType, BlankTypes DEF Snapshot
    <2>8. \A a, b \in Node : \/ chan'[a][b] = chan[a][b]
                             \/ chan'[a][b] = NoMsg(m)
                             \/ chan'[a][b] = Snapshot(n, "RESPONSE")
      BY <1>4, <1>t DEF Receive
    <2>9. chan' \in [Node -> [Node -> MsgRec]]
      BY <1>4, <1>t, <2>7 DEF Receive
    <2>10. TypeOK'
      BY <1>4, <1>t, <2>5, <2>6, <2>9 DEF Receive, TypeOK, MeasRec, MsgRec
    <2>11. \A a, b \in Node : chan'[a][b].kind # "none" => chan'[a][b].sess \in Node
      BY <1>n, <2>7, <2>8 DEF Named, NoMsg
    <2>12. \A a \in Node : meas'[a].active => target'[a] \in Node
      <3>1. CASE UNCHANGED <<target, meas>>
        BY <1>n, <3>1 DEF Named
      <3>2. CASE ~UNCHANGED <<target, meas>>
        <4>1. PICK q \in Founders(tab, msg.sess) :
                 /\ target' = [target EXCEPT ![n] = msg.sess]
                 /\ StartMeasurement(n, tab, q, msg.sess)
          BY <2>4, <3>2 DEF Observe
        <4>2. \A a \in Node \ {n} : meas'[a] = meas[a] /\ target'[a] = target[a]
          BY <1>t, <4>1 DEF StartMeasurement
        <4>3. target'[n] \in Node
          BY <1>t, <2>1, <4>1
        <4> QED
          BY <1>n, <4>2, <4>3 DEF Named
      <3> QED
        BY <3>1, <3>2
    <2> QED
      BY <2>10, <2>11, <2>12 DEF IInv, Named
  <1>5. ASSUME NEW n \in Node, NEW m \in Node, Expire(n, m) PROVE IInv'
    <2>1. peers' \in [Node -> [Node -> PeerRec]]
      BY <1>5, <1>t, BlankTypes DEF Expire
    <2>2. TypeOK'
      BY <1>5, <1>t, <2>1 DEF Expire, TypeOK, MeasRec, MsgRec
    <2> QED
      BY <1>5, <1>n, <2>2 DEF IInv, Expire, Named
  <1>6. ASSUME NEW n \in Node, MeasureOk(n) PROVE IInv'
    <2>1. target[n] \in Node
      BY <1>6, <1>n DEF MeasureOk, Named
    <2>2. OnMeasureDone(n, meas[n].value)
      BY <1>6 DEF MeasureOk
    <2>3. meas[n].value \in Int
      BY <1>t DEF MeasRec
    <2>4. /\ peers' \in [Node -> [Node -> PeerRec]]
          /\ session' \in [Node -> Node]
          /\ intercept' \in [Node -> Int]
          /\ tl' \in [Node -> Timeline]
      BY <1>n, <2>1, <2>2, <2>3, DoneType
    <2>5. meas' \in [Node -> MeasRec]
      BY <1>6, <1>t, BlankTypes DEF MeasureOk
    <2>6. TypeOK'
      BY <1>6, <1>t, <2>4, <2>5 DEF MeasureOk, TypeOK, MeasRec, MsgRec
    <2>7. \A a \in Node : meas'[a].active => a # n /\ meas[a].active
      BY <1>6, <1>t DEF MeasureOk, Idle
    <2> QED
      BY <1>6, <1>n, <2>6, <2>7 DEF IInv, Named, MeasureOk
  <1>7. ASSUME NEW n \in Node, MeasureFail(n) PROVE IInv'
    <2>1. meas' \in [Node -> MeasRec]
      BY <1>7, <1>t, BlankTypes DEF MeasureFail
    <2>2. TypeOK'
      BY <1>7, <1>t, <2>1 DEF MeasureFail, TypeOK, MeasRec, MsgRec
    <2>3. \A a \in Node : meas'[a].active => meas[a].active
      BY <1>7, <1>t DEF MeasureFail, Idle
    <2> QED
      BY <1>7, <1>n, <2>2, <2>3 DEF IInv, Named, MeasureFail
  <1>8. ASSUME NEW n \in Node, Remeasure(n) PROVE IInv'
    <2>1. PICK q \in Founders(peers[n], session[n]) :
             /\ target' = [target EXCEPT ![n] = session[n]]
             /\ StartMeasurement(n, peers[n], q, session[n])
      BY <1>8 DEF Remeasure
    <2>2. q \in Node /\ session[n] \in Node /\ peers[n] \in [Node -> PeerRec]
      BY <1>t, FounderIsNode
    <2>3. meas' \in [Node -> MeasRec]
      BY <1>n, <2>1, <2>2, StartType
    <2>4. target' \in [Node -> Node \cup {NoSession}]
      BY <1>t, <2>1, <2>2
    <2>5. TypeOK'
      BY <1>8, <1>t, <2>3, <2>4 DEF Remeasure, TypeOK, MeasRec, MsgRec
    <2>6. \A a \in Node \ {n} : meas'[a] = meas[a] /\ target'[a] = target[a]
      BY <1>t, <2>1 DEF StartMeasurement
    <2>7. target'[n] \in Node
      BY <1>t, <2>1, <2>2
    <2> QED
      BY <1>8, <1>n, <2>5, <2>6, <2>7 DEF IInv, Named, Remeasure
  <1>9. ASSUME NEW n \in Node, Edit(n) PROVE IInv'
    <2>1. tl' \in [Node -> Timeline] /\ edits' \in Nat
      BY <1>9, <1>t DEF Edit, Timeline
    <2>2. TypeOK'
      BY <1>9, <1>t, <2>1 DEF Edit, TypeOK, MeasRec, MsgRec
    <2> QED
      BY <1>9, <1>n, <2>2 DEF IInv, Named, Edit
  <1>10. ASSUME NEW n \in Node, GetAddress(n) PROVE IInv'
    <2>1. TypeOK'
      BY <1>10, <1>t DEF GetAddress, TypeOK, MeasRec, MsgRec
    <2> QED
      BY <1>10, <1>n, <2>1 DEF IInv, Named, GetAddress
  <1>11. ASSUME NEW n \in Node, Drift(n) PROVE IInv'
    <2>1. phase' \in [Node -> Int] /\ drifts' \in Nat
      BY <1>11, <1>t DEF Drift
    <2>2. TypeOK'
      BY <1>11, <1>t, <2>1 DEF Drift, TypeOK, MeasRec, MsgRec
    <2> QED
      BY <1>11, <1>n, <2>2 DEF IInv, Named, Drift
  <1>12. ASSUME NEW n \in Node, LastPong(n) PROVE IInv'
    <2>1. meas[n] \in MeasRec /\ meas[n].peer \in Node
      BY <1>t DEF MeasRec
    <2>2. PICK e \in Jitter :
             meas' = [meas EXCEPT ![n] =
                [@ EXCEPT !.answered = TRUE,
                          !.value = G(meas[n].peer) - phase[n] + e]]
      BY <1>12 DEF LastPong
    <2> DEFINE x == G(meas[n].peer) - phase[n] + e
    <2>3. x \in Int
      BY <1>n, <2>1, MeasuredIsInt
    <2> HIDE DEF x
    <2> DEFINE r == [meas[n] EXCEPT !.answered = TRUE, !.value = x]
    <2>4. r \in MeasRec /\ r.active = meas[n].active
      BY <2>1, <2>3 DEF MeasRec
    <2>5. meas' = [meas EXCEPT ![n] = r]
      BY <1>t, <2>2 DEF x
    <2> HIDE DEF r
    <2>6. meas' \in [Node -> MeasRec]
      BY <1>t, <2>4, <2>5
    <2>7. TypeOK'
      BY <1>12, <1>t, <2>6 DEF LastPong, TypeOK, MeasRec, MsgRec
    <2>8. \A a \in Node : meas'[a].active = meas[a].active
      BY <1>t, <2>4, <2>5
    <2> QED
      BY <1>12, <1>n, <2>7, <2>8 DEF IInv, Named, LastPong
  <1> QED
    BY <1>1, <1>2, <1>3, <1>4, <1>5, <1>6, <1>7, <1>8, <1>9, <1>10, <1>11,
       <1>12 DEF Next

\* Every reachable state satisfies IInv.
LEMMA InductiveInvariant == Spec => []IInv
  BY InitInv, NextInv, PTL DEF Spec

\* Types, for any number of boards (link.h:37-56, session.c).
THEOREM TypeCorrect == Spec => []TypeOK
  <1>1. IInv => TypeOK
    BY DEF IInv
  <1> QED
    BY <1>1, InductiveInvariant, PTL

\* A switch of session is taken only by on_measure_done, and there only
\* under the SESSION_EPS rule.
LEMMA SwitchIsForward ==
    ASSUME IInv, Next, NEW n \in Node, session'[n] # session[n]
    PROVE  intercept'[n] - intercept[n] > -EPS
  <1>1. PICK a \in Node : MeasureOk(a)
    BY DEF Next, Announce, Lose, Receive, Expire, LastPong, MeasureFail,
           Remeasure, Edit, GetAddress, Drift
  <1> DEFINE x == meas[a].value
  <1>2. OnMeasureDone(a, x)
    BY <1>1 DEF MeasureOk
  <1>3. x \in Int
    BY DEF IInv, TypeOK
  <1>4. intercept \in [Node -> Int] /\ session \in [Node -> Node]
    BY DEF IInv, TypeOK
  <1> HIDE DEF x
  <1>5. Better(a, x) /\ Join(a, x)
    BY <1>2 DEF OnMeasureDone, x
  <1>6. a = n /\ intercept'[n] = x
    BY <1>4, <1>5 DEF Join
  <1> QED
    BY <1>3, <1>4, <1>5, <1>6, SessionAssumption DEF Better, Abs

\* However the boards, their measurements and their datagrams interleave, a
\* board that changes session never sets its ghost clock back by EPS or more
\* (session.c:88-95).
THEOREM NeverBackward == Spec => NoBackwardJump
  <1>1. IInv /\ [Next]_vars =>
           [\A n \in Node : session'[n] # session[n] =>
               intercept'[n] - intercept[n] > -EPS]_vars
    BY SwitchIsForward
  <1> QED
    BY <1>1, InductiveInvariant, PTL DEF Spec, NoBackwardJump

---------------------------------------------------------------------------
(***************************************************************************)
(* Two boards.  The proof follows one of them, the winner of the           *)
(* SESSION_EPS rule, and shows that it never leaves its own session: so    *)
(* the other one can only measure a board in the session it founded.       *)
(***************************************************************************)

\* The rule, applied to the host clocks at start.
Wins(p, w, l) ==
    p[w] - p[l] > EPS \/ (Abs(p[w] - p[l]) < EPS /\ w < l)

\* There are two boards, and whenever they boot, no measurement error and no
\* drift can bring the difference of their clocks across EPS.
TwoBoards ==
    /\ \E a, b \in Node : a # b /\ Node = {a, b}
    /\ \A p \in InitPhase : \A n, m \in Node : \A e \in Jitter \cup {0} :
          n # m => Abs(Abs(p[n] - p[m]) - EPS) > Abs(e) + MaxEvents

\* Board w is the one the rule favours, from the phases p on.
Duel(p, w, l) ==
    /\ p \in InitPhase
    /\ w # l /\ Node = {w, l}
    /\ Wins(p, w, l)

\* The clocks have moved against each other by the drift steps.
Apart(p, w, l) ==
    /\ drifts <= MaxEvents
    /\ Abs((phase[w] - phase[l]) - (p[w] - p[l])) <= drifts

\* The winner is in its own session; the other one in its own, with its own
\* clock, or in the winner's, with the winner's clock as it measured it.
Placed(w, l) ==
    /\ session[w] = w /\ intercept[w] = 0
    /\ session[l] = l => intercept[l] = 0
    /\ session[l] = w =>
          \E e \in Jitter : Abs(G(l) - phase[w] - e) <= drifts

\* Nobody lists itself, and the loser has never heard of the winner in
\* another session.
Told(w, l) ==
    /\ \A n \in Node : ~peers[n][n].in_use
    /\ peers[l][w].in_use => peers[l][w].sess = w
    /\ chan[w][l].kind # "none" => chan[w][l].sess = w

\* A measurement is of the other board, in the session that it founded, and
\* the target is that session.
Aimed ==
    \A n \in Node : meas[n].active =>
        target[n] # n /\ meas[n].peer # n /\ meas[n].sess # n /\ meas[n].sess \in Node

\* What a measurement found is the difference of the host clocks.
Timed(p, w, l) ==
    /\ meas[l].active /\ meas[l].answered =>
          \E e \in Jitter :
             Abs(meas[l].value - (phase[w] - phase[l]) - e) <= drifts
    /\ meas[w].active /\ meas[w].answered =>
          \E e \in Jitter :
             Abs(meas[w].value - (p[l] - p[w]) - e) <= drifts

DuelInv(p, w, l) ==
    /\ Apart(p, w, l)
    /\ Placed(w, l)
    /\ Told(w, l)
    /\ Aimed
    /\ Timed(p, w, l)

\* One of two boards is favoured.
LEMMA OneWins ==
    ASSUME TwoBoards, NEW p \in InitPhase
    PROVE  \E w, l \in Node : Duel(p, w, l)
  <1>1. PICK a, b \in Node : a # b /\ Node = {a, b}
    BY DEF TwoBoards
  <1>2. /\ a \in Nat /\ b \in Nat /\ p[a] \in Int /\ p[b] \in Int /\ EPS \in Nat
        /\ MaxEvents \in Nat
    BY SessionAssumption
  <1>3. Abs(Abs(p[a] - p[b]) - EPS) > Abs(0) + MaxEvents
    BY <1>1 DEF TwoBoards
  <1>4. Wins(p, a, b) \/ Wins(p, b, a)
    BY <1>1, <1>2, <1>3 DEF Wins, Abs
  <1> QED
    BY <1>1, <1>4 DEF Duel

\* The winner does not find the other session better.
LEMMA WinnerStays ==
    ASSUME TwoBoards, NEW p, NEW w \in Node, NEW l \in Node, Duel(p, w, l),
           IInv, DuelInv(p, w, l), meas[w].active, meas[w].answered
    PROVE  ~Better(w, meas[w].value)
  <1>1. /\ w \in Nat /\ l \in Nat /\ p[w] \in Int /\ p[l] \in Int /\ EPS \in Nat
        /\ MaxEvents \in Nat /\ drifts \in Nat /\ Jitter \subseteq Int
        /\ meas[w].value \in Int
    BY SessionAssumption DEF Duel, IInv, TypeOK
  <1>2. PICK e \in Jitter : Abs(meas[w].value - (p[l] - p[w]) - e) <= drifts
    BY DEF DuelInv, Timed
  <1>3. Abs(Abs(p[w] - p[l]) - EPS) > Abs(e) + MaxEvents
    BY DEF TwoBoards, Duel
  <1>4. /\ drifts <= MaxEvents /\ session[w] = w /\ intercept[w] = 0
        /\ Wins(p, w, l)
    BY DEF Duel, DuelInv, Apart, Placed
  <1>5. target[w] = l
    BY DEF DuelInv, Aimed, Duel, IInv, Named
  <1> QED
    BY <1>1, <1>2, <1>3, <1>4, <1>5 DEF Wins, Abs, Better

\* find_founder never returns a board that is not listed.
LEMMA FounderIsOther ==
    ASSUME NEW tab, NEW n, NEW s, ~tab[n].in_use, NEW q \in Founders(tab, s)
    PROVE  q \in Node \ {n}
  BY DEF Founders, Members

\* measurement_start on the other board keeps the aim, and what is answered
\* was running and answered before.
LEMMA StartAims ==
    ASSUME TypeOK, Aimed, NEW n \in Node, NEW tab, NEW q \in Node \ {n},
           NEW s \in Node \ {n},
           target' = [target EXCEPT ![n] = s], StartMeasurement(n, tab, q, s)
    PROVE  /\ Aimed'
           /\ \A a \in Node : meas'[a].active /\ meas'[a].answered =>
                                  meas[a] = meas'[a]
  <1>1. /\ meas \in [Node -> MeasRec]
        /\ target \in [Node -> Node \cup {NoSession}]
    BY TypeParts
  <1>2. \A a \in Node \ {n} : target'[a] = target[a] /\ meas'[a] = meas[a]
    BY <1>1 DEF StartMeasurement
  <1>3. target'[n] = s
    BY <1>1
  <1>4. CASE meas[n].active
    BY <1>1, <1>2, <1>3, <1>4 DEF StartMeasurement, Aimed
  <1>5. CASE ~meas[n].active
    <2>1. meas'[n] = [active |-> TRUE, peer |-> q, sess |-> s,
                      mep4 |-> tab[q].mep4, answered |-> FALSE, value |-> 0]
      BY <1>1, <1>5 DEF StartMeasurement
    <2> QED
      BY <1>1, <1>2, <1>3, <2>1 DEF Aimed
  <1> QED
    BY <1>4, <1>5

\* session_observe_peer, on a table that does not list the board itself.
LEMMA ObserveAims ==
    ASSUME TypeOK, Aimed, NEW n \in Node, NEW tab, NEW s \in Node,
           ~tab[n].in_use, s = n => session[n] = n, Observe(n, tab, s)
    PROVE  /\ Aimed'
           /\ \A a \in Node : meas'[a].active /\ meas'[a].answered =>
                                  meas[a] = meas'[a]
  <1>1. CASE UNCHANGED <<target, meas>>
    BY <1>1 DEF Aimed
  <1>2. CASE ~UNCHANGED <<target, meas>>
    <2>1. PICK q \in Founders(tab, s) :
             target' = [target EXCEPT ![n] = s] /\ StartMeasurement(n, tab, q, s)
      BY <1>2 DEF Observe
    <2>2. s # n
      BY <1>2 DEF Observe, KnownSession
    <2> QED
      BY <2>1, <2>2, FounderIsOther, StartAims
  <1> QED
    BY <1>1, <1>2

\* Steps that move no clock and no session.
LEMMA QuietStep ==
    ASSUME NEW p, NEW w \in Node, NEW l \in Node, DuelInv(p, w, l),
           UNCHANGED <<phase, session, intercept, drifts>>,
           Told(w, l)', Aimed',
           \A a \in Node : meas'[a].active /\ meas'[a].answered =>
                               meas[a] = meas'[a]
    PROVE  DuelInv(p, w, l)'
  <1>1. Apart(p, w, l)' /\ Placed(w, l)'
    BY DEF DuelInv, Apart, Placed, G
  <1>2. Timed(p, w, l)'
    <2>1. Timed(p, w, l)
      BY DEF DuelInv
    <2>2. meas'[l].active /\ meas'[l].answered => meas[l] = meas'[l]
      OBVIOUS
    <2>3. meas'[w].active /\ meas'[w].answered => meas[w] = meas'[w]
      OBVIOUS
    <2> QED
      BY <2>1, <2>2, <2>3 DEF Timed
  <1> QED
    BY <1>1, <1>2 DEF DuelInv

\* Every step of every board keeps the duel.
LEMMA DuelStep ==
    ASSUME TwoBoards, NEW p, NEW w \in Node, NEW l \in Node, Duel(p, w, l),
           IInv, DuelInv(p, w, l), [Next]_vars
    PROVE  DuelInv(p, w, l)'
  <1>t. /\ phase \in [Node -> Int]
        /\ session \in [Node -> Node] /\ intercept \in [Node -> Int]
        /\ peers \in [Node -> [Node -> PeerRec]]
        /\ target \in [Node -> Node \cup {NoSession}]
        /\ meas \in [Node -> MeasRec] /\ chan \in [Node -> [Node -> MsgRec]]
        /\ edits \in Nat /\ drifts \in Nat
    BY TypeParts DEF IInv
  <1>d. w # l /\ Node = {w, l}
    BY DEF Duel
  <1>i. /\ Apart(p, w, l) /\ Placed(w, l) /\ Told(w, l) /\ Aimed
        /\ Timed(p, w, l) /\ TypeOK /\ Named
    BY DEF DuelInv, IInv
  <1>a. /\ p[w] \in Int /\ p[l] \in Int /\ Jitter \subseteq Int /\ MaxEvents \in Nat
    BY SessionAssumption DEF Duel
  <1>1. CASE UNCHANGED vars
    BY <1>1, <1>i, QuietStep DEF vars, Told, Aimed
  <1>2. ASSUME NEW n \in Node, Announce(n) PROVE DuelInv(p, w, l)'
    <2>1. chan'[w][l] = chan[w][l] \/ chan'[w][l].sess = w
      BY <1>2, <1>t, <1>d, <1>i DEF Announce, Snapshot, Placed
    <2> QED
      BY <1>2, <1>i, <2>1, QuietStep DEF Announce, Told, Aimed
  <1>3. ASSUME NEW n \in Node, NEW m \in Node, Lose(m, n) PROVE DuelInv(p, w, l)'
    <2>1. chan'[w][l] = chan[w][l] \/ chan'[w][l].kind = "none"
      BY <1>3, <1>t DEF Lose, NoMsg
    <2> QED
      BY <1>3, <1>i, <2>1, QuietStep DEF Lose, Told, Aimed
  <1>4. ASSUME NEW n \in Node, NEW m \in Node \ {n}, Receive(m, n)
        PROVE  DuelInv(p, w, l)'
    <2> DEFINE msg == chan[m][n]
               tab == [peers[n] EXCEPT ![m] = Heard(n, m, msg)]
    <2>1. msg.sess \in Node /\ msg.kind # "none"
      BY <1>4, <1>i DEF Receive, Named
    <2>2. tab[n] = peers[n][n] /\ tab[m] = Heard(n, m, msg)
      BY <1>t
    <2>3. peers' = [peers EXCEPT ![n] = tab] /\ Observe(n, tab, msg.sess)
      BY <1>4 DEF Receive
    <2>4. (n = l => msg.sess = w) /\ (msg.sess = n => session[n] = n)
      BY <1>d, <1>i, <2>1 DEF Told, Placed
    <2>5. tab[m].sess = msg.sess
      BY <2>2 DEF Heard
    <2>6. chan'[w][l] = chan[w][l] \/ chan'[w][l].kind = "none" \/ chan'[w][l].sess = w
      BY <1>4, <1>t, <1>d, <1>i DEF Receive, NoMsg, Snapshot, Placed
    <2>7. peers'[n] = tab /\ \A a \in Node \ {n} : peers'[a] = peers[a]
      BY <1>t, <2>3
    <2> HIDE DEF tab, msg
    <2>8. Told(w, l)'
      BY <1>d, <1>i, <2>2, <2>4, <2>5, <2>6, <2>7 DEF Told
    <2>9. /\ Aimed'
          /\ \A a \in Node : meas'[a].active /\ meas'[a].answered =>
                                 meas[a] = meas'[a]
      BY <1>i, <2>1, <2>2, <2>3, <2>4, ObserveAims DEF Told
    <2> QED
      BY <1>4, <2>8, <2>9, QuietStep DEF Receive
  <1>5. ASSUME NEW n \in Node, NEW m \in Node, Expire(n, m)
        PROVE  DuelInv(p, w, l)'
    <2>1. \A a, b \in Node : peers'[a][b] = peers[a][b] \/ ~peers'[a][b].in_use
      BY <1>5, <1>t DEF Expire, Unknown
    <2>2. Told(w, l)'
      BY <1>5, <1>i, <2>1 DEF Told, Expire
    <2> QED
      BY <1>5, <1>i, <2>2, QuietStep DEF Expire, Aimed
  <1>6. ASSUME NEW n \in Node, MeasureOk(n) PROVE DuelInv(p, w, l)'
    <2> DEFINE x == meas[n].value
    <2>1. meas[n].active /\ meas[n].answered /\ x \in Int
      BY <1>6, <1>t DEF MeasureOk, MeasRec
    <2>2. meas' = [meas EXCEPT ![n] = Idle(n)]
      BY <1>6 DEF MeasureOk
    <2>3. /\ ~meas'[n].active
          /\ \A a \in Node : meas'[a].active => meas'[a] = meas[a]
      BY <1>t, <2>2 DEF Idle
    <2>4. Aimed'
      BY <1>6, <1>i, <2>3 DEF Aimed, MeasureOk
    <2>5. Told(w, l)'
      <3>1. peers' = [peers EXCEPT ![n] = Marked(n)]
        BY <1>6 DEF MeasureOk, OnMeasureDone
      <3>2. \A b \in Node : /\ Marked(n)[b].in_use = peers[n][b].in_use
                            /\ Marked(n)[b].sess = peers[n][b].sess
        BY <1>t DEF Marked, PeerRec
      <3>3. \A a, b \in Node : /\ peers'[a][b].in_use = peers[a][b].in_use
                               /\ peers'[a][b].sess = peers[a][b].sess
        BY <1>t, <3>1, <3>2
      <3> QED
        BY <1>6, <1>i, <3>3 DEF Told, MeasureOk
    <2>6. CASE UNCHANGED <<session, intercept, tl>>
      BY <1>6, <2>3, <2>4, <2>5, <2>6, QuietStep DEF MeasureOk
    <2>7. CASE Better(n, x) /\ Join(n, x)
      <3>1. n = l
        BY <1>d, <2>1, <2>7, WinnerStays
      <3>2. target[l] = w
        BY <1>d, <1>i, <2>1, <3>1 DEF Aimed, Named
      <3>3. /\ session'[l] = w /\ intercept'[l] = x
            /\ session'[w] = w /\ intercept'[w] = 0
        BY <1>d, <1>i, <1>t, <2>7, <3>1, <3>2 DEF Join, Placed
      <3>4. PICK e \in Jitter : Abs(x - (phase[w] - phase[l]) - e) <= drifts
        BY <1>i, <2>1, <3>1 DEF Timed
      <3>5. UNCHANGED <<phase, drifts>>
        BY <1>6 DEF MeasureOk
      <3>6. Abs(G(l)' - phase'[w] - e) <= drifts'
        <4>1. G(l)' - phase'[w] - e = x - (phase[w] - phase[l]) - e
          BY <1>t, <1>a, <2>1, <3>3, <3>5 DEF G
        <4> QED
          BY <3>4, <3>5, <4>1
      <3>7. Placed(w, l)'
        BY <1>d, <3>3, <3>6 DEF Placed
      <3>8. Apart(p, w, l)' /\ Timed(p, w, l)'
        BY <1>i, <2>3, <3>5 DEF Apart, Timed
      <3> QED
        BY <2>4, <2>5, <3>7, <3>8 DEF DuelInv
    <2> QED
      BY <1>6, <2>6, <2>7 DEF MeasureOk, OnMeasureDone
  <1>7. ASSUME NEW n \in Node, MeasureFail(n) PROVE DuelInv(p, w, l)'
    <2>1. \A a \in Node : meas'[a].active => meas'[a] = meas[a]
      BY <1>7, <1>t DEF MeasureFail, Idle
    <2> QED
      BY <1>7, <1>i, <2>1, QuietStep DEF MeasureFail, Told, Aimed
  <1>8. ASSUME NEW n \in Node, Remeasure(n) PROVE DuelInv(p, w, l)'
    <2>1. PICK q \in Founders(peers[n], session[n]) :
             /\ target' = [target EXCEPT ![n] = session[n]]
             /\ StartMeasurement(n, peers[n], q, session[n])
      BY <1>8 DEF Remeasure
    <2>2. q \in Node \ {n} /\ session[n] \in Node \ {n}
      BY <1>8, <1>i, <1>t, FounderIsOther DEF Remeasure, Told
    <2>3. /\ Aimed'
          /\ \A a \in Node : meas'[a].active /\ meas'[a].answered =>
                                 meas[a] = meas'[a]
      BY <1>i, <2>1, <2>2, StartAims
    <2> QED
      BY <1>8, <1>i, <2>3, QuietStep DEF Remeasure, Told
  <1>9. ASSUME NEW n \in Node, Edit(n) PROVE DuelInv(p, w, l)'
    BY <1>9, <1>i, QuietStep DEF Edit, Told, Aimed
  <1>10. ASSUME NEW n \in Node, GetAddress(n) PROVE DuelInv(p, w, l)'
    BY <1>10, <1>i, QuietStep DEF GetAddress, Told, Aimed
  <1>11. ASSUME NEW n \in Node, Drift(n) PROVE DuelInv(p, w, l)'
    <2>1. UNCHANGED <<session, intercept, peers, target, meas, chan>>
      BY <1>11 DEF Drift
    <2>2. Told(w, l)' /\ Aimed'
      BY <1>i, <2>1 DEF Told, Aimed
    <2>3. PICK d \in {-1, 1} : phase' = [phase EXCEPT ![n] = @ + d]
      BY <1>11 DEF Drift
    <2>4. drifts' = drifts + 1 /\ drifts < MaxEvents
      BY <1>11, <1>t, <1>a DEF Drift
    <2>5. PICK c \in {-1, 1} : phase'[w] - phase'[l] = phase[w] - phase[l] + c
      BY <1>d, <1>t, <2>3
    <2>6. phase'[w] \in Int /\ phase'[l] \in Int
      BY <1>t, <2>3
    <2>7. ASSUME NEW y \in Int, NEW z \in Int, Abs(y) <= drifts,
                 z - y \in {-1, 0, 1}
          PROVE  Abs(z) <= drifts'
      BY <1>t, <2>4, <2>7 DEF Abs
    <2>8. Apart(p, w, l)'
      <3> DEFINE y == (phase[w] - phase[l]) - (p[w] - p[l])
                 z == (phase'[w] - phase'[l]) - (p[w] - p[l])
      <3>1. y \in Int /\ z \in Int /\ Abs(y) <= drifts /\ z - y \in {-1, 0, 1}
        BY <1>t, <1>a, <1>i, <2>5, <2>6 DEF Apart
      <3>2. Abs(z) <= drifts'
        <4> HIDE DEF y, z
        <4> QED BY <2>7, <3>1
      <3> QED
        BY <1>t, <1>a, <2>4, <3>2 DEF Apart
    <2>9. Placed(w, l)'
      <3>1. CASE session[l] = w
        <4>1. PICK e \in Jitter : Abs(G(l) - phase[w] - e) <= drifts
          BY <1>i, <3>1 DEF Placed
        <4> DEFINE y == G(l) - phase[w] - e
                   z == G(l)' - phase'[w] - e
        <4> HIDE DEF y, z
        <4>2. y \in Int /\ z \in Int /\ Abs(y) <= drifts /\ z - y \in {-1, 0, 1}
          <5>1. intercept[l] \in Int /\ e \in Int /\ phase[w] \in Int /\ phase[l] \in Int
            BY <1>t, <1>a
          <5>2. y = phase[l] + intercept[l] - phase[w] - e
            BY <5>1 DEF y, G
          <5>3. z = phase'[l] + intercept[l] - phase'[w] - e
            BY <2>1, <2>6, <5>1 DEF z, G
          <5>4. Abs(y) <= drifts
            BY <4>1 DEF y
          <5> QED
            BY <2>5, <2>6, <5>1, <5>2, <5>3, <5>4
        <4>3. Abs(z) <= drifts'
          BY <2>7, <4>2
        <4> QED
          BY <1>d, <1>i, <2>1, <3>1, <4>3 DEF Placed, z
      <3>2. CASE session[l] # w
        BY <1>i, <2>1, <3>2 DEF Placed
      <3> QED
        BY <3>1, <3>2
    <2>10. ASSUME meas[l].active, meas[l].answered
           PROVE  \E e \in Jitter :
                     Abs(meas'[l].value - (phase'[w] - phase'[l]) - e) <= drifts'
      <3>1. PICK e \in Jitter :
               Abs(meas[l].value - (phase[w] - phase[l]) - e) <= drifts
        BY <1>i, <2>10 DEF Timed
      <3> DEFINE y == meas[l].value - (phase[w] - phase[l]) - e
                 z == meas'[l].value - (phase'[w] - phase'[l]) - e
      <3>2. meas[l].value \in Int /\ meas'[l].value = meas[l].value
        BY <1>t, <2>1 DEF MeasRec
      <3>3. y \in Int /\ z \in Int /\ Abs(y) <= drifts /\ z - y \in {-1, 0, 1}
        BY <1>t, <1>a, <2>5, <2>6, <3>1, <3>2
      <3>4. Abs(z) <= drifts'
        <4> HIDE DEF y, z
        <4> QED BY <2>7, <3>3
      <3> QED
        BY <3>4
    <2>11. ASSUME meas[w].active, meas[w].answered
           PROVE  \E e \in Jitter :
                     Abs(meas'[w].value - (p[l] - p[w]) - e) <= drifts'
      <3>1. PICK e \in Jitter : Abs(meas[w].value - (p[l] - p[w]) - e) <= drifts
        BY <1>i, <2>11 DEF Timed
      <3> DEFINE y == meas[w].value - (p[l] - p[w]) - e
      <3>2. meas[w].value \in Int /\ meas'[w].value = meas[w].value
        BY <1>t, <2>1 DEF MeasRec
      <3>3. y \in Int /\ Abs(y) <= drifts /\ y - y \in {-1, 0, 1}
        BY <1>t, <1>a, <3>1, <3>2
      <3>4. Abs(y) <= drifts'
        <4> HIDE DEF y
        <4> QED BY <2>7, <3>3
      <3> QED
        BY <3>2, <3>4
    <2>12. Timed(p, w, l)'
      BY <2>1, <2>10, <2>11 DEF Timed
    <2> QED
      BY <2>2, <2>8, <2>9, <2>12 DEF DuelInv
  <1>12. ASSUME NEW n \in Node, LastPong(n) PROVE DuelInv(p, w, l)'
    <2>1. PICK e \in Jitter :
             meas' = [meas EXCEPT ![n] =
                [@ EXCEPT !.answered = TRUE,
                          !.value = G(meas[n].peer) - phase[n] + e]]
      BY <1>12 DEF LastPong
    <2>2. /\ UNCHANGED <<phase, session, intercept, peers, target, chan, drifts>>
          /\ meas[n].active /\ session[meas[n].peer] = meas[n].sess
      BY <1>12 DEF LastPong
    <2>3. /\ meas'[n].active = meas[n].active /\ meas'[n].peer = meas[n].peer
          /\ meas'[n].sess = meas[n].sess
          /\ meas'[n].value = G(meas[n].peer) - phase[n] + e
          /\ \A a \in Node \ {n} : meas'[a] = meas[a]
      BY <1>t, <2>1 DEF MeasRec
    <2>4. Apart(p, w, l)' /\ Placed(w, l)' /\ Told(w, l)' /\ Aimed'
      BY <1>i, <2>2, <2>3 DEF Apart, Placed, Told, Aimed, G
    <2>5. meas[n].peer \in Node
      BY <1>t DEF MeasRec
    <2>6. CASE n = l
      <3>1. meas[l].peer = w
        BY <1>d, <1>i, <2>2, <2>5, <2>6 DEF Aimed
      <3>2. meas'[l].value = phase[w] - phase[l] + e
        BY <1>t, <1>a, <1>i, <2>3, <2>6, <3>1 DEF G, Placed
      <3>3. meas'[l].value - (phase'[w] - phase'[l]) - e = 0
        BY <1>t, <1>a, <2>2, <3>2
      <3>4. Abs(0) <= drifts'
        BY <1>t, <2>2 DEF Abs
      <3>5. meas'[w] = meas[w]
        BY <1>d, <2>3, <2>6
      <3>6. Timed(p, w, l)'
        BY <1>i, <2>2, <3>3, <3>4, <3>5 DEF Timed
      <3> QED
        BY <2>4, <3>6 DEF DuelInv
    <2>7. CASE n = w
      <3>1. meas[w].peer = l /\ session[l] = l
        BY <1>d, <1>i, <2>2, <2>5, <2>7 DEF Aimed
      <3>2. meas'[w].value = phase[l] - phase[w] + e
        BY <1>t, <1>a, <1>i, <2>3, <2>7, <3>1 DEF G, Placed
      <3>3. Abs(meas'[w].value - (p[l] - p[w]) - e) <= drifts'
        BY <1>t, <1>a, <1>i, <2>2, <3>2 DEF Apart, Abs
      <3>4. meas'[l] = meas[l]
        BY <1>d, <2>3, <2>7
      <3>5. Timed(p, w, l)'
        BY <1>i, <2>2, <3>3, <3>4 DEF Timed
      <3> QED
        BY <2>4, <3>5 DEF DuelInv
    <2> QED
      BY <1>d, <2>6, <2>7
  <1> QED
    BY <1>1, <1>2, <1>3, <1>4, <1>5, <1>6, <1>7, <1>8, <1>9, <1>10, <1>11,
       <1>12 DEF Next

\* The duel that the boards are in.
DuelOn ==
    \E p \in InitPhase : \E w, l \in Node : Duel(p, w, l) /\ DuelInv(p, w, l)

\* link_init: everybody is alone.
LEMMA DuelInit ==
    ASSUME TwoBoards, Init
    PROVE  DuelOn
  <1>1. PICK w, l \in Node : Duel(phase, w, l)
    BY OneWins DEF Init
  <1>2. /\ phase \in InitPhase /\ phase[w] \in Int /\ phase[l] \in Int
        /\ drifts = 0 /\ MaxEvents \in Nat
    BY SessionAssumption DEF Init
  <1>3. Apart(phase, w, l)
    BY <1>2 DEF Apart, Abs
  <1>4. Placed(w, l)
    BY <1>1 DEF Init, Placed, Duel
  <1>5. Told(w, l)
    BY DEF Init, Told, Unknown, NoMsg
  <1>6. \A n \in Node : ~meas[n].active
    BY DEF Init, Idle
  <1>7. DuelInv(phase, w, l)
    BY <1>3, <1>4, <1>5, <1>6 DEF DuelInv, Aimed, Timed
  <1> QED
    BY <1>1, <1>2, <1>7 DEF DuelOn

\* Every reachable state of two boards is a state of their duel.
LEMMA DuelInvariant ==
    ASSUME TwoBoards
    PROVE  Spec => [](IInv /\ DuelOn)
  <1>1. Init => DuelOn
    BY DuelInit
  <1>2. IInv /\ DuelOn /\ [Next]_vars => DuelOn'
    BY DuelStep DEF DuelOn
  <1> QED
    BY <1>1, <1>2, InductiveInvariant, PTL DEF Spec

\* With two boards whose clocks are not within a measurement error and the
\* drift of EPS, a board is always on the clock of its session's founder
\* (session.c:109-110), however datagrams are lost and measurements overlap.
THEOREM BoardsKeepTheClock == TwoBoards => (Spec => []OnSessionClock)
  <1> SUFFICES ASSUME TwoBoards PROVE Spec => []OnSessionClock
    OBVIOUS
  <1>1. ASSUME IInv, DuelOn PROVE OnSessionClock
    <2>1. PICK p \in InitPhase, w \in Node, l \in Node :
             Duel(p, w, l) /\ DuelInv(p, w, l)
      BY <1>1 DEF DuelOn
    <2>2. /\ phase \in [Node -> Int] /\ intercept \in [Node -> Int]
          /\ session \in [Node -> Node] /\ drifts \in Nat
      BY <1>1 DEF IInv, TypeOK
    <2>3. Node = {w, l} /\ Placed(w, l)
      BY <2>1 DEF Duel, DuelInv
    <2>4. ASSUME NEW n \in Node, session[n] = n, intercept[n] = 0
          PROVE  Abs(G(n) - phase[session[n]] - 0) <= drifts
      BY <2>2, <2>4 DEF G, Abs
    <2>5. \E e \in Jitter \cup {0} : Abs(G(w) - phase[session[w]] - e) <= drifts
      BY <2>3, <2>4 DEF Placed
    <2>6. \E e \in Jitter \cup {0} : Abs(G(l) - phase[session[l]] - e) <= drifts
      BY <2>2, <2>3, <2>4 DEF Placed
    <2> QED
      BY <2>3, <2>5, <2>6 DEF OnSessionClock
  <1> QED
    BY <1>1, DuelInvariant, PTL

\* Under the same conditions two boards that measure each other at the same
\* time never trade places (session.c:88-95): one of them never moves.
THEOREM NobodySwaps == TwoBoards => (Spec => []NoSwap)
  <1> SUFFICES ASSUME TwoBoards PROVE Spec => []NoSwap
    OBVIOUS
  <1>1. DuelOn => NoSwap
    BY DEF DuelOn, Duel, DuelInv, Placed, NoSwap
  <1> QED
    BY <1>1, DuelInvariant, PTL
=============================================================================
