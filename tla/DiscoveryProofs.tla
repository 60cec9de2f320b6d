-------------------------- MODULE DiscoveryProofs --------------------------
(***************************************************************************)
(* What module Discovery promises, for every table size, every set of      *)
(* remote nodes and all periods that satisfy PeriodAssumption.             *)
(***************************************************************************)
EXTENDS Discovery, WellFoundedInduction, TLAPS

\* A non-empty set of slots has a lowest member, and First returns it.
LEMMA FirstInSet ==
    ASSUME NEW S \in SUBSET Slot, S # {}
    PROVE  First(S) \in S
<1> DEFINE R == {ss \in Nat \X Nat : ss[1] < ss[2]}
<1>1. S \subseteq Nat
  BY PeriodAssumption DEF Slot
<1>2. IsWellFoundedOn(R, Nat)
  BY NatLessThanWellFounded DEF OpToRel
<1>3. PICK x \in S : \A y \in S : ~(<<y, x>> \in R)
  <2> HIDE DEF R
  <2> QED
    BY <1>1, <1>2, WFMin
<1>4. ASSUME NEW y \in S PROVE x <= y
  <2>1. x \in Nat /\ y \in Nat
    BY <1>1
  <2>2. y < x => <<y, x>> \in R
    BY <2>1
  <2>3. ~(y < x)
    BY <1>3, <2>2
  <2> QED
    BY <2>1, <2>3
<1> QED
  BY <1>4 DEF First

\* find_or_alloc_peer returns the node's slot, or a free slot when the node
\* has none, or 0.
LEMMA FindOrAllocCases ==
    ASSUME NEW id, FindOrAlloc(id) # 0
    PROVE  /\ FindOrAlloc(id) \in Slot
           /\ \/ FindOrAlloc(id) \in SlotsOf(id)
              \/ FindOrAlloc(id) \in FreeSlots /\ SlotsOf(id) = {}
<1>1. SlotsOf(id) \in SUBSET Slot /\ FreeSlots \in SUBSET Slot
  BY DEF SlotsOf, FreeSlots
<1>2. CASE SlotsOf(id) # {}
  BY <1>1, <1>2, FirstInSet DEF FindOrAlloc
<1>3. CASE SlotsOf(id) = {} /\ FreeSlots # {}
  BY <1>1, <1>3, FirstInSet DEF FindOrAlloc
<1>4. CASE SlotsOf(id) = {} /\ FreeSlots = {}
  BY <1>4 DEF FindOrAlloc
<1> QED
  BY <1>2, <1>3, <1>4

\* The inductive invariant: a message refreshes the one slot that its
\* sender holds, so ExpiryFollowsHeard needs UniqueIds, and both need the
\* types.
IInv == TypeOK /\ UniqueIds /\ ExpiryFollowsHeard /\ ScheduleSound

\* link_init establishes the invariant.
LEMMA InitIInv == Init => IInv
<1> SUFFICES ASSUME Init PROVE IInv
  OBVIOUS
<1>1. TypeOK
  BY PeriodAssumption DEF Init, TypeOK, PeerRec, Free
<1>2. UniqueIds /\ ExpiryFollowsHeard
  BY DEF Init, UniqueIds, ExpiryFollowsHeard, Free
<1>3. ScheduleSound
  BY DEF Init, ScheduleSound
<1> QED
  BY <1>1, <1>2, <1>3 DEF IInv

\* Freeing any set of slots keeps the table's part of the invariant.
LEMMA FreeingKeeps ==
    ASSUME IInv, heard' = heard,
           NEW G \in SUBSET Slot,
           peers' = [i \in Slot |-> IF i \in G THEN Free ELSE peers[i]]
    PROVE  peers' \in [Slot -> PeerRec] /\ UniqueIds' /\ ExpiryFollowsHeard'
<1>1. peers' \in [Slot -> PeerRec]
  BY DEF IInv, TypeOK, Free, PeerRec
<1>2. \A i \in Slot : peers'[i].in_use => i \notin G /\ peers'[i] = peers[i]
  BY DEF Free
<1>3. UniqueIds'
  BY <1>2 DEF IInv, UniqueIds
<1>4. ExpiryFollowsHeard'
  BY <1>2 DEF IInv, ExpiryFollowsHeard
<1> QED
  BY <1>1, <1>3, <1>4

\* An ALIVE or RESPONSE preserves it: the slot that is found is the only one
\* of the sender, or a free one.
LEMMA RxStateIInv ==
    ASSUME IInv, NEW m \in Msg, RxState(m)
    PROVE  IInv'
<1> DEFINE k == FindOrAlloc(m.id)
<1>1. m.id \in Remote /\ k # 0 /\ m.mtype \in {"ALIVE", "RESPONSE"}
  BY DEF RxState, Dropped, Msg, AllMsg
<1>2. /\ k \in Slot
      /\ k \in SlotsOf(m.id) \/ (k \in FreeSlots /\ SlotsOf(m.id) = {})
  BY <1>1, FindOrAllocCases
<1>3. peers' = [peers EXCEPT ![k] = Refreshed(m)]
  BY DEF RxState
<1>4. /\ peers'[k] = Refreshed(m)
      /\ \A i \in Slot \ {k} : peers'[i] = peers[i]
  BY <1>2, <1>3 DEF IInv, TypeOK
<1>5. TypeOK'
  <2>1. Refreshed(m) \in PeerRec
    BY <1>1, PeriodAssumption DEF Refreshed, PeerRec, IInv, TypeOK
  <2>2. peers' \in [Slot -> PeerRec]
    BY <2>1, <1>2, <1>3 DEF IInv, TypeOK
  <2> QED
    BY <2>2, <1>1 DEF IInv, TypeOK, RxState
<1>6. \A i \in Slot \ {k} : peers[i].in_use => peers[i].node_id # m.id
  BY <1>2 DEF SlotsOf, FreeSlots, IInv, UniqueIds
<1>7. UniqueIds'
  <2> SUFFICES ASSUME NEW i \in Slot, NEW j \in Slot,
                      peers'[i].in_use, peers'[j].in_use,
                      peers'[i].node_id = peers'[j].node_id
               PROVE  i = j
    BY DEF UniqueIds
  <2>1. CASE i = k \/ j = k
    BY <2>1, <1>4, <1>6 DEF Refreshed
  <2>2. CASE i # k /\ j # k
    BY <2>2, <1>4 DEF IInv, UniqueIds
  <2> QED
    BY <2>1, <2>2
<1>8. ExpiryFollowsHeard'
  <2> SUFFICES ASSUME NEW i \in Slot, peers'[i].in_use
               PROVE  /\ peers'[i].node_id \in Remote
                      /\ peers'[i].expires_at = heard'[peers'[i].node_id] + TTL
    BY DEF ExpiryFollowsHeard
  <2>1. heard' = [heard EXCEPT ![m.id] = now]
    BY DEF RxState
  <2>2. CASE i = k
    BY <2>1, <2>2, <1>1, <1>4 DEF Refreshed, IInv, TypeOK
  <2>3. CASE i # k
    BY <2>1, <2>3, <1>4, <1>6 DEF IInv, TypeOK, ExpiryFollowsHeard
  <2> QED
    BY <2>2, <2>3
<1>9. ScheduleSound'
  BY DEF RxState, IInv, ScheduleSound
<1> QED
  BY <1>5, <1>7, <1>8, <1>9 DEF IInv

\* A BYEBYE preserves it.
LEMMA RxByebyeIInv ==
    ASSUME IInv, NEW m \in Msg, RxByebye(m)
    PROVE  IInv'
<1> DEFINE G == {i \in Slot : SlotsOf(m.id) # {} /\ i = First(SlotsOf(m.id))}
<1>1. peers' = [i \in Slot |-> IF i \in G THEN Free ELSE peers[i]]
  BY DEF RxByebye
<1>2. G \in SUBSET Slot /\ heard' = heard
  BY DEF RxByebye
<1>3. peers' \in [Slot -> PeerRec] /\ UniqueIds' /\ ExpiryFollowsHeard'
  <2> HIDE DEF G
  <2> QED
    BY <1>1, <1>2, FreeingKeeps
<1>4. TypeOK'
  BY <1>3 DEF IInv, TypeOK, RxByebye
<1>5. ScheduleSound'
  BY DEF RxByebye, IInv, ScheduleSound
<1> QED
  BY <1>3, <1>4, <1>5 DEF IInv

\* link_tick preserves it, in each branch of the schedule, prune included.
LEMMA LinkTickIInv ==
    ASSUME IInv, LinkTick
    PROVE  IInv'
<1> DEFINE G == {i \in Slot : Expired(peers[i])}
<1>1. peers' = [i \in Slot |-> IF i \in G THEN Free ELSE peers[i]]
  BY DEF LinkTick, Prune
<1>2. G \in SUBSET Slot /\ heard' = heard
  BY DEF LinkTick
<1>3. peers' \in [Slot -> PeerRec] /\ UniqueIds' /\ ExpiryFollowsHeard'
  <2> HIDE DEF G
  <2> QED
    BY <1>1, <1>2, FreeingKeeps
<1>4. /\ now' = now /\ now \in Nat /\ last_bcast \in Nat
      /\ next_bcast \in Nat /\ dirty \in BOOLEAN
      /\ Bcast \in Nat /\ MinGap \in Nat /\ MinGap <= Bcast
  BY PeriodAssumption DEF IInv, TypeOK, LinkTick
<1>5. CASE BroadcastDue /\ PastGap /\ SendAlive
  <2>1. TypeOK'
    <3>1. now + Bcast \in Nat
      BY <1>4
    <3>2. last_bcast' \in Nat /\ next_bcast' \in Nat /\ now' \in Nat
      BY <1>4, <1>5, <3>1 DEF SendAlive
    <3>3. dirty' \in BOOLEAN /\ tx' \in {"none", "ALIVE", "RESPONSE"}
      BY <1>5, Zenon DEF SendAlive
    <3> QED
      BY <1>2, <1>3, <3>2, <3>3, Zenon DEF IInv, TypeOK
  <2>2. ScheduleSound'
    BY <1>4, <1>5 DEF SendAlive, ScheduleSound
  <2> QED
    BY <1>3, <2>1, <2>2 DEF IInv
<1>6. CASE BroadcastDue /\ ~PastGap /\ Throttle
  <2>1. TypeOK'
    BY <1>2, <1>3, <1>4, <1>6 DEF IInv, TypeOK, Throttle
  <2>2. dirty
    BY <1>4, <1>6 DEF BroadcastDue, PastGap, IInv, ScheduleSound
  <2>3. ScheduleSound'
    BY <1>4, <1>6, <2>2 DEF Throttle, IInv, ScheduleSound
  <2> QED
    BY <1>3, <2>1, <2>3 DEF IInv
<1>7. CASE /\ ~BroadcastDue
           /\ tx' = "none"
           /\ UNCHANGED <<last_bcast, next_bcast, dirty>>
  <2>1. TypeOK'
    BY <1>2, <1>3, <1>4, <1>7 DEF IInv, TypeOK
  <2>2. ScheduleSound'
    BY <1>4, <1>7 DEF IInv, ScheduleSound
  <2> QED
    BY <1>3, <2>1, <2>2 DEF IInv
<1> QED
  BY <1>5, <1>6, <1>7 DEF LinkTick

\* Every step preserves the invariant.
LEMMA NextIInv == IInv /\ [Next]_vars => IInv'
<1> SUFFICES ASSUME IInv, [Next]_vars PROVE IInv'
  OBVIOUS
<1>1. CASE LinkHandleRx
  <2>1. PICK m \in Msg : RxDrop(m) \/ RxByebye(m) \/ RxState(m)
    BY <1>1 DEF LinkHandleRx
  <2>2. CASE RxDrop(m)
    BY <2>2 DEF RxDrop, IInv, TypeOK, UniqueIds, ExpiryFollowsHeard,
                ScheduleSound
  <2> QED
    BY <2>1, <2>2, RxByebyeIInv, RxStateIInv
<1>2. CASE LinkTick
  BY <1>2, LinkTickIInv
<1>3. CASE BroadcastAliveNow
  <2>1. TypeOK'
    BY <1>3 DEF BroadcastAliveNow, IInv, TypeOK
  <2>2. UniqueIds' /\ ExpiryFollowsHeard'
    BY <1>3 DEF BroadcastAliveNow, IInv, UniqueIds, ExpiryFollowsHeard
  <2>3. ScheduleSound'
    BY <1>3 DEF BroadcastAliveNow, IInv, TypeOK, ScheduleSound
  <2> QED
    BY <2>1, <2>2, <2>3 DEF IInv
<1>4. CASE Clock
  <2>1. TypeOK'
    BY <1>4 DEF Clock, IInv, TypeOK
  <2>2. UniqueIds' /\ ExpiryFollowsHeard'
    BY <1>4 DEF Clock, IInv, UniqueIds, ExpiryFollowsHeard
  <2>3. ScheduleSound'
    BY <1>4, PeriodAssumption DEF Clock, IInv, TypeOK, ScheduleSound
  <2> QED
    BY <2>1, <2>2, <2>3 DEF IInv
<1>5. CASE UNCHANGED vars
  BY <1>5 DEF vars, IInv, TypeOK, UniqueIds, ExpiryFollowsHeard,
              ScheduleSound
<1> QED
  BY <1>1, <1>2, <1>3, <1>4, <1>5 DEF Next

\* The invariant holds in every reachable state.
LEMMA Invariance == Spec => []IInv
BY InitIInv, NextIInv, PTL DEF Spec

---------------------------------------------------------------------------
\* Type correctness of the discovery state.
THEOREM TypeCorrect == Spec => []TypeOK
<1>1. IInv => TypeOK
  BY DEF IInv
<1> QED
  BY <1>1, Invariance, PTL

\* No node ever holds two slots of the peer table (find_or_alloc_peer,
\* evict_peer and the prune of link_tick together).
THEOREM NoDuplicatePeers == Spec => []UniqueIds
<1>1. IInv => UniqueIds
  BY DEF IInv
<1> QED
  BY <1>1, Invariance, PTL

\* The expiry that the prune reads is the last state message plus the TTL.
THEOREM ExpiryIsFresh == Spec => []ExpiryFollowsHeard
<1>1. IInv => ExpiryFollowsHeard
  BY DEF IInv
<1> QED
  BY <1>1, Invariance, PTL

\* The broadcast timers of link_tick: a clean board keeps the heartbeat and
\* a throttled change waits one minimum gap at most.
THEOREM ScheduleIsSound == Spec => []ScheduleSound
<1>1. IInv => ScheduleSound
  BY DEF IInv
<1> QED
  BY <1>1, Invariance, PTL

\* A peer that leaves the table said BYEBYE or has been silent for longer
\* than TTL plus grace.
THEOREM EvictionIsJustified == Spec => NoEarlyEviction
<1> DEFINE A == \A n \in Known \ Known' :
                    \/ \E m \in Msg : m.id = n /\ RxByebye(m)
                    \/ now > heard[n] + TTL + Grace
<1>1. IInv /\ [Next]_vars => [A]_vars
  <2> SUFFICES ASSUME IInv, Next, NEW n \in Known \ Known'
               PROVE  \/ \E m \in Msg : m.id = n /\ RxByebye(m)
                      \/ now > heard[n] + TTL + Grace
    OBVIOUS
  <2>1. PICK i \in Slot : peers[i].in_use /\ peers[i].node_id = n
    BY DEF Known
  <2>2. \A j \in Slot : ~(peers'[j].in_use /\ peers'[j].node_id = n)
    BY DEF Known
  <2>3. peers'[i] # peers[i]
    BY <2>1, <2>2
  <2>4. CASE LinkTick
    <3>1. Expired(peers[i])
      BY <2>3, <2>4 DEF LinkTick, Prune
    <3>2. /\ peers[i].expires_at = heard[n] + TTL
          /\ heard[n] \in Nat /\ TTL \in Nat /\ Grace \in Nat /\ now \in Nat
      BY <2>1, PeriodAssumption DEF IInv, TypeOK, ExpiryFollowsHeard
    <3> QED
      BY <3>1, <3>2 DEF Expired
  <2>5. ASSUME NEW m \in Msg, RxByebye(m) PROVE m.id = n
    <3>1. SlotsOf(m.id) # {} /\ i = First(SlotsOf(m.id))
      BY <2>3, <2>5 DEF RxByebye
    <3>2. i \in SlotsOf(m.id)
      BY <3>1, FirstInSet DEF SlotsOf
    <3> QED
      BY <2>1, <3>2 DEF SlotsOf
  <2>6. ASSUME NEW m \in Msg, RxState(m) PROVE FALSE
    <3> DEFINE k == FindOrAlloc(m.id)
    <3>1. k # 0 /\ m.mtype \in {"ALIVE", "RESPONSE"}
      BY <2>6 DEF RxState, Dropped
    <3>2. k \in SlotsOf(m.id) \/ k \in FreeSlots
      BY <3>1, FindOrAllocCases
    <3>3. peers' = [peers EXCEPT ![k] = Refreshed(m)]
      BY <2>6 DEF RxState
    <3>4. i = k
      BY <2>3, <3>3 DEF IInv, TypeOK
    <3>5. m.id = n
      BY <2>1, <3>2, <3>4 DEF SlotsOf, FreeSlots
    <3>6. peers'[i] = Refreshed(m)
      BY <3>3, <3>4 DEF IInv, TypeOK
    <3> QED
      BY <2>2, <3>5, <3>6 DEF Refreshed
  <2>7. CASE LinkHandleRx
    <3>1. PICK m \in Msg : RxDrop(m) \/ RxByebye(m) \/ RxState(m)
      BY <2>7 DEF LinkHandleRx
    <3>2. RxByebye(m)
      BY <3>1, <2>3, <2>6 DEF RxDrop
    <3> QED
      BY <3>2, <2>5
  <2>8. CASE BroadcastAliveNow \/ Clock
    BY <2>3, <2>8 DEF BroadcastAliveNow, Clock
  <2> QED
    BY <2>4, <2>7, <2>8 DEF Next
<1> QED
  BY <1>1, Invariance, PTL DEF Spec, NoEarlyEviction

=============================================================================
