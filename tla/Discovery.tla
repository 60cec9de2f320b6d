----------------------------- MODULE Discovery -----------------------------
(***************************************************************************)
(* The discovery half of one board (firmware/link.c): the flat peer table, *)
(* the ALIVE schedule with its throttle, the receive handler and the tick  *)
(* that broadcasts and prunes.  The environment is every other Link node   *)
(* on the LAN: any datagram of Msg may arrive at any time, so loss,        *)
(* duplication and reordering are all included.                            *)
(*                                                                         *)
(* Host time is the variable now, in an arbitrary unit; the periods of     *)
(* config.h are constants in the same unit.  The TLV payload of a message  *)
(* is not kept here: no decision of link.c reads it (module Session models *)
(* what session.c does with it).                                           *)
(***************************************************************************)
EXTENDS Integers

CONSTANTS
    Self,         \* link_self_id
    Remote,       \* NodeIds of the other nodes that may be heard
    NoId,         \* the all-zero id that memset leaves in a free slot
    MaxPeers,     \* LINK_MAX_PEERS
    TTL,          \* LINK_DISCOVERY_TTL_SEC
    Grace,        \* LINK_DISCOVERY_PRUNE_GRACE_MS
    Bcast,        \* LINK_DISCOVERY_BCAST_MS
    MinGap,       \* LINK_DISCOVERY_MIN_MS
    Heard,        \* the datagrams that may arrive, of AllMsg
    MaxNow        \* bound on the clock

ASSUME PeriodAssumption ==
    /\ MaxPeers \in Nat \ {0}
    /\ TTL \in Nat /\ Grace \in Nat
    /\ MinGap \in Nat \ {0} /\ Bcast \in Nat /\ MinGap <= Bcast
    /\ MaxNow \in Nat

ASSUME IdAssumption == Self \notin Remote /\ NoId \notin Remote \cup {Self}

VARIABLES
    now,          \* host_time_us()
    peers,        \* link_peers
    last_bcast,   \* s_last_bcast_us
    next_bcast,   \* s_next_bcast_us
    dirty,        \* s_state_dirty
    tx,           \* the datagram the last step sent, "none" if it sent none
    heard         \* history: when a state message of the node last arrived

vars == <<now, peers, last_bcast, next_bcast, dirty, tx, heard>>

Slot == 1..MaxPeers

PeerRec == [in_use: BOOLEAN, node_id: Remote \cup {NoId}, expires_at: Nat]

Free == [in_use |-> FALSE, node_id |-> NoId, expires_at |-> 0]

\* A datagram with the discovery magic; "OTHER" is any other type byte.
AllMsg == [mtype: {"ALIVE", "RESPONSE", "BYEBYE", "OTHER"},
           group: {0, 1}, id: Remote \cup {Self}]

Msg == AllMsg \cap Heard

---------------------------------------------------------------------------
(* The peer table *)

\* The slots held by a node; a correct table has at most one.
SlotsOf(id) == {i \in Slot : peers[i].in_use /\ peers[i].node_id = id}

FreeSlots == {i \in Slot : ~peers[i].in_use}

\* The lowest index of a set of slots: the order in which the loops scan.
First(S) == CHOOSE i \in S : \A j \in S : i <= j

\* Slip: the first free slot is taken without looking behind it.
FindOrAllocFirstFree(id) == IF FreeSlots # {} THEN First(FreeSlots)
                            ELSE IF SlotsOf(id) # {} THEN First(SlotsOf(id))
                            ELSE 0

\* find_or_alloc_peer: the node's slot, else the first free one, else none.
\* The scan goes on past a free slot, because a match may lie behind it.
FindOrAlloc(id) == IF SlotsOf(id) # {} THEN First(SlotsOf(id))
                   ELSE IF FreeSlots # {} THEN First(FreeSlots)
                   ELSE 0

Known == {peers[i].node_id : i \in {j \in Slot : peers[j].in_use}}

---------------------------------------------------------------------------
(* Receiving *)

\* The early returns of link_handle_rx: foreign group, own broadcast,
\* unknown type, and a full table.
Dropped(m) ==
    \/ m.group # 0
    \/ m.id = Self
    \/ m.mtype = "OTHER"
    \/ m.mtype \in {"ALIVE", "RESPONSE"} /\ FindOrAlloc(m.id) = 0

RxDrop(m) ==
    /\ Dropped(m)
    /\ tx' = "none"
    /\ UNCHANGED <<now, peers, last_bcast, next_bcast, dirty, heard>>

\* evict_peer clears the first matching slot only.
RxByebye(m) ==
    /\ ~Dropped(m)
    /\ m.mtype = "BYEBYE"
    /\ peers' = [i \in Slot |->
                    IF SlotsOf(m.id) # {} /\ i = First(SlotsOf(m.id))
                    THEN Free ELSE peers[i]]
    /\ tx' = "none"
    /\ UNCHANGED <<now, last_bcast, next_bcast, dirty, heard>>

\* The entry after a state message: the expiry is renewed whatever the TLV
\* walk returned.
Refreshed(m) == [in_use |-> TRUE, node_id |-> m.id, expires_at |-> now + TTL]

\* ALIVE or RESPONSE: record or refresh the peer, and answer an ALIVE with a unicast RESPONSE.
RxState(m) ==
    /\ ~Dropped(m)
    /\ m.mtype \in {"ALIVE", "RESPONSE"}
    /\ peers' = [peers EXCEPT ![FindOrAlloc(m.id)] = Refreshed(m)]
    /\ tx' = IF m.mtype = "ALIVE" THEN "RESPONSE" ELSE "none"
    /\ heard' = [heard EXCEPT ![m.id] = now]
    /\ UNCHANGED <<now, last_bcast, next_bcast, dirty>>

LinkHandleRx == \E m \in Msg : RxDrop(m) \/ RxByebye(m) \/ RxState(m)

---------------------------------------------------------------------------
(* The tick *)

BroadcastDue == dirty \/ now >= next_bcast

PastGap == now - last_bcast >= MinGap

\* send_alive: multicast, restart both timers, the state is announced.
SendAlive ==
    /\ last_bcast' = now
    /\ next_bcast' = now + Bcast
    /\ dirty' = FALSE
    /\ tx' = "ALIVE"

\* Slip: every throttled attempt restarts the gap.
ThrottleRestart ==
    /\ last_bcast' = now
    /\ next_bcast' = now + MinGap
    /\ tx' = "none"
    /\ UNCHANGED dirty

\* Too early: come back when the gap since the last ALIVE has passed.
Throttle ==
    /\ next_bcast' = last_bcast + MinGap
    /\ tx' = "none"
    /\ UNCHANGED <<last_bcast, dirty>>

\* Slip: no grace after the TTL.
ExpiredNoGrace(p) == p.in_use /\ now > p.expires_at

Expired(p) == p.in_use /\ now > p.expires_at + Grace

Prune == peers' = [i \in Slot |-> IF Expired(peers[i]) THEN Free ELSE peers[i]]

\* link_tick: the broadcast schedule, then the prune, in one call.
LinkTick ==
    /\ \/ BroadcastDue /\ PastGap /\ SendAlive
       \/ BroadcastDue /\ ~PastGap /\ Throttle
       \/ /\ ~BroadcastDue
          /\ tx' = "none"
          /\ UNCHANGED <<last_bcast, next_bcast, dirty>>
    /\ Prune
    /\ UNCHANGED <<now, heard>>

\* link_broadcast_alive_now, called by every local edit of the timeline or
\* the play state and by a session switch.
BroadcastAliveNow ==
    /\ dirty' = TRUE
    /\ next_bcast' = now
    /\ tx' = "none"
    /\ UNCHANGED <<now, peers, last_bcast, heard>>

\* The free-running microsecond counter.
Clock ==
    /\ now < MaxNow
    /\ now' = now + 1
    /\ tx' = "none"
    /\ UNCHANGED <<peers, last_bcast, next_bcast, dirty, heard>>

---------------------------------------------------------------------------
\* link_init: an empty table, the counter still at its reset value.
Init ==
    /\ now = 0
    /\ peers = [i \in Slot |-> Free]
    /\ last_bcast = 0
    /\ next_bcast = now
    /\ dirty = TRUE
    /\ tx = "none"
    /\ heard = [n \in Remote |-> 0]

Next == LinkHandleRx \/ LinkTick \/ BroadcastAliveNow \/ Clock

Spec == Init /\ [][Next]_vars

\* main.c calls link_tick on every turn of an endless loop, and the counter
\* never stops; nothing is assumed of the other nodes.
Fairness == WF_vars(LinkTick) /\ WF_vars(Clock)

FairSpec == Spec /\ Fairness

---------------------------------------------------------------------------
(* Properties *)

TypeOK ==
    /\ now \in Nat
    /\ peers \in [Slot -> PeerRec]
    /\ last_bcast \in Nat
    /\ next_bcast \in Nat
    /\ dirty \in BOOLEAN
    /\ tx \in {"none", "ALIVE", "RESPONSE"}
    /\ heard \in [Remote -> Nat]

\* link.c:225-239.  However slots are freed and reused, no node ever holds
\* two slots of the table: otherwise BYEBYE would evict only one of them and
\* the election would go on reading the stale one.
UniqueIds ==
    \A i, j \in Slot :
        peers[i].in_use /\ peers[j].in_use
        /\ peers[i].node_id = peers[j].node_id => i = j

\* link.c:277.  The expiry of a peer is always its last state message plus
\* the TTL: a message refreshes the slot that the prune reads.
ExpiryFollowsHeard ==
    \A i \in Slot : peers[i].in_use =>
        /\ peers[i].node_id \in Remote
        /\ peers[i].expires_at = heard[peers[i].node_id] + TTL

\* link.c:298-306.  With nothing to announce the next heartbeat is exactly
\* one broadcast period after the last ALIVE, and a throttled announcement
\* is never put off by more than the minimum gap.
ScheduleSound ==
    /\ last_bcast <= now
    /\ ~dirty => next_bcast = last_bcast + Bcast
    /\ dirty => next_bcast <= now \/ next_bcast = last_bcast + MinGap

\* link.c:241-249, 309-316.  A peer leaves the table only because it said
\* BYEBYE or because nothing was heard of it for longer than TTL plus grace.
NoEarlyEviction ==
    [][\A n \in Known \ Known' :
          \/ \E m \in Msg : m.id = n /\ RxByebye(m)
          \/ now > heard[n] + TTL + Grace]_vars

\* link.c:164-167, 298-306.  A local change is announced in the end even
\* when it meets the throttle (stated while the bounded clock can still run
\* past the gap).
ChangeAnnounced == (dirty /\ now + MinGap <= MaxNow) ~> (tx = "ALIVE")

=============================================================================
