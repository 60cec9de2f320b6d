--------------------------- MODULE AudioChannels ---------------------------
(***************************************************************************)
(* The subscription protocol of firmware/link_audio.c: a publishing board  *)
(* announces channels, client boards keep a catalog of them, subscribe a   *)
(* channel into a TDM slot, repeat their ChannelRequest while subscribed   *)
(* and receive the audio.  Both sides are this firmware; Withdraw stands   *)
(* for another Link-Audio application, which may also say ChannelByes.     *)
(*                                                                         *)
(* Datagrams may be lost, reordered and delivered twice, and both sides    *)
(* may be power cycled.  The periods (announcement, re-request, packet)    *)
(* are left open: each sending may happen at any time.  Either side may    *)
(* join another Link session at any time (module Session).  What is in a   *)
(* packet, and the ring it goes to, is module JitterBuffer.                *)
(***************************************************************************)
EXTENDS Integers, Sequences, FiniteSets

CONSTANTS
    Client,       \* subscribing boards
    Chan,         \* channel ids
    NoChan,       \* a free subscription entry
    Session,      \* Link sessions
    Boots,        \* the ids the publisher draws at each boot, from boot 0
    MaxSubs,      \* length of link_audio_subs
    MaxRemote,    \* length of link_audio_remote
    MaxPer,       \* LINK_AUDIO_MAX_SUB_PER
    MaxCrash,     \* bound: power cycles of clients
    MaxNet        \* bound: datagrams in flight

ASSUME AudioAssumption ==
    /\ NoChan \notin Chan
    /\ Boots \in Seq(SUBSET Chan) /\ Len(Boots) > 0
    /\ MaxSubs \in Nat \ {0} /\ MaxRemote \in Nat /\ MaxPer \in Nat
    /\ MaxCrash \in Nat /\ MaxNet \in Nat

VARIABLES
    boot,         \* how often the publisher was started
    up,           \* the channels it publishes now: link_audio_local
    subscribers,  \* sub_addr of each channel, num_subscribers long
    catalog,      \* link_audio_remote of each client
    subs,         \* link_audio_subs of each client
    fed,          \* history: entries that got audio since they were made
    crashes,
    pub_session,  \* link_self_session of the publisher
    link_session, \* and of each client
    net           \* datagrams in flight

sessions == <<pub_session, link_session>>
audioVars == <<boot, up, subscribers, catalog, subs, fed, crashes, sessions, net>>

SubSlot == 1 .. MaxSubs

AudioMsg == [kind: {"ANN"}, client: Client, chans: SUBSET Chan]
       \cup [kind: {"BYES", "REQ", "STOP"}, client: Client, chan: Chan]
       \cup [kind: {"AUDIO"}, client: Client, chan: Chan, sess: Session]

Packet(k, b, c) == [kind |-> k, client |-> b, chan |-> c]

AudioPacket(b, c, s) == [kind |-> "AUDIO", client |-> b, chan |-> c, sess |-> s]

\* What does not fit into the network is lost.
Sent(P) ==
    LET new == P \ net
        room == MaxNet - Cardinality(net)
    IN  {net \cup Q : Q \in {X \in SUBSET new :
            IF Cardinality(new) <= room THEN X = new
            ELSE Cardinality(X) = room}}

\* Delivery; the network may deliver the same datagram again.
Delivered(m) == net' \in {net \ {m}, net}

---------------------------------------------------------------------------
(* The publisher *)

\* send_announcements: everything it publishes, to every peer.
SendAnnouncements ==
    /\ net' \in Sent({[kind |-> "ANN", client |-> b, chans |-> up] :
                          b \in Client})
    /\ UNCHANGED <<boot, up, subscribers, catalog, subs, fed, crashes, sessions>>

\* Slip: a repeated request is added again.
AddedAgain(list, b) == IF Len(list) >= MaxPer THEN list ELSE Append(list, b)

\* add_subscriber: a repeated request changes nothing, a full list refuses.
Added(list, b) ==
    IF (\E x \in DOMAIN list : list[x] = b) \/ Len(list) >= MaxPer
    THEN list ELSE Append(list, b)

\* remove_subscriber: the first match goes and the rest moves down.
Removed(list, b) ==
    LET at == {x \in DOMAIN list : list[x] = b} IN
    IF at = {} THEN list
    ELSE LET f == CHOOSE x \in at : \A y \in at : x <= y IN
         [x \in 1 .. Len(list) - 1 |-> list[IF x < f THEN x ELSE x + 1]]

\* handle_channel_request: for a channel that is not published, nothing.
HandleChannelRequest(m) ==
    /\ m.kind \in {"REQ", "STOP"}
    /\ subscribers' = IF m.chan \notin up THEN subscribers
                      ELSE [subscribers EXCEPT ![m.chan] =
                              IF m.kind = "REQ" THEN Added(@, m.client)
                              ELSE Removed(@, m.client)]
    /\ Delivered(m)
    /\ UNCHANGED <<boot, up, catalog, subs, fed, crashes, sessions>>

\* send_audio_buffer_for: one packet, with the session of the board, to every
\* subscriber of the channel.
SendAudioBuffer(c) ==
    /\ c \in up
    /\ Len(subscribers[c]) > 0
    /\ net' \in Sent({AudioPacket(subscribers[c][x], c, pub_session) :
                          x \in DOMAIN subscribers[c]})
    /\ UNCHANGED <<boot, up, subscribers, catalog, subs, fed, crashes, sessions>>

\* link_init and link_audio_init after a power cycle: a session of its own or
\* one that it finds, new ids, no subscribers.
Restart ==
    /\ boot < Len(Boots)
    /\ boot' = boot + 1
    /\ up' = Boots[boot + 1]
    /\ subscribers' = [c \in Chan |-> <<>>]
    /\ pub_session' \in Session
    /\ UNCHANGED <<catalog, subs, fed, crashes, net, link_session>>

\* Another application closes a channel and says so.
Withdraw(c) ==
    /\ c \in up
    /\ up' = up \ {c}
    /\ subscribers' = [subscribers EXCEPT ![c] = <<>>]
    /\ net' \in Sent({Packet("BYES", b, c) : b \in Client})
    /\ UNCHANGED <<boot, catalog, subs, fed, crashes, sessions>>

---------------------------------------------------------------------------
(* The clients *)

EntriesOf(b, c) == {i \in SubSlot : subs[b][i] = c}

FirstEntry(I) == CHOOSE i \in I : \A j \in I : i <= j

\* ann_handler, the auca entry: known channels stay, unknown ones take the
\* free entries while there are any (which ones depends on the order).
Listed(old, new) ==
    LET unknown == new \ old
        room == MaxRemote - Cardinality(old)
    IN  {old \cup K : K \in {X \in SUBSET unknown :
            IF Cardinality(unknown) <= room THEN X = unknown
            ELSE Cardinality(X) = room}}

HandleAnnouncement(m) ==
    /\ m.kind = "ANN"
    /\ \E L \in Listed(catalog[m.client], m.chans) :
          catalog' = [catalog EXCEPT ![m.client] = L]
    /\ Delivered(m)
    /\ UNCHANGED <<boot, up, subscribers, subs, fed, crashes, sessions>>

\* handle_aucb_entry: the catalog entry and every subscription go.
HandleByes(m) ==
    LET b == m.client IN
    /\ m.kind = "BYES"
    /\ catalog' = [catalog EXCEPT ![b] = @ \ {m.chan}]
    /\ subs' = [subs EXCEPT ![b] = [i \in SubSlot |->
                  IF subs[b][i] = m.chan THEN NoChan ELSE subs[b][i]]]
    /\ fed' = [fed EXCEPT ![b] = @ \ EntriesOf(b, m.chan)]
    /\ Delivered(m)
    /\ UNCHANGED <<boot, up, subscribers, crashes, sessions>>

\* Slip: the last entry for the channel gets the samples.
HandleAudioBufferLast(m) ==
    LET E == EntriesOf(m.client, m.chan) IN
    /\ m.kind = "AUDIO"
    /\ fed' = IF m.sess # link_session[m.client] \/ E = {} THEN fed
              ELSE [fed EXCEPT ![m.client] = @ \cup
                       {CHOOSE i \in E : \A j \in E : j <= i}]
    /\ Delivered(m)
    /\ UNCHANGED <<boot, up, subscribers, catalog, subs, crashes, sessions>>

\* handle_audio_buffer: the packet of another session is dropped; else the
\* first entry for the channel gets the samples.
HandleAudioBuffer(m) ==
    LET E == EntriesOf(m.client, m.chan) IN
    /\ m.kind = "AUDIO"
    /\ fed' = IF m.sess # link_session[m.client] \/ E = {} THEN fed
              ELSE [fed EXCEPT ![m.client] = @ \cup {FirstEntry(E)}]
    /\ Delivered(m)
    /\ UNCHANGED <<boot, up, subscribers, catalog, subs, crashes, sessions>>

\* link_audio_subscribe: only a channel of the catalog, in the first free
\* entry (otherwise -1 or -2 and no change).
Subscribe(b, c) ==
    LET free == EntriesOf(b, NoChan) IN
    /\ c \in catalog[b]
    /\ free # {}
    /\ subs' = [subs EXCEPT ![b][FirstEntry(free)] = c]
    /\ fed' = [fed EXCEPT ![b] = @ \ {FirstEntry(free)}]
    /\ UNCHANGED <<boot, up, subscribers, catalog, crashes, net, sessions>>

\* link_audio_unsubscribe: one StopChannelRequest, the first entry is freed.
Unsubscribe(b, c) ==
    LET E == EntriesOf(b, c) IN
    /\ E # {}
    /\ net' \in Sent({Packet("STOP", b, c)})
    /\ subs' = [subs EXCEPT ![b][FirstEntry(E)] = NoChan]
    /\ fed' = [fed EXCEPT ![b] = @ \ {FirstEntry(E)}]
    /\ UNCHANGED <<boot, up, subscribers, catalog, crashes, sessions>>

\* Slip: only an entry that gets no audio asks again.
RequestIfSilent(b, i) ==
    /\ subs[b][i] # NoChan
    /\ i \notin fed[b]
    /\ net' \in Sent({Packet("REQ", b, subs[b][i])})
    /\ UNCHANGED <<boot, up, subscribers, catalog, subs, fed, crashes, sessions>>

\* link_audio_tick: every entry repeats its request.
Request(b, i) ==
    /\ subs[b][i] # NoChan
    /\ net' \in Sent({Packet("REQ", b, subs[b][i])})
    /\ UNCHANGED <<boot, up, subscribers, catalog, subs, fed, crashes, sessions>>

\* link_audio_init after a power cycle of a client.
ClientRestart(b) ==
    /\ crashes < MaxCrash
    /\ crashes' = crashes + 1
    /\ catalog' = [catalog EXCEPT ![b] = {}]
    /\ subs' = [subs EXCEPT ![b] = [i \in SubSlot |-> NoChan]]
    /\ fed' = [fed EXCEPT ![b] = {}]
    /\ \E s \in Session : link_session' = [link_session EXCEPT ![b] = s]
    /\ UNCHANGED <<boot, up, subscribers, net, pub_session>>

---------------------------------------------------------------------------
(* The session of either side changes when session.c joins another one *)

JoinSession(s) ==
    /\ \/ pub_session' = s /\ UNCHANGED link_session
       \/ \E b \in Client :
             link_session' = [link_session EXCEPT ![b] = s] /\ UNCHANGED pub_session
    /\ UNCHANGED <<boot, up, subscribers, catalog, subs, fed, crashes, net>>

---------------------------------------------------------------------------
LosePacket(m) ==
    /\ net' = net \ {m}
    /\ UNCHANGED <<boot, up, subscribers, catalog, subs, fed, crashes, sessions>>

AudioInit ==
    /\ boot = 1
    /\ up = Boots[1]
    /\ subscribers = [c \in Chan |-> <<>>]
    /\ catalog = [b \in Client |-> {}]
    /\ subs = [b \in Client |-> [i \in SubSlot |-> NoChan]]
    /\ fed = [b \in Client |-> {}]
    /\ crashes = 0
    /\ pub_session \in Session /\ link_session \in [Client -> Session]
    /\ net = {}

LinkAudioHandleRx(m) ==
    HandleChannelRequest(m) \/ HandleAnnouncement(m) \/ HandleByes(m)
    \/ HandleAudioBuffer(m)

AudioNext ==
    \/ SendAnnouncements \/ Restart
    \/ \E c \in Chan : SendAudioBuffer(c) \/ Withdraw(c)
    \/ \E b \in Client, c \in Chan : Subscribe(b, c) \/ Unsubscribe(b, c)
    \/ \E b \in Client, i \in SubSlot : Request(b, i)
    \/ \E b \in Client : ClientRestart(b)
    \/ \E s \in Session : JoinSession(s)
    \/ \E m \in net : LinkAudioHandleRx(m) \/ LosePacket(m)

AudioSpec == AudioInit /\ [][AudioNext]_audioVars

\* The main loops run for ever, the codec delivers frames for ever, and the
\* LAN is fair-lossy: what is sent again and again arrives again and again.
\* A datagram does not stay in flight for ever: in the end it is delivered
\* for the last time, or lost.
ArriveRequest(b, c) ==
    Packet("REQ", b, c) \in net /\ HandleChannelRequest(Packet("REQ", b, c))
ArriveAudio(b, c, s) ==
    AudioPacket(b, c, s) \in net /\ HandleAudioBuffer(AudioPacket(b, c, s))
Vanish(m) == m \in net /\ net' = net \ {m} /\ (LinkAudioHandleRx(m) \/ LosePacket(m))

AudioFairness ==
    \A b \in Client, c \in Chan :
        /\ WF_audioVars(SendAudioBuffer(c))
        /\ \A i \in SubSlot : WF_audioVars(subs[b][i] = c /\ Request(b, i))
        /\ SF_audioVars(ArriveRequest(b, c))
        /\ \A s \in Session : SF_audioVars(ArriveAudio(b, c, s))
        /\ WF_audioVars(Vanish(Packet("STOP", b, c)))

FairAudioSpec == AudioSpec /\ AudioFairness

---------------------------------------------------------------------------
(* Properties *)

AudioTypeOK ==
    /\ boot \in 1 .. Len(Boots)
    /\ up \subseteq Chan
    /\ subscribers \in [Chan -> Seq(Client)]
    /\ catalog \in [Client -> SUBSET Chan]
    /\ subs \in [Client -> [SubSlot -> Chan \cup {NoChan}]]
    /\ fed \in [Client -> SUBSET SubSlot]
    /\ crashes \in Nat
    /\ pub_session \in Session /\ link_session \in [Client -> Session]
    /\ net \subseteq AudioMsg

\* link_audio.c:213-218.  However often requests are repeated, duplicated
\* and mixed with stops, no subscriber is listed twice, so nobody is sent
\* the same packet twice.
NoDoubleDelivery ==
    \A c \in Chan : \A x, y \in DOMAIN subscribers[c] :
        subscribers[c][x] = subscribers[c][y] => x = y

\* A client keeps its subscriptions to a channel that stays published.
Keeps(b, c) ==
    /\ <>[](EntriesOf(b, c) # {} /\ c \in up)
    /\ <>[][FALSE]_(subs[b])

\* link_audio.c:579-589.  A client that keeps its subscriptions to a channel
\* that stays published ends up on the publisher's list and stays there,
\* whatever became of its first requests and of the stops it sent before
\* (the instance has no more clients than the list has places).
StandingSubscription ==
    \A b \in Client, c \in Chan :
        Keeps(b, c)
            => <>[](\E x \in DOMAIN subscribers[c] : subscribers[c][x] = b)

\* link_audio.c:418-476.  Of the entries that a client keeps for a published
\* channel the first gets audio in the end, if client and publisher come to
\* rest in one session, whatever packets of other sessions and of earlier
\* subscriptions are still under way (find_sub_for_channel never looks behind
\* the first).
EntryFed ==
    \A b \in Client, c \in Chan :
        Keeps(b, c) /\ <>[](link_session[b] = pub_session)
            => <>[](EntriesOf(b, c) # {} /\ FirstEntry(EntriesOf(b, c)) \in fed[b])

=============================================================================
