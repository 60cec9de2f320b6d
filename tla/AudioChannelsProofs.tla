------------------------ MODULE AudioChannelsProofs ------------------------
(***************************************************************************)
(* The subscription protocol for any clients, channels, boots and sizes of *)
(* the tables: nobody is on a subscriber list twice.                       *)
(***************************************************************************)
EXTENDS AudioChannels, WellFoundedInduction, TLAPS

\* A list as sub_addr holds it: no client twice.
Distinct(list) ==
    \A x, y \in DOMAIN list : list[x] = list[y] => x = y

\* The part of the state that the subscriber lists depend on.
ListInv ==
    /\ subscribers \in [Chan -> Seq(Client)]
    /\ net \subseteq AudioMsg
    /\ \A c \in Chan : Distinct(subscribers[c])

---------------------------------------------------------------------------
(* The lists *)

LEMMA EmptyList == <<>> \in Seq(Client) /\ Distinct(<<>>)
  BY DEF Distinct

\* add_subscriber keeps the list free of repetitions.
LEMMA AddedKeeps ==
    ASSUME NEW list \in Seq(Client), Distinct(list), NEW b \in Client
    PROVE  Added(list, b) \in Seq(Client) /\ Distinct(Added(list, b))
  <1>1. CASE (\E x \in DOMAIN list : list[x] = b) \/ Len(list) >= MaxPer
    BY <1>1 DEF Added
  <1>2. CASE ~((\E x \in DOMAIN list : list[x] = b) \/ Len(list) >= MaxPer)
    <2> DEFINE new == Append(list, b)
    <2>1. Added(list, b) = new
      BY <1>2 DEF Added
    <2>2. new \in Seq(Client) /\ Len(new) = Len(list) + 1 /\ Len(list) \in Nat
          /\ DOMAIN new = 1 .. Len(list) + 1 /\ DOMAIN list = 1 .. Len(list)
      OBVIOUS
    <2>3. \A x \in 1 .. Len(list) : new[x] = list[x]
      OBVIOUS
    <2>4. new[Len(list) + 1] = b
      OBVIOUS
    <2>5. \A x, y \in DOMAIN new : new[x] = new[y] => x = y
      <3> SUFFICES ASSUME NEW x \in 1 .. Len(list) + 1, NEW y \in 1 .. Len(list) + 1,
                          new[x] = new[y]
                   PROVE  x = y
        BY <2>2
      <3> HIDE DEF new
      <3>1. CASE x \in 1 .. Len(list) /\ y \in 1 .. Len(list)
        BY <3>1, <2>2, <2>3 DEF Distinct
      <3>2. CASE x = Len(list) + 1 /\ y \in 1 .. Len(list)
        BY <3>2, <1>2, <2>2, <2>3, <2>4
      <3>3. CASE y = Len(list) + 1 /\ x \in 1 .. Len(list)
        BY <3>3, <1>2, <2>2, <2>3, <2>4
      <3>4. CASE x = Len(list) + 1 /\ y = Len(list) + 1
        BY <3>4
      <3> QED
        BY <3>1, <3>2, <3>3, <3>4, <2>2
    <2> QED
      BY <2>1, <2>2, <2>5 DEF Distinct
  <1> QED
    BY <1>1, <1>2

\* The shift of remove_subscriber, from any place on.
LEMMA ShiftKeeps ==
    ASSUME NEW list \in Seq(Client), Distinct(list), NEW f \in DOMAIN list
    PROVE  LET new == [x \in 1 .. Len(list) - 1 |-> list[IF x < f THEN x ELSE x + 1]]
           IN  new \in Seq(Client) /\ Distinct(new)
  <1> DEFINE at(x) == IF x < f THEN x ELSE x + 1
  <1> DEFINE new == [x \in 1 .. Len(list) - 1 |-> list[at(x)]]
  <1>1. Len(list) \in Nat /\ DOMAIN list = 1 .. Len(list) /\ f \in 1 .. Len(list)
    OBVIOUS
  <1>2. Len(list) - 1 \in Nat
    BY <1>1
  <1>3. \A x \in 1 .. Len(list) - 1 : at(x) \in 1 .. Len(list)
    BY <1>1
  <1>4. \A x \in 1 .. Len(list) - 1 : list[at(x)] \in Client
    BY <1>1, <1>3
  <1>5. new \in [1 .. Len(list) - 1 -> Client]
    BY <1>4
  <1>6. new \in Seq(Client)
    BY <1>2, <1>5
  <1>7. \A x, y \in 1 .. Len(list) - 1 : at(x) = at(y) => x = y
    BY <1>1
  <1>8. \A x, y \in 1 .. Len(list) - 1 : new[x] = new[y] => x = y
    <2> SUFFICES ASSUME NEW x \in 1 .. Len(list) - 1, NEW y \in 1 .. Len(list) - 1,
                        list[at(x)] = list[at(y)]
                 PROVE  x = y
      OBVIOUS
    <2>1. at(x) \in DOMAIN list /\ at(y) \in DOMAIN list
      BY <1>1, <1>3
    <2> HIDE DEF at
    <2>2. at(x) = at(y)
      BY <2>1 DEF Distinct
    <2> QED
      BY <2>2, <1>7
  <1> QED
    BY <1>6, <1>8 DEF Distinct

\* remove_subscriber too.
LEMMA RemovedKeeps ==
    ASSUME NEW list \in Seq(Client), Distinct(list), NEW b \in Client
    PROVE  Removed(list, b) \in Seq(Client) /\ Distinct(Removed(list, b))
  <1> DEFINE at == {x \in DOMAIN list : list[x] = b}
  <1>1. CASE at = {}
    BY <1>1 DEF Removed
  <1>2. CASE at # {}
    <2>1. PICK f \in at : \A y \in at : y = f
      BY <1>2 DEF Distinct
    <2>2. f \in DOMAIN list /\ f \in Int
      OBVIOUS
    <2>3. (CHOOSE x \in at : \A y \in at : x <= y) = f
      BY <2>1, <2>2
    <2>4. Removed(list, b)
            = [x \in 1 .. Len(list) - 1 |-> list[IF x < f THEN x ELSE x + 1]]
      BY <1>2, <2>3 DEF Removed
    <2> QED
      BY <2>2, <2>4, ShiftKeeps
  <1> QED
    BY <1>1, <1>2

---------------------------------------------------------------------------
(* The invariant *)

\* What is sent is added to the network, as far as there is room.
LEMMA SentTypes ==
    ASSUME net \subseteq AudioMsg, NEW P, P \subseteq AudioMsg, NEW q \in Sent(P)
    PROVE  q \subseteq AudioMsg
  <1>1. PICK X \in SUBSET (P \ net) : q = net \cup X
    BY DEF Sent
  <1> QED
    BY <1>1

LEMMA PacketTypes ==
    ASSUME NEW k \in {"BYES", "REQ", "STOP"}, NEW b \in Client, NEW c \in Chan
    PROVE  Packet(k, b, c) \in AudioMsg
  BY DEF Packet, AudioMsg

LEMMA AudioPacketTypes ==
    ASSUME NEW b \in Client, NEW c \in Chan, NEW s \in Session
    PROVE  AudioPacket(b, c, s) \in AudioMsg
  BY DEF AudioPacket, AudioMsg

LEMMA AudioInitInv == AudioInit => ListInv
  BY EmptyList DEF AudioInit, ListInv, Distinct

LEMMA HandleChannelRequestInv ==
    ASSUME ListInv, NEW m \in net, HandleChannelRequest(m)
    PROVE  ListInv'
  <1>1. net' \subseteq AudioMsg
    BY DEF HandleChannelRequest, Delivered, ListInv
  <1>2. m.client \in Client /\ m.chan \in Chan
    BY DEF HandleChannelRequest, ListInv, AudioMsg
  <1> DEFINE old == subscribers[m.chan]
  <1> DEFINE new == IF m.kind = "REQ" THEN Added(old, m.client) ELSE Removed(old, m.client)
  <1>3. old \in Seq(Client) /\ Distinct(old)
    BY <1>2 DEF ListInv
  <1>4. new \in Seq(Client) /\ Distinct(new)
    BY <1>2, <1>3, AddedKeeps, RemovedKeeps
  <1>5. subscribers' = subscribers \/ subscribers' = [subscribers EXCEPT ![m.chan] = new]
    BY DEF HandleChannelRequest
  <1> HIDE DEF old, new
  <1>6. subscribers' \in [Chan -> Seq(Client)]
    BY <1>4, <1>5 DEF ListInv
  <1>7. \A c \in Chan : Distinct(subscribers'[c])
    <2> SUFFICES ASSUME NEW c \in Chan PROVE Distinct(subscribers'[c])
      OBVIOUS
    <2>1. subscribers'[c] = subscribers[c] \/ subscribers'[c] = new
      BY <1>5 DEF ListInv
    <2> QED
      BY <2>1, <1>4 DEF ListInv
  <1> QED
    BY <1>1, <1>6, <1>7 DEF ListInv, Distinct

\* A step that leaves the lists alone, or empties some.
LEMMA OthersInv ==
    ASSUME ListInv, net' \subseteq AudioMsg,
           \/ subscribers' = subscribers
           \/ \E c \in Chan : subscribers' = [subscribers EXCEPT ![c] = <<>>]
           \/ subscribers' = [c \in Chan |-> <<>>]
    PROVE  ListInv'
  <1>1. subscribers' \in [Chan -> Seq(Client)]
    BY EmptyList DEF ListInv
  <1>2. \A c \in Chan : subscribers'[c] = subscribers[c] \/ subscribers'[c] = <<>>
    BY DEF ListInv
  <1>3. \A c \in Chan : Distinct(subscribers'[c])
    BY <1>2, EmptyList DEF ListInv
  <1> QED
    BY <1>1, <1>3 DEF ListInv, Distinct

LEMMA AnnounceInv ==
    ASSUME ListInv, up \subseteq Chan, SendAnnouncements
    PROVE  ListInv'
  <1> DEFINE P == {[kind |-> "ANN", client |-> b, chans |-> up] : b \in Client}
  <1>1. P \subseteq AudioMsg
    BY DEF AudioMsg
  <1>2. net' \in Sent(P) /\ subscribers' = subscribers
    BY DEF SendAnnouncements
  <1> HIDE DEF P
  <1>3. net' \subseteq AudioMsg
    BY <1>1, <1>2, SentTypes DEF ListInv
  <1> QED
    BY <1>2, <1>3, OthersInv

LEMMA SendAudioBufferInv ==
    ASSUME ListInv, pub_session \in Session, NEW c \in Chan, SendAudioBuffer(c)
    PROVE  ListInv'
  <1> DEFINE P == {AudioPacket(subscribers[c][x], c, pub_session) : x \in DOMAIN subscribers[c]}
  <1>1. \A x \in DOMAIN subscribers[c] : subscribers[c][x] \in Client
    BY DEF ListInv
  <1>2. P \subseteq AudioMsg
    BY <1>1, AudioPacketTypes
  <1>3. net' \in Sent(P) /\ subscribers' = subscribers
    BY DEF SendAudioBuffer
  <1> HIDE DEF P
  <1>4. net' \subseteq AudioMsg
    BY <1>2, <1>3, SentTypes DEF ListInv
  <1> QED
    BY <1>3, <1>4, OthersInv

LEMMA WithdrawInv ==
    ASSUME ListInv, NEW c \in Chan, Withdraw(c)
    PROVE  ListInv'
  <1> DEFINE P == {Packet("BYES", b, c) : b \in Client}
  <1>1. P \subseteq AudioMsg
    BY PacketTypes
  <1>2. net' \in Sent(P) /\ subscribers' = [subscribers EXCEPT ![c] = <<>>]
    BY DEF Withdraw
  <1> HIDE DEF P
  <1>3. net' \subseteq AudioMsg
    BY <1>1, <1>2, SentTypes DEF ListInv
  <1> QED
    BY <1>2, <1>3, OthersInv

LEMMA UnsubscribeInv ==
    ASSUME ListInv, NEW b \in Client, NEW c \in Chan, Unsubscribe(b, c)
    PROVE  ListInv'
  <1>1. {Packet("STOP", b, c)} \subseteq AudioMsg
    BY PacketTypes
  <1>2. net' \in Sent({Packet("STOP", b, c)}) /\ subscribers' = subscribers
    BY DEF Unsubscribe
  <1>3. net' \subseteq AudioMsg
    BY <1>1, <1>2, SentTypes DEF ListInv
  <1> QED
    BY <1>2, <1>3, OthersInv

LEMMA RequestInv ==
    ASSUME ListInv, NEW b \in Client, NEW i \in SubSlot, Request(b, i),
           subs[b][i] \in Chan \cup {NoChan}
    PROVE  ListInv'
  <1>1. subs[b][i] \in Chan
    BY DEF Request
  <1>2. {Packet("REQ", b, subs[b][i])} \subseteq AudioMsg
    BY <1>1, PacketTypes
  <1>3. net' \in Sent({Packet("REQ", b, subs[b][i])}) /\ subscribers' = subscribers
    BY DEF Request
  <1>4. net' \subseteq AudioMsg
    BY <1>2, <1>3, SentTypes DEF ListInv
  <1> QED
    BY <1>3, <1>4, OthersInv

---------------------------------------------------------------------------
(* What the clients hold, on which the types of the datagrams depend *)

HoldInv ==
    /\ boot \in 1 .. Len(Boots)
    /\ up \subseteq Chan
    /\ catalog \in [Client -> SUBSET Chan]
    /\ subs \in [Client -> [SubSlot -> Chan \cup {NoChan}]]
    /\ fed \in [Client -> SUBSET SubSlot]
    /\ crashes \in Nat
    /\ pub_session \in Session /\ link_session \in [Client -> Session]

\* The first of some entries is one of them.
LEMMA FirstIsEntry ==
    ASSUME NEW I \in SUBSET SubSlot, I # {}
    PROVE  FirstEntry(I) \in I
  <1>1. I \in SUBSET Nat
    BY AudioAssumption DEF SubSlot
  <1> DEFINE R == {ss \in Nat \X Nat : ss[1] < ss[2]}
  <1>2. IsWellFoundedOn(R, Nat)
    BY NatLessThanWellFounded DEF OpToRel
  <1> HIDE DEF R
  <1>3. PICK m \in I : \A k \in I : ~ (<<k, m>> \in R)
    BY <1>1, <1>2, WFMin
  <1>4. \A k \in I : m <= k
    <2> SUFFICES ASSUME NEW k \in I PROVE m <= k
      OBVIOUS
    <2>1. m \in Nat /\ k \in Nat /\ <<k, m>> \in Nat \X Nat
      BY <1>1
    <2>2. ~(<<k, m>>[1] < <<k, m>>[2])
      BY <1>3, <2>1 DEF R
    <2> QED
      BY <2>1, <2>2
  <1> QED
    BY <1>4 DEF FirstEntry

LEMMA EntriesAreSlots ==
    ASSUME NEW b, NEW c
    PROVE  EntriesOf(b, c) \in SUBSET SubSlot
  BY DEF EntriesOf

LEMMA BootIds == \A k \in 1 .. Len(Boots) : Boots[k] \subseteq Chan
  BY AudioAssumption

LEMMA HoldInitInv == AudioInit => HoldInv
  <1>1. 1 \in 1 .. Len(Boots)
    BY AudioAssumption
  <1> QED
    BY <1>1, BootIds DEF AudioInit, HoldInv

LEMMA HandleAnnouncementHold ==
    ASSUME HoldInv, ListInv, NEW m \in net, HandleAnnouncement(m)
    PROVE  HoldInv'
  <1>1. m.client \in Client /\ m.chans \subseteq Chan
    BY DEF HandleAnnouncement, ListInv, AudioMsg
  <1>2. PICK L \in Listed(catalog[m.client], m.chans) :
           catalog' = [catalog EXCEPT ![m.client] = L]
    BY DEF HandleAnnouncement
  <1>3. L \subseteq catalog[m.client] \cup m.chans
    BY DEF Listed
  <1>4. catalog' \in [Client -> SUBSET Chan]
    BY <1>1, <1>2, <1>3 DEF HoldInv
  <1> QED
    BY <1>4 DEF HandleAnnouncement, HoldInv, sessions

LEMMA HandleByesHold ==
    ASSUME HoldInv, ListInv, NEW m \in net, HandleByes(m)
    PROVE  HoldInv'
  <1>1. m.client \in Client
    BY DEF HandleByes, ListInv, AudioMsg
  <1>2. catalog' \in [Client -> SUBSET Chan]
    BY <1>1 DEF HandleByes, HoldInv
  <1>3. [i \in SubSlot |-> IF subs[m.client][i] = m.chan THEN NoChan
                           ELSE subs[m.client][i]] \in [SubSlot -> Chan \cup {NoChan}]
    BY <1>1 DEF HoldInv
  <1>4. subs' \in [Client -> [SubSlot -> Chan \cup {NoChan}]]
    BY <1>1, <1>3 DEF HandleByes, HoldInv
  <1>5. fed' \in [Client -> SUBSET SubSlot]
    BY <1>1 DEF HandleByes, HoldInv
  <1> QED
    BY <1>2, <1>4, <1>5 DEF HandleByes, HoldInv, sessions

LEMMA HandleAudioBufferHold ==
    ASSUME HoldInv, ListInv, NEW m \in net, HandleAudioBuffer(m)
    PROVE  HoldInv'
  <1> DEFINE E == EntriesOf(m.client, m.chan)
  <1>1. fed' = fed \/ (E # {} /\ fed' = [fed EXCEPT ![m.client] = @ \cup {FirstEntry(E)}])
    BY DEF HandleAudioBuffer
  <1>2. E # {} => FirstEntry(E) \in SubSlot
    BY EntriesAreSlots, FirstIsEntry
  <1> HIDE DEF E
  <1>3. fed' \in [Client -> SUBSET SubSlot]
    BY <1>1, <1>2 DEF HoldInv
  <1> QED
    BY <1>3 DEF HandleAudioBuffer, HoldInv, sessions

\* One entry of a client changes.
LEMMA EntryHold ==
    ASSUME HoldInv, NEW b \in Client, NEW i, NEW x \in Chan \cup {NoChan},
           subs' = [subs EXCEPT ![b][i] = x],
           fed' = [fed EXCEPT ![b] = @ \ {i}],
           UNCHANGED <<boot, up, catalog, crashes, sessions>>
    PROVE  HoldInv'
  <1>1. [subs[b] EXCEPT ![i] = x] \in [SubSlot -> Chan \cup {NoChan}]
    BY DEF HoldInv
  <1>2. subs' \in [Client -> [SubSlot -> Chan \cup {NoChan}]]
    BY <1>1 DEF HoldInv
  <1>3. fed' \in [Client -> SUBSET SubSlot]
    BY DEF HoldInv
  <1> QED
    BY <1>2, <1>3 DEF HoldInv, sessions

LEMMA HoldNextInv ==
    ASSUME HoldInv, ListInv, AudioNext
    PROVE  HoldInv'
  <1>1. CASE SendAnnouncements
    BY <1>1 DEF SendAnnouncements, HoldInv, sessions
  <1>2. CASE Restart
    <2>1. boot + 1 \in 1 .. Len(Boots) /\ boot' = boot + 1 /\ up' = Boots[boot + 1]
      BY <1>2, AudioAssumption DEF Restart, HoldInv
    <2> QED
      BY <1>2, <2>1, BootIds DEF Restart, HoldInv
  <1>3. ASSUME NEW c \in Chan, SendAudioBuffer(c) \/ Withdraw(c) PROVE HoldInv'
    BY <1>3 DEF SendAudioBuffer, Withdraw, HoldInv, sessions
  <1>4. ASSUME NEW b \in Client, NEW c \in Chan, Subscribe(b, c) PROVE HoldInv'
    BY <1>4, EntryHold DEF Subscribe
  <1>5. ASSUME NEW b \in Client, NEW c \in Chan, Unsubscribe(b, c) PROVE HoldInv'
    BY <1>5, EntryHold DEF Unsubscribe
  <1>6. ASSUME NEW b \in Client, NEW i \in SubSlot, Request(b, i) PROVE HoldInv'
    BY <1>6 DEF Request, HoldInv, sessions
  <1>7. ASSUME NEW b \in Client, ClientRestart(b) PROVE HoldInv'
    BY <1>7 DEF ClientRestart, HoldInv
  <1>8. ASSUME NEW m \in net, HandleChannelRequest(m) \/ LosePacket(m)
        PROVE  HoldInv'
    BY <1>8 DEF HandleChannelRequest, LosePacket, HoldInv, sessions
  <1>9. ASSUME NEW s \in Session, JoinSession(s) PROVE HoldInv'
    BY <1>9 DEF JoinSession, HoldInv
  <1> QED
    BY <1>1, <1>2, <1>3, <1>4, <1>5, <1>6, <1>7, <1>8, <1>9, HandleAnnouncementHold,
       HandleByesHold, HandleAudioBufferHold DEF AudioNext, LinkAudioHandleRx

LEMMA ListNextInv ==
    ASSUME HoldInv, ListInv, AudioNext
    PROVE  ListInv'
  <1>1. CASE SendAnnouncements
    BY <1>1, AnnounceInv DEF HoldInv
  <1>2. CASE Restart
    BY <1>2, OthersInv DEF Restart, ListInv
  <1>3. ASSUME NEW b \in Client, NEW c \in Chan, Subscribe(b, c) PROVE ListInv'
    BY <1>3, OthersInv DEF Subscribe, ListInv
  <1>4. ASSUME NEW b \in Client, NEW i \in SubSlot, Request(b, i) PROVE ListInv'
    BY <1>4, RequestInv DEF HoldInv
  <1>5. ASSUME NEW b \in Client, ClientRestart(b) PROVE ListInv'
    BY <1>5, OthersInv DEF ClientRestart, ListInv
  <1>6. ASSUME NEW m \in net,
               HandleAnnouncement(m) \/ HandleByes(m) \/ HandleAudioBuffer(m) \/ LosePacket(m)
        PROVE  ListInv'
    <2>1. net' \subseteq net /\ subscribers' = subscribers
      BY <1>6 DEF HandleAnnouncement, HandleByes, HandleAudioBuffer, LosePacket, Delivered
    <2> QED
      BY <2>1, OthersInv DEF ListInv
  <1>7. ASSUME NEW c \in Chan, SendAudioBuffer(c) PROVE ListInv'
    BY <1>7, SendAudioBufferInv DEF HoldInv
  <1>8. ASSUME NEW s \in Session, JoinSession(s) PROVE ListInv'
    BY <1>8, OthersInv DEF JoinSession, ListInv
  <1> QED
    BY <1>1, <1>2, <1>3, <1>4, <1>5, <1>6, <1>7, <1>8, WithdrawInv,
       UnsubscribeInv, HandleChannelRequestInv DEF AudioNext, LinkAudioHandleRx

LEMMA AudioInvariant == AudioSpec => [](HoldInv /\ ListInv)
  <1>1. AudioInit => HoldInv /\ ListInv
    BY HoldInitInv, AudioInitInv
  <1>2. HoldInv /\ ListInv /\ [AudioNext]_audioVars => (HoldInv /\ ListInv)'
    <2> SUFFICES ASSUME HoldInv, ListInv, [AudioNext]_audioVars
                 PROVE  (HoldInv /\ ListInv)'
      OBVIOUS
    <2>1. CASE AudioNext
      BY <2>1, HoldNextInv, ListNextInv
    <2>2. CASE UNCHANGED audioVars
      BY <2>2 DEF audioVars, sessions, HoldInv, ListInv, Distinct
    <2> QED
      BY <2>1, <2>2
  <1> QED
    BY <1>1, <1>2, PTL DEF AudioSpec

\* link_audio.h, link_audio.c:64-90.  The tables keep their types; FirstEntry
\* always names an entry, so the handlers never index past a table.
THEOREM TypeCorrect == AudioSpec => []AudioTypeOK
  <1>1. HoldInv /\ ListInv => AudioTypeOK
    BY DEF HoldInv, ListInv, AudioTypeOK
  <1> QED
    BY <1>1, AudioInvariant, PTL

\* link_audio.c:210-238.  Whatever is lost, repeated, reordered or restarted,
\* no client is on the list of a channel twice, for lists of any length and
\* any number of clients; so no packet is sent to a client twice.
THEOREM NobodyTwice == AudioSpec => []NoDoubleDelivery
  <1>1. ListInv => NoDoubleDelivery
    BY DEF ListInv, Distinct, NoDoubleDelivery
  <1> QED
    BY <1>1, AudioInvariant, PTL

=============================================================================
