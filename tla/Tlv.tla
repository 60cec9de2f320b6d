-------------------------------- MODULE Tlv --------------------------------
(***************************************************************************)
(* The TLV codec of firmware/tlv.c with its users: encode_msg and          *)
(* handle_entry of link.c, encode_peer_announcement and ann_handler,       *)
(* send_channel_request and handle_chid_entry of link_audio.c.  A body is  *)
(* encoded and then walked, one entry per step, as far as it arrived.      *)
(*                                                                         *)
(* A byte is a cell that names the field it belongs to and its place in    *)
(* it; a cell that begins a number holds the number.  So a decoder that    *)
(* reads at a wrong offset finds the wrong cells.  Byte order is left out. *)
(* Addresses wrap as they do in the code; the sizes are those the encoders *)
(* write, and with them no address does.                                   *)
(***************************************************************************)
EXTENDS Integers, Sequences, SequencesExt

CONSTANTS
    Names,        \* the lengths of the names of the channels published
    PeerNameLen,  \* strlen(s_peer_name)
    NameMax,      \* LINK_AUDIO_NAME_MAX
    MaxDiscovery, MaxAudio,   \* LINK_MAX_MSG_DISCOVERY, LINK_MAX_MSG_AUDIO
    BodyAt,       \* the address of the body in the receive buffer
    AddrSpace     \* 2^32: where an address wraps

ASSUME TlvAssumption ==
    /\ Names \in Seq(Nat) /\ PeerNameLen \in Nat \ {0} /\ NameMax \in Nat \ {0}
    /\ MaxDiscovery \in Nat /\ MaxAudio \in Nat

VARIABLES
    tlv_msg,      \* the message
    tlv_len,      \* the bytes of its body that arrived
    tlv_pos,      \* p of tlv_walk, as an offset
    tlv_out,      \* each field: still old, new, or torn
    tlv_listed,   \* the channels that were listed; 0 for one that is torn
    tlv_ret       \* the result of tlv_walk, "walking" before, "none" at first

tlvVars == <<tlv_msg, tlv_len, tlv_pos, tlv_out, tlv_listed, tlv_ret>>

Cell(f, x) == [f |-> f, x |-> x]
Bytes(f, n) == [x \in 1 .. n |-> Cell(f, x)]
Number(f, x) == <<Cell(f, x)>> \o Bytes("pad", 3)

---------------------------------------------------------------------------
(* Encoding *)

\* tlv_emit_header and what the caller writes behind it.
Emit(key, size, value) == <<Cell(key, size)>> \o Bytes("pad", 7) \o value

Tmln == Emit("tmln", 24, Bytes("tempo", 8) \o Bytes("beat_origin", 8)
                         \o Bytes("time_origin", 8))
Sess == Emit("sess", 8, Bytes("session", 8))
Stst == Emit("stst", 17, Bytes("is_playing", 1) \o Bytes("beats", 8)
                         \o Bytes("timestamp", 8))
Endpoint(key, n, addr, port) == Emit(key, n + 2, Bytes(addr, n) \o Bytes(port, 2))

\* encode_msg: the entries in their order.
EncodeMsg ==
    <<Tmln, Sess, Stst,
      Endpoint("mep4", 4, "mep4_addr", "mep4_port"),
      Endpoint("mep6", 16, "mep6_addr", "mep6_port"),
      Endpoint("aep4", 4, "aep4_addr", "aep4_port"),
      Endpoint("aep6", 16, "aep6_addr", "aep6_port")>>

\* Another version of Link may send entries this one does not know, and
\* known ones with another size.
NewerMsg == <<Emit("news", 3, Bytes("news", 3))>> \o EncodeMsg
OtherMsg == [EncodeMsg EXCEPT ![3] = Emit("stst", 18, Bytes("is_playing", 18))]

ChannelNo == DOMAIN Names

\* Name and id of a channel.
Announced(c) == Number("len", Names[c]) \o Bytes("name", Names[c])
                \o [x \in 1 .. 8 |-> Cell("id", 8 * c + x)]

\* The first pass over the channels adds up the size,
AucaTotal[c \in 0 .. Len(Names)] ==
    IF c = 0 THEN 4 ELSE AucaTotal[c - 1] + 4 + Names[c] + 8

AucaSize == AucaTotal[Len(Names)]

\* the second one writes them.
Auca == Emit("auca", AucaSize, Number("count", Len(Names))
                               \o FlattenSeq([c \in ChannelNo |-> Announced(c)]))

\* encode_peer_announcement.
EncodePeerAnnouncement(with_ping) ==
    <<Sess,
      Emit("__pi", 4 + PeerNameLen,
           Number("len", PeerNameLen) \o Bytes("peer_name", PeerNameLen)),
      Auca>>
    \o (IF with_ping THEN <<Emit("__ht", 8, Bytes("ping_ht", 8))>> ELSE <<>>)

\* send_channel_request.
ChannelRequest == <<Emit("chid", 8, Bytes("channel_id", 8))>>

Entries(w) ==
    CASE w = "discovery" -> EncodeMsg
      [] w = "newer" -> NewerMsg
      [] w = "other" -> OtherMsg
      [] w = "announcement" -> EncodePeerAnnouncement(FALSE)
      [] w = "with ping" -> EncodePeerAnnouncement(TRUE)
      [] w = "request" -> ChannelRequest

Announcement == {"announcement", "with ping"}
Kind == {"discovery", "newer", "other", "request"} \cup Announcement

\* What is in a datagram behind the two headers.
BodyOf(w) == FlattenSeq(Entries(w))

\* The receive buffer does not reach the end of the address space.
ASSUME AddressAssumption ==
    /\ BodyAt \in Nat /\ AddrSpace \in Nat
    /\ \A w \in Kind : BodyAt + Len(BodyOf(w)) < AddrSpace

Buf == BodyOf(tlv_msg)

\* A message is encoded and sent, and arrives whole or in part.
Transfer ==
    /\ tlv_ret = "none" /\ tlv_ret' = "walking"
    /\ tlv_msg' \in Kind
    /\ tlv_len' \in 0 .. Len(BodyOf(tlv_msg'))
    /\ UNCHANGED <<tlv_pos, tlv_out, tlv_listed>>

---------------------------------------------------------------------------
(* Decoding *)

\* The field f of n bytes at offset v.
Read(v, f, n) == IF \A x \in 1 .. n : Buf[v + x] = Cell(f, x) THEN "new" ELSE "torn"

Reads(v, layout) ==
    [f \in DOMAIN tlv_out |->
        IF f \in DOMAIN layout THEN Read(v + layout[f].at, f, layout[f].n)
        ELSE tlv_out[f]]

At(at, n) == [at |-> at, n |-> n]

\* The sizes and offsets of handle_entry.
MsgSize(key) == CASE key = "tmln" -> 24 [] key = "sess" -> 8 [] key = "stst" -> 17
                  [] key \in {"mep4", "aep4"} -> 6
                  [] key \in {"mep6", "aep6"} -> 18

MsgLayout(key) ==
    CASE key = "tmln" -> [tempo |-> At(0, 8), beat_origin |-> At(8, 8),
                          time_origin |-> At(16, 8)]
      [] key = "sess" -> [session |-> At(0, 8)]
      [] key = "stst" -> [is_playing |-> At(0, 1), beats |-> At(1, 8),
                          timestamp |-> At(9, 8)]
      [] key = "mep4" -> [mep4_addr |-> At(0, 4), mep4_port |-> At(4, 2)]
      [] key = "aep4" -> [aep4_addr |-> At(0, 4), aep4_port |-> At(4, 2)]
      [] key = "mep6" -> [mep6_addr |-> At(0, 16), mep6_port |-> At(16, 2)]
      [] key = "aep6" -> [aep6_addr |-> At(0, 16), aep6_port |-> At(16, 2)]

MsgKey == {"tmln", "sess", "stst", "mep4", "mep6", "aep4", "aep6"}

Result(ok, fields, chans) == [ok |-> ok, fields |-> fields, chans |-> chans]

HandleEntry(key, v, n) ==
    IF key \notin MsgKey THEN Result(TRUE, tlv_out, {})
    ELSE IF n # MsgSize(key) THEN Result(FALSE, tlv_out, {})
    ELSE Result(TRUE, Reads(v, MsgLayout(key)), {})

\* The channel whose id is at offset v.
Ident(v) == LET C == {c \in ChannelNo :
                        \A x \in 1 .. 8 : Buf[v + x] = Cell("id", 8 * c + x)}
            IN  IF C = {} THEN {0} ELSE C

\* The loop of ann_handler over an auca entry; it keeps what it has listed
\* when a length does not fit.
ListChannels(v, n) ==
    LET count == Buf[v + 1].x
        scan[i \in 0 .. count] ==
            IF i = 0 THEN [v |-> v + 4, n |-> n - 4, ok |-> TRUE, chans |-> {}]
            ELSE LET s == scan[i - 1]
                     name_len == Buf[s.v + 1].x
                 IN  IF ~s.ok \/ s.n < 4 \/ s.n - 4 < name_len + 8
                     THEN [s EXCEPT !.ok = FALSE]
                     ELSE [v |-> s.v + 12 + name_len, n |-> s.n - 12 - name_len,
                           ok |-> TRUE, chans |-> s.chans \cup Ident(s.v + 4 + name_len)]
    IN  Result(scan[count].ok, tlv_out, scan[count].chans)

AnnHandler(key, v, n) ==
    CASE key = "__ht" -> IF n # 8 THEN Result(FALSE, tlv_out, {})
                         ELSE Result(TRUE, Reads(v, [ping_ht |-> At(0, 8)]), {})
      [] key = "__pi" -> IF n < 4 \/ n < 4 + Buf[v + 1].x THEN Result(FALSE, tlv_out, {})
                         ELSE Result(TRUE, Reads(v, [peer_name |->
                                  At(4, Min({Buf[v + 1].x, NameMax - 1}))]), {})
      [] key = "sess" -> Result(n = 8, tlv_out, {})
      [] key = "auca" -> IF n < 4 THEN Result(FALSE, tlv_out, {}) ELSE ListChannels(v, n)
      [] OTHER -> Result(TRUE, tlv_out, {})

HandleChidEntry(key, v, n) ==
    IF key = "chid" /\ n = 8 THEN Result(TRUE, Reads(v, [channel_id |-> At(0, 8)]), {})
    ELSE Result(TRUE, tlv_out, {})

Callback(key, v, n) ==
    CASE tlv_msg \in Announcement -> AnnHandler(key, v, n)
      [] tlv_msg = "request" -> HandleChidEntry(key, v, n)
      [] OTHER -> HandleEntry(key, v, n)

Key == Buf[tlv_pos + 1].f
Size == Buf[tlv_pos + 1].x

\* Slip: only the header must have arrived.
OverrunUnchecked == FALSE

\* vp + size, an address.
ValueEnd == (BodyAt + tlv_pos + 8 + Size) % AddrSpace

\* The value reaches past the end.
Overrun == ValueEnd > BodyAt + tlv_len

WalkEnd ==
    /\ tlv_ret = "walking" /\ tlv_pos + 8 > tlv_len
    /\ tlv_ret' = IF tlv_pos = tlv_len THEN "0" ELSE "-1"
    /\ UNCHANGED <<tlv_msg, tlv_len, tlv_pos, tlv_out, tlv_listed>>

WalkOverrun ==
    /\ tlv_ret = "walking" /\ tlv_pos + 8 <= tlv_len /\ Overrun
    /\ tlv_ret' = "-1"
    /\ UNCHANGED <<tlv_msg, tlv_len, tlv_pos, tlv_out, tlv_listed>>

\* One entry; the callback may refuse it.
WalkEntry ==
    /\ tlv_ret = "walking" /\ tlv_pos + 8 <= tlv_len /\ ~Overrun
    /\ LET r == Callback(Key, tlv_pos + 8, Size) IN
       /\ tlv_out' = r.fields
       /\ tlv_listed' = tlv_listed \cup r.chans
       /\ IF r.ok THEN tlv_pos' = ValueEnd - BodyAt /\ tlv_ret' = tlv_ret
          ELSE tlv_ret' = "-1" /\ tlv_pos' = tlv_pos
    /\ UNCHANGED <<tlv_msg, tlv_len>>

---------------------------------------------------------------------------
Field == {"tempo", "beat_origin", "time_origin", "session", "is_playing",
          "beats", "timestamp", "mep4_addr", "mep4_port", "mep6_addr",
          "mep6_port", "aep4_addr", "aep4_port", "aep6_addr", "aep6_port",
          "ping_ht", "peer_name", "channel_id"}

TlvInit ==
    /\ tlv_msg = "request" /\ tlv_len = 0 /\ tlv_pos = 0
    /\ tlv_out = [f \in Field |-> "old"]
    /\ tlv_listed = {}
    /\ tlv_ret = "none"

TlvNext == Transfer \/ WalkEnd \/ WalkOverrun \/ WalkEntry

TlvSpec == TlvInit /\ [][TlvNext]_tlvVars

---------------------------------------------------------------------------
(* Properties *)

\* The entries that arrived whole, up to the first that this version refuses.
Arrived == {i \in DOMAIN Entries(tlv_msg) :
               /\ Len(FlattenSeq(SubSeq(Entries(tlv_msg), 1, i))) <= tlv_len
               /\ tlv_msg = "other" => i < 3}

\* The fields that an entry brings and that the receiver keeps.
Brings(i) == {Entries(tlv_msg)[i][x].f : x \in 9 .. Len(Entries(tlv_msg)[i])}
             \ (IF tlv_msg \in Announcement THEN {"session"} ELSE {})

\* tlv.c:34-46, link.c:73-130 and 177-223, link_audio.c:110-153 and 300-369.
\* However much of a message arrives, and whatever another version has added
\* or changed, the receiver ends with exactly the fields and channels of the
\* entries that arrived whole, none of them torn, and with 0 only if the
\* body ended with an entry.
DecodedAsSent ==
    tlv_ret \in {"0", "-1"} =>
        /\ tlv_out = [f \in Field |-> IF \E i \in Arrived : f \in Brings(i)
                                      THEN "new" ELSE "old"]
        /\ tlv_listed = IF tlv_msg \in Announcement /\ 3 \in Arrived
                        THEN ChannelNo ELSE {}
        /\ tlv_ret = "0" =>
             tlv_len \in {Len(FlattenSeq(SubSeq(Entries(tlv_msg), 1, i))) :
                             i \in Arrived \cup {0}}

\* tlv.h:58-60 "the caller is expected to know the buffer is large enough
\* (LINK_MAX_MSG_*)".  With the 20 bytes of the headers a message fits the
\* buffer it is written to.
MessageFits ==
    20 + Len(Buf) <= IF tlv_msg \in Announcement \cup {"request"} THEN MaxAudio
                     ELSE MaxDiscovery

=============================================================================
