---------------------------- MODULE JitterBuffer ----------------------------
(***************************************************************************)
(* The jitter ring of one subscription (firmware/link_audio.c): a packet   *)
(* of samples is written by handle_audio_buffer, one sample per TDM frame  *)
(* is read by link_audio_on_tdm_frame.  The counters jbuf_w and jbuf_r are *)
(* never reduced; they wrap at the width of uint32_t, which the stream     *)
(* reaches after a day.                                                    *)
(***************************************************************************)
EXTENDS Integers, Sequences

CONSTANTS
    Sample,       \* 16-bit samples
    Zero,         \* what memset leaves in the ring and the TDM slot
    LEN,          \* LINK_AUDIO_JBUF_LEN
    Wrap,         \* 2^32
    MaxFrames     \* bound: frames per packet

ASSUME RingAssumption ==
    /\ Zero \in Sample
    /\ LEN \in Nat \ {0} /\ Wrap \in Nat
    /\ LEN + 1 < Wrap /\ Wrap % LEN = 0
    /\ MaxFrames \in Nat

VARIABLES
    jbuf, jbuf_w, jbuf_r,
    todo,         \* frames of the packet that the handler has yet to store
    out           \* the TDM slot that the subscription feeds

vars == <<jbuf, jbuf_w, jbuf_r, todo, out>>

Packets == UNION {[1 .. n -> Sample] : n \in 0 .. MaxFrames}

\* jbuf_w - jbuf_r in uint32_t.
Fill(w, r) == (w - r) % Wrap

\* handle_audio_buffer, past its checks: the frames to store.
BufferPacket ==
    /\ todo = <<>>
    /\ todo' \in Packets
    /\ UNCHANGED <<jbuf, jbuf_w, jbuf_r, out>>

\* Slip: one sample is given up although the ring is just full.
OvertakenEarly(w, r) == IF Fill(w, r) >= LEN THEN (w - LEN + 1) % Wrap ELSE r

\* The writer has lapped the reader: the oldest sample is gone.
Overtaken(w, r) == IF Fill(w, r) > LEN THEN (w - LEN) % Wrap ELSE r

\* One turn of its loop.
StoreFrame ==
    LET w == (jbuf_w + 1) % Wrap IN
    /\ todo # <<>>
    /\ jbuf' = [jbuf EXCEPT ![jbuf_w % LEN] = Head(todo)]
    /\ jbuf_w' = w
    /\ jbuf_r' = Overtaken(w, jbuf_r)
    /\ todo' = Tail(todo)
    /\ UNCHANGED out

\* link_audio_on_tdm_frame: an empty ring leaves the slot as it is.  The
\* main loop never runs it inside a handler.
TdmFrame ==
    /\ todo = <<>>
    /\ jbuf_r # jbuf_w
    /\ out' = jbuf[jbuf_r % LEN]
    /\ jbuf_r' = (jbuf_r + 1) % Wrap
    /\ UNCHANGED <<jbuf, jbuf_w, todo>>

\* link_audio_subscribe reuses a freed entry: memset.
ReuseEntry ==
    /\ todo = <<>>
    /\ jbuf' = [x \in 0 .. LEN - 1 |-> Zero]
    /\ jbuf_w' = 0 /\ jbuf_r' = 0
    /\ UNCHANGED <<todo, out>>

Init ==
    /\ jbuf = [x \in 0 .. LEN - 1 |-> Zero]
    /\ jbuf_w = 0 /\ jbuf_r = 0
    /\ todo = <<>>
    /\ out = Zero

Next == BufferPacket \/ StoreFrame \/ TdmFrame \/ ReuseEntry

Spec == Init /\ [][Next]_vars

---------------------------------------------------------------------------
(* Properties *)

TypeOK ==
    /\ jbuf \in [0 .. LEN - 1 -> Sample]
    /\ jbuf_w \in 0 .. Wrap - 1
    /\ jbuf_r \in 0 .. Wrap - 1
    /\ todo \in Seq(Sample)
    /\ out \in Sample

\* link_audio.c:472-474.  The ring never claims more samples than it holds,
\* before and after the counters wrap.
FillBounded == Fill(jbuf_w, jbuf_r) <= LEN

\* The samples a ring b holds between its read and its write position.
Contents(b, w, r) ==
    [x \in 1 .. Fill(w, r) |-> b[((r + x - 1) % Wrap) % LEN]]

Queue == Contents(jbuf, jbuf_w, jbuf_r)

Fifo == INSTANCE BoundedFifo WITH Capacity <- LEN, queue <- Queue

\* link_audio.c:468-475, 556-564.  The ring is a first-in first-out queue of
\* LEN samples that drops the oldest when it is full, for as long as the
\* stream lasts: also across the wrap of the counters.
RefinesFifo == Fifo!Spec

=============================================================================
