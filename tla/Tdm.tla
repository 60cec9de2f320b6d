-------------------------------- MODULE Tdm --------------------------------
(***************************************************************************)
(* One physical port of litex_soc/tdm.py: the serialiser and deserialiser  *)
(* that run in the codec's clock domain, the frame counter, and the main   *)
(* loop that polls it (firmware/main.c, tdm.c).                            *)
(*                                                                         *)
(* A word is the sequence of its bits, most significant first.  A step of  *)
(* the serialiser is one period of BCK; one step of the main loop is a     *)
(* poll, a write of link_audio_on_tdm_frame or the clearing of the flag.   *)
(* The sample values that the handler reads are left out.  The codec       *)
(* begins a word with each slot, as FS tells it to.                        *)
(***************************************************************************)
EXTENDS Integers, Sequences

CONSTANTS
    Width,        \* SLOT_WIDTH
    Channels,     \* CHANNELS
    Word,         \* words that the codec and the firmware send
    PerFrame,     \* what a frame may add to the counter: the pulse is not
                  \* shortened to one cycle of the system clock
    FrameWrap     \* 2^32

Bit == {0, 1}
Channel == 0 .. Channels - 1
Silence == [i \in 1 .. Width |-> 0]

ASSUME TdmAssumption ==
    /\ Width \in Nat \ {0} /\ Channels \in Nat \ {0}
    /\ Word \subseteq [1 .. Width -> Bit] /\ Word # {}
    /\ FrameWrap \in Nat /\ PerFrame \subseteq 1 .. FrameWrap - 1

VARIABLES
    tx_samples,   \* registers that the CPU writes
    tx_hold,      \* the same in the codec's domain
    bit_idx, slot, tdm_shift, rx_shift, sdout, rx_lat,
    sdin_r,       \* SDIN behind its synchroniser
    frame_cnt,
    tdm_pc, s_last_count,
    codec,        \* the word that the codec sends in this slot
    loaded,       \* history: the word whose turn it is on SDOUT
    wire,         \* history: the last bits on SDOUT, as many as a slot has
    fresh         \* history: has a frame ended since the flag was cleared

serdes == <<tx_hold, bit_idx, slot, tdm_shift, rx_shift, sdout, rx_lat,
            sdin_r, frame_cnt, codec, loaded, wire>>
tdmVars == <<serdes, tx_samples, tdm_pc, s_last_count, fresh>>

---------------------------------------------------------------------------
(* The serialiser and deserialiser *)

\* The bits cross the clock domains one by one: while a register changes,
\* the other side may see any mixture of its old and its new bits.
Crossing(old, new) == {[c \in Channel |-> [i \in 1 .. Width |->
                           IF <<c, i>> \in late THEN old[c][i] ELSE new[c][i]]] :
                       late \in SUBSET {x \in Channel \X (1 .. Width) :
                                           old[x[1]][x[2]] # new[x[1]][x[2]]}}

ShiftIn(w, b) == Append(Tail(w), b)

\* The bit that is put on the wire: the top bit of the register at the start
\* of a slot, then the top bit of the shifter.
Sdout == IF bit_idx = 0 THEN tx_hold[slot][1] ELSE tdm_shift[1]

LastBit == bit_idx = Width - 1
LastSlot == slot = Channels - 1

\* One BCK period.  The two flip-flops of the synchroniser take two cycles
\* of the audio clock, which are one period: the bit that is shifted in is the
\* one that the codec sent in the period before.
BckPeriod ==
    /\ tx_hold' \in Crossing(tx_hold, tx_samples)
    /\ sdout' = Sdout
    /\ wire' = ShiftIn(wire, Sdout)
    /\ tdm_shift' = IF bit_idx = 0 THEN tx_hold[slot] ELSE ShiftIn(tdm_shift, 0)
    /\ loaded' = IF bit_idx = 0 THEN tx_hold[slot] ELSE loaded
    /\ sdin_r' = codec[bit_idx + 1]
    /\ rx_shift' = ShiftIn(rx_shift, sdin_r)
    /\ bit_idx' = (bit_idx + 1) % Width
    /\ \/ /\ LastBit
          /\ rx_lat' = [rx_lat EXCEPT ![slot] = ShiftIn(rx_shift, sdin_r)]
          /\ slot' = (slot + 1) % Channels
          /\ codec' \in Word
          /\ IF LastSlot
             THEN \E k \in PerFrame : frame_cnt' = (frame_cnt + k) % FrameWrap
             ELSE frame_cnt' = frame_cnt
       \/ ~LastBit /\ UNCHANGED <<rx_lat, slot, codec, frame_cnt>>
    /\ fresh' = (fresh \/ (LastBit /\ LastSlot))
    /\ UNCHANGED <<tx_samples, tdm_pc, s_last_count>>

---------------------------------------------------------------------------
(* The main loop *)

\* tdm_frame_pending.
Poll ==
    /\ tdm_pc = "poll" /\ frame_cnt # s_last_count
    /\ tdm_pc' = "frame"
    /\ UNCHANGED <<serdes, tx_samples, s_last_count, fresh>>

\* tdm_write_tx: the sample goes to the register of its channel.
TdmWriteTx(c, w) == tx_samples' = [tx_samples EXCEPT ![c] = w]

\* link_audio_on_tdm_frame: every subscription of the port that has a sample
\* feeds its slot, one write after the other, and two may have the same slot,
OnTdmFrame ==
    /\ tdm_pc = "frame"
    /\ \E w \in Word, c \in Channel : TdmWriteTx(c, w)
    /\ UNCHANGED <<serdes, tdm_pc, s_last_count, fresh>>

\* until it returns.
FrameDone ==
    /\ tdm_pc = "frame" /\ tdm_pc' = "clear"
    /\ UNCHANGED <<serdes, tx_samples, s_last_count, fresh>>

\* Slip: the count is not remembered.
ClearFramePendingNot ==
    /\ tdm_pc = "clear" /\ tdm_pc' = "poll"
    /\ fresh' = FALSE
    /\ UNCHANGED <<serdes, tx_samples, s_last_count>>

\* tdm_clear_frame_pending reads the counter again: a frame that ended since
\* the poll is dropped.
ClearFramePending ==
    /\ tdm_pc = "clear" /\ tdm_pc' = "poll"
    /\ s_last_count' = frame_cnt
    /\ fresh' = FALSE
    /\ UNCHANGED <<serdes, tx_samples>>

---------------------------------------------------------------------------
TdmInit ==
    /\ tx_samples = [c \in Channel |-> Silence]
    /\ tx_hold = [c \in Channel |-> Silence]
    /\ bit_idx = 0 /\ slot = 0
    /\ tdm_shift = Silence /\ rx_shift = Silence /\ sdout = 0
    /\ rx_lat = [c \in Channel |-> Silence]
    /\ frame_cnt = 0
    /\ tdm_pc = "poll" /\ s_last_count = 0
    /\ codec \in Word /\ sdin_r = 0
    /\ loaded = Silence /\ wire = Silence
    /\ fresh = FALSE

TdmNext == BckPeriod \/ Poll \/ OnTdmFrame \/ FrameDone \/ ClearFramePending

TdmSpec == TdmInit /\ [][TdmNext]_tdmVars

---------------------------------------------------------------------------
(* Properties *)

\* tdm.py:95-97 "loaded from tx_hold[slot] at the start of each slot, and
\* shift it out MSB-first", docs/architecture.md:127: when a slot is over,
\* its word has gone out, bit for bit.
WordGoesOut == bit_idx = 0 => wire = loaded

\* main.c:98-103.  The frame handler never runs twice for one frame.
HandledOnce == tdm_pc = "frame" => fresh

=============================================================================
