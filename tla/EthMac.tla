------------------------------- MODULE EthMac -------------------------------
(***************************************************************************)
(* The Ethernet driver of firmware/netif_litex.c on the slots of LiteEth's *)
(* MAC.  The MAC is external and modelled by what the driver relies on:    *)
(* its reader sends the slots in the order of the start commands and is    *)
(* ready while it has room for another command, one per slot; its writer   *)
(* fills the slots in turn, drops a frame when all of them are pending,    *)
(* and an acknowledgement releases the oldest.                             *)
(*                                                                         *)
(* Frames are numbered.  lwIP may answer a frame while it is handed over,  *)
(* so an output may run inside an input, before the acknowledgement; the   *)
(* MAC goes on between any two steps.                                      *)
(***************************************************************************)
EXTENDS Integers, Sequences

CONSTANTS
    TxSlots, RxSlots,   \* ETHMAC_TX_SLOTS, ETHMAC_RX_SLOTS
    Big,                \* outgoing frames that exceed ETHMAC_SLOT_SIZE
    MaxFrame            \* bound: frame numbers, reused in turn

ASSUME EthAssumption ==
    /\ TxSlots \in Nat \ {0} /\ RxSlots \in Nat \ {0}
    /\ MaxFrame \in Nat /\ MaxFrame > TxSlots + 1 /\ MaxFrame > RxSlots + 1
    /\ Big \subseteq 1 .. MaxFrame

VARIABLES
    s_tx_slot, txbuf, out_pc, out_frame,   \* low_level_output
    commands,                              \* the MAC's reader
    rxbuf, wr_slot, stored, in_frame,      \* the MAC's writer
    in_pc, rx_slot, p, expected            \* netif_litex_input; expected is
                                           \* history: the frame of the event

output == <<s_tx_slot, txbuf, out_pc, out_frame, commands>>
input == <<rxbuf, wr_slot, stored, in_frame, in_pc, rx_slot, p, expected>>
ethVars == <<output, input>>

NextFrame(f) == (f % MaxFrame) + 1

---------------------------------------------------------------------------
(* low_level_output *)

Output ==
    /\ out_pc = "idle" /\ out_pc' = "spin" /\ in_pc # "copy"
    /\ out_frame' = NextFrame(out_frame)
    /\ UNCHANGED <<s_tx_slot, txbuf, commands, input>>

\* Slip: the driver does not wait.
ReaderReadyUnasked == TRUE

ReaderReady == Len(commands) < TxSlots

Spin ==
    /\ out_pc = "spin" /\ ReaderReady
    /\ out_pc' = "copy"
    /\ UNCHANGED <<s_tx_slot, txbuf, out_frame, commands, input>>

\* The pbufs are copied one after the other; ERR_BUF at the first that does
\* not fit, with the earlier ones already in the slot.
CopyOut ==
    /\ out_pc = "copy"
    /\ txbuf' = [txbuf EXCEPT ![s_tx_slot] = out_frame]
    /\ out_pc' = IF out_frame \in Big THEN "idle" ELSE "start"
    /\ UNCHANGED <<s_tx_slot, out_frame, commands, input>>

Start ==
    /\ out_pc = "start" /\ out_pc' = "idle"
    /\ commands' = Append(commands, [slot |-> s_tx_slot, frame |-> out_frame])
    /\ s_tx_slot' = (s_tx_slot + 1) % TxSlots
    /\ UNCHANGED <<txbuf, out_frame, input>>

\* The MAC has sent the oldest slot.
Transmitted ==
    /\ commands # <<>>
    /\ commands' = Tail(commands)
    /\ UNCHANGED <<s_tx_slot, txbuf, out_pc, out_frame, input>>

---------------------------------------------------------------------------
(* netif_litex_input *)

\* A frame arrives; without a free slot the MAC drops it.
Arrive ==
    /\ in_frame' = NextFrame(in_frame)
    /\ \/ /\ Len(stored) < RxSlots
          /\ rxbuf' = [rxbuf EXCEPT ![wr_slot] = in_frame']
          /\ stored' = Append(stored, [slot |-> wr_slot, frame |-> in_frame'])
          /\ wr_slot' = (wr_slot + 1) % RxSlots
       \/ Len(stored) = RxSlots /\ UNCHANGED <<rxbuf, stored, wr_slot>>
    /\ UNCHANGED <<in_pc, rx_slot, p, expected, output>>

\* An event is pending: which slot.
ReadSlot ==
    /\ in_pc = "idle" /\ out_pc = "idle" /\ stored # <<>>
    /\ in_pc' = "copy"
    /\ rx_slot' = Head(stored).slot
    /\ expected' = Head(stored).frame
    /\ UNCHANGED <<rxbuf, wr_slot, stored, in_frame, p, output>>

\* pbuf_alloc, which may fail, and the copy to lwIP.
CopyIn ==
    /\ in_pc = "copy" /\ in_pc' = "ack"
    /\ p' \in {0, rxbuf[rx_slot]}
    /\ UNCHANGED <<rxbuf, wr_slot, stored, in_frame, rx_slot, expected, output>>

AckEvent ==
    /\ in_pc = "ack" /\ out_pc = "idle" /\ in_pc' = "idle"
    /\ stored' = Tail(stored)
    /\ UNCHANGED <<rxbuf, wr_slot, in_frame, rx_slot, p, expected, output>>

---------------------------------------------------------------------------
\* low_level_init.
EthInit ==
    /\ s_tx_slot = 0 /\ txbuf = [s \in 0 .. TxSlots - 1 |-> 0]
    /\ out_pc = "idle" /\ out_frame = 0 /\ commands = <<>>
    /\ rxbuf = [s \in 0 .. RxSlots - 1 |-> 0]
    /\ wr_slot = 0 /\ stored = <<>> /\ in_frame = 0
    /\ in_pc = "idle" /\ rx_slot = 0 /\ p = 0 /\ expected = 0

EthNext ==
    \/ Output \/ Spin \/ CopyOut \/ Start \/ Transmitted
    \/ Arrive \/ ReadSlot \/ CopyIn \/ AckEvent

EthSpec == EthInit /\ [][EthNext]_ethVars

---------------------------------------------------------------------------
(* Properties *)

\* netif_litex.c:64-89 and 126-153.  A transmit slot that waits to be sent, or
\* is being sent, still holds the frame it was started with, also after an
\* oversized frame was refused halfway; and what lwIP gets from a receive slot
\* is the frame of the event, not one that arrived while it was copied.
SlotsKept ==
    /\ \A i \in DOMAIN commands : txbuf[commands[i].slot] = commands[i].frame
    /\ in_pc \in {"idle", "ack"} => p \in {0, expected}

=============================================================================
