-------------------------------- MODULE Udp --------------------------------
(***************************************************************************)
(* The UDP layer of firmware/net.c and the dispatch of main.c: a received  *)
(* datagram is held while the handler of its protocol runs, which may      *)
(* answer; every datagram that is sent takes a packet buffer and a         *)
(* one-shot PCB of lwIP's small pools (lwipopts.h), and either may be      *)
(* exhausted.                                                              *)
(*                                                                         *)
(* lwIP is external: allocation fails only when its pool is empty, a       *)
(* buffer goes back to its pool when its last reference is dropped, and    *)
(* address resolution may keep a reference to what was sent.               *)
(***************************************************************************)
EXTENDS Integers, FiniteSets

CONSTANTS
    Datagram,     \* [len, magic] that may arrive
    MaxLen,       \* sizeof(buf) of udp_rx_handler
    MagicLen,     \* the 8 of on_udp_rx
    Pcbs,         \* MEMP_NUM_UDP_PCB
    Ram,          \* sending buffers for which MEM_SIZE has room
    Pool,         \* PBUF_POOL_SIZE
    ArpEntries,   \* unresolved addresses; each keeps one datagram
    MaxSends      \* bound: datagrams that one tick sends

ASSUME UdpAssumption ==
    /\ Datagram \subseteq [len: Nat, magic: {"_asdp_v", "_link_v", "chnnlsv", "other"}]
    /\ Pcbs \in Nat \ {0} /\ Ram \in Nat /\ Pool \in Nat
    /\ MaxLen \in Nat /\ MagicLen \in Nat /\ ArpEntries \in Nat /\ MaxSends \in Nat

VARIABLES
    others,       \* PCBs of lwIP itself and s_rx_pcb
    pcbs,         \* PCBs in use
    refs,         \* references to each sending buffer
    arp,          \* the ones that address resolution keeps
    pool,         \* receive buffers in use
    held,         \* is a received datagram being handled
    sends,        \* datagrams the handler or tick still sends
    udp_pc,       \* inside udp_tx
    tx_p          \* its p

udpVars == <<others, pcbs, refs, arp, pool, held, sends, udp_pc, tx_p>>
lwip == <<others, pcbs, refs, arp, pool>>

Pbuf == 1 .. Ram
FreePbufs == {b \in Pbuf : refs[b] = 0}
Freed(b) == [refs EXCEPT ![b] = @ - 1]

---------------------------------------------------------------------------
(* Receiving *)

\* on_udp_rx: how many datagrams the handlers of this one may send.  An
\* ALIVE is answered and may start a measurement; a ping or a pong, and an
\* announcement, lead to one datagram.
Answers(d) ==
    CASE d.len < MagicLen -> {0}
      [] d.magic = "_asdp_v" -> 0 .. 2
      [] d.magic \in {"_link_v", "chnnlsv"} -> 0 .. 1
      [] OTHER -> {0}

\* udp_rx_handler up to the return of the callback's own decisions; a
\* datagram that exceeds the buffer is not looked at.
UdpRx(d) ==
    /\ ~held /\ sends = 0 /\ udp_pc = "idle" /\ pool < Pool
    /\ pool' = pool + 1 /\ held' = TRUE
    /\ sends' \in IF d.len <= MaxLen THEN Answers(d) ELSE {0}
    /\ UNCHANGED <<others, pcbs, refs, arp, udp_pc, tx_p>>

\* Its end: pbuf_free, on every path.
UdpRxDone ==
    /\ held /\ sends = 0 /\ udp_pc = "idle"
    /\ pool' = pool - 1 /\ held' = FALSE
    /\ UNCHANGED <<others, pcbs, refs, arp, sends, udp_pc, tx_p>>

\* A tick that sends: ALIVE over both protocols, pings, announcements.
Tick ==
    /\ ~held /\ sends = 0 /\ udp_pc = "idle"
    /\ sends' \in 1 .. MaxSends
    /\ UNCHANGED <<lwip, held, udp_pc, tx_p>>

---------------------------------------------------------------------------
(* udp_tx *)

\* The end of udp_tx; no caller looks at the result.
UdpTxReturns == sends' = sends - 1 /\ udp_pc' = "idle"

PbufAlloc ==
    /\ sends > 0 /\ udp_pc = "idle"
    /\ IF FreePbufs = {} THEN UdpTxReturns /\ UNCHANGED <<refs, tx_p>>
       ELSE /\ tx_p' = CHOOSE b \in FreePbufs : TRUE
            /\ refs' = [refs EXCEPT ![tx_p'] = 1]
            /\ udp_pc' = "new" /\ sends' = sends
    /\ UNCHANGED <<others, pcbs, arp, pool, held>>

\* Slip: without a PCB the buffer is forgotten.
UdpNewForget ==
    /\ udp_pc = "new"
    /\ IF pcbs = Pcbs THEN UdpTxReturns /\ UNCHANGED <<pcbs, refs>>
       ELSE pcbs' = pcbs + 1 /\ udp_pc' = "send" /\ UNCHANGED <<refs, sends>>
    /\ UNCHANGED <<others, arp, pool, held, tx_p>>

UdpNew ==
    /\ udp_pc = "new"
    /\ IF pcbs = Pcbs THEN UdpTxReturns /\ refs' = Freed(tx_p) /\ UNCHANGED pcbs
       ELSE pcbs' = pcbs + 1 /\ udp_pc' = "send" /\ UNCHANGED <<refs, sends>>
    /\ UNCHANGED <<others, arp, pool, held, tx_p>>

\* udp_sendto: sent or refused, or kept until the address is known, with one
\* datagram for each unknown address: a newer one takes the place of an older.
UdpSendto ==
    /\ udp_pc = "send" /\ udp_pc' = "remove"
    /\ \/ UNCHANGED <<refs, arp>>
       \/ /\ Cardinality(arp) < ArpEntries
          /\ arp' = arp \cup {tx_p} /\ refs' = [refs EXCEPT ![tx_p] = @ + 1]
       \/ \E b \in arp :
            /\ arp' = (arp \ {b}) \cup {tx_p}
            /\ refs' = [refs EXCEPT ![b] = @ - 1, ![tx_p] = @ + 1]
    /\ UNCHANGED <<others, pcbs, pool, held, sends, tx_p>>

\* udp_remove and pbuf_free, whatever udp_sendto said.
UdpRemove ==
    /\ udp_pc = "remove"
    /\ pcbs' = pcbs - 1 /\ refs' = Freed(tx_p) /\ UdpTxReturns
    /\ UNCHANGED <<others, arp, pool, held, tx_p>>

\* The address is known or given up.
ArpDone(b) ==
    /\ b \in arp
    /\ arp' = arp \ {b} /\ refs' = Freed(b)
    /\ UNCHANGED <<others, pcbs, pool, held, sends, udp_pc, tx_p>>

---------------------------------------------------------------------------
\* net_init; how many PCBs lwIP's own services take depends on its options.
UdpInit ==
    /\ others \in 1 .. Pcbs /\ pcbs = others
    /\ refs = [b \in Pbuf |-> 0] /\ arp = {} /\ pool = 0
    /\ held = FALSE /\ sends = 0 /\ udp_pc = "idle" /\ tx_p = 0

UdpNext ==
    \/ \E d \in Datagram : UdpRx(d)
    \/ UdpRxDone \/ Tick
    \/ PbufAlloc \/ UdpNew \/ UdpSendto \/ UdpRemove
    \/ \E b \in Pbuf : ArpDone(b)

UdpSpec == UdpInit /\ [][UdpNext]_udpVars

---------------------------------------------------------------------------
(* Properties *)

\* net.c:54-68 and 123-139.  Whatever fails on the way, between two handlers
\* every PCB and every buffer is back in its pool, except the buffers that
\* address resolution keeps, and those are never given out again before.
NothingLeaks ==
    /\ \A b \in arp : refs[b] > 0
    /\ ~held /\ sends = 0 /\ udp_pc = "idle" =>
        /\ pcbs = others /\ pool = 0
        /\ \A b \in Pbuf : refs[b] = IF b \in arp THEN 1 ELSE 0

=============================================================================
