----------------------------- MODULE MCDevices -----------------------------
(***************************************************************************)
(* The layers of the network side, with lwIP between them: the Ethernet    *)
(* driver, the UDP layer, the codec of its datagrams, the audio channels,  *)
(* the HTTP server with its handlers; and the clocked cores with what the  *)
(* firmware does to their registers, and the jitter ring.  None of them    *)
(* has state of another: in a behaviour one of them moves, chosen at the   *)
(* start, and the others stay as they are.  What one would feed another is *)
(* left open in the module of the second, so nothing is lost.              *)
(*                                                                         *)
(* HTTP: a buffer of four bytes; requests that leave room, that fill it    *)
(* exactly and that exceed it in the header or in the body, and one whose  *)
(* length header has a spelling that parse_headers does not know.  One of  *)
(* the three clients sends the shortest.  Audio: two clients on a list of  *)
(* two places, and a publisher that draws a new id when it restarts.       *)
(***************************************************************************)
EXTENDS HttpServer, EthMac, Udp, Tlv, AudioChannels, GhostTime, BeatPulse,
        JitterBuffer, Tdm

CONSTANTS c1, c2, k3

VARIABLE layer    \* the one that moves

netVars == <<httpVars, ethVars, udpVars, tlvVars, audioVars>>
coreVars == <<ghostVars, pulseVars, vars, tdmVars>>
devicesVars == <<layer, netVars, coreVars>>

Req(h, n, s, p1, a) == [hdr |-> h, cl |-> n, spelled |-> s, path |-> p1, arg |-> a]

Get(p1) == Req(2, 0, TRUE, p1, "")

Requests ==
    {Get(p1) : p1 \in {"/", "status", "channels", "play", "unknown", "no line"}}
    \cup {Req(2, 1, TRUE, "tempo", "120"), Req(2, 2, TRUE, "subscribe", "0 1 id"),
          Req(2, 3, TRUE, "tempo", "120"), Req(5, 0, TRUE, "/", ""),
          Req(2, 1, FALSE, "name", "box")}

Datagrams == [len: {1, 3, 6}, magic: {"_asdp_v", "_link_v", "chnnlsv", "other"}]

NamesOfTwo == <<2, 0>>

\* A publisher that draws a new id when it restarts.
TwoBoots == <<{c1}, {c2}>>

\* Intercepts that need both words, with either sign.
Intercepts == {-3, 0, 6}

\* Slots of two bits.
Words == {<<0, 0>>, <<1, 0>>}

DevicesInit ==
    /\ layer \in {"http", "eth", "udp", "tlv", "audio", "ghost", "pulse", "ring", "tdm"}
    /\ HttpInit /\ EthInit /\ UdpInit /\ TlvInit /\ AudioInit
    /\ GhostInit /\ PulseInit /\ Init /\ TdmInit
    /\ req[k3] = Get("play")
    /\ layer # "http" => \A c \in Conn : req[c] = Get("play")
    /\ layer # "udp" => others = 1
    /\ layer # "tdm" => codec = Silence

Net(A) == A /\ UNCHANGED <<layer, coreVars>>
Core(A) == A /\ UNCHANGED <<layer, netVars>>

HttpTurn == layer = "http" /\ Net(HttpNext)
            /\ UNCHANGED <<ethVars, udpVars, tlvVars, audioVars>>
EthTurn == layer = "eth" /\ Net(EthNext)
           /\ UNCHANGED <<httpVars, udpVars, tlvVars, audioVars>>
UdpTurn == layer = "udp" /\ Net(UdpNext)
           /\ UNCHANGED <<httpVars, ethVars, tlvVars, audioVars>>
TlvTurn == layer = "tlv" /\ Net(TlvNext)
           /\ UNCHANGED <<httpVars, ethVars, udpVars, audioVars>>
AudioTurn == layer = "audio" /\ Net(AudioNext)
             /\ UNCHANGED <<httpVars, ethVars, udpVars, tlvVars>>
GhostTurn == layer = "ghost" /\ Core(GhostNext)
             /\ UNCHANGED <<pulseVars, vars, tdmVars>>
PulseTurn == layer = "pulse" /\ Core(PulseNext)
             /\ UNCHANGED <<ghostVars, vars, tdmVars>>
RingTurn == layer = "ring" /\ Core(Next)
            /\ UNCHANGED <<ghostVars, pulseVars, tdmVars>>
TdmTurn == layer = "tdm" /\ Core(TdmNext)
           /\ UNCHANGED <<ghostVars, pulseVars, vars>>

DevicesNext == HttpTurn \/ EthTurn \/ UdpTurn \/ TlvTurn \/ AudioTurn
               \/ GhostTurn \/ PulseTurn \/ RingTurn \/ TdmTurn

DevicesSpec == DevicesInit /\ [][DevicesNext]_devicesVars
=============================================================================
