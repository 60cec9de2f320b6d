--------------------------- MODULE MCAnnouncement ---------------------------
(***************************************************************************)
(* The announcement of a board with the four TDM ports of 16 channels that *)
(* README.md:209 builds with, under the names that link_audio_init gives   *)
(* them ("tdm0-ch00"), with the sizes of config.h.                         *)
(***************************************************************************)
EXTENDS Tlv

FourPorts == [c \in 1 .. 64 |-> 9]
=============================================================================
