----------------------------- MODULE MCWebBody -----------------------------
(***************************************************************************)
(* One client that fetches the admin page, with the sizes of the build:    *)
(* TCP_SND_BUF of lwipopts.h against the page and the header of its        *)
(* answer.  The request is scaled.                                         *)
(***************************************************************************)
EXTENDS HttpServer

GetPage == {[hdr |-> 2, cl |-> 0, spelled |-> TRUE, path |-> "/", arg |-> ""]}
=============================================================================
