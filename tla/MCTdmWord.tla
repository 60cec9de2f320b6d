----------------------------- MODULE MCTdmWord -----------------------------
(***************************************************************************)
(* One slot of two bits, and two words that differ in the top bit only.    *)
(***************************************************************************)
EXTENDS Tdm

Words == {<<0, 0>>, <<1, 0>>}
=============================================================================
