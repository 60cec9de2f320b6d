--------------------------- MODULE MCMeasurement ---------------------------
(***************************************************************************)
(* Two sessions whose ghost clocks are far apart; the budget and the       *)
(* threshold are scaled down together, so that the samples of retried      *)
(* pings stay a minority as they do with 5 pings and 100 samples.          *)
(***************************************************************************)
EXTENDS Measurement

CONSTANTS sa, sb

TwoOffsets == [s \in {sa, sb} |-> IF s = sa THEN 20 ELSE -15]
=============================================================================
