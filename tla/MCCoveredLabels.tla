--------------------------- MODULE MCCoveredLabels ---------------------------
(* An instance of the labelling commands for TLC. *)
EXTENDS CoveredLabels, TLC

CONSTANTS t1, t2

MCTrades == {t1, t2}
MCMarketOf == [t \in MCTrades |-> "coin"]
Same == Permutations({t1, t2})
=============================================================================
