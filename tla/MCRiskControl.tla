--------------------------- MODULE MCRiskControl ----------------------------
(* Two host command lines and one browser on one control file.             *)
EXTENDS RiskControl

CONSTANTS h1, h2, w1
=============================================================================
