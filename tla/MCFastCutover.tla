---------------------------- MODULE MCFastCutover ----------------------------
(* Instances of FastCutover for TLC: the releases and run ids.              *)
EXTENDS FastCutover

TwoReleases == {"r1", "r2"}
TwoFinalRuns == {"final", "final2"}
==============================================================================
