--------------------------- MODULE MCFastRuntime ----------------------------
(* Three markets for model checking the authoritative Fast PAPER runtime.   *)
EXTENDS FastRuntime

CONSTANTS m1, m2, m3
=============================================================================
