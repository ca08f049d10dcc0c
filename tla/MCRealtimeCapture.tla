------------------------- MODULE MCRealtimeCapture --------------------------
(* Instances of the realtime lane for TLC. *)
EXTENDS RealtimeCapture

(* One transaction carries one trade, the other two. *)
MCTradesOf == [s \in Signatures |-> IF s = "a" THEN 1 ELSE 2]
=============================================================================
