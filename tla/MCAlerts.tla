------------------------------ MODULE MCAlerts ------------------------------
(* An instance of Alerts for TLC: what telemetry may publish.               *)
EXTENDS Alerts

HaltsAndProofs ==
    {<<{}, "INSUFFICIENT_EVIDENCE">>, <<{Halt}, "INSUFFICIENT_EVIDENCE">>,
     <<{Halt, Stale}, "SUFFICIENT">>, <<{}, "FAILED">>}
=============================================================================
