-------------------------- MODULE OperatorControls --------------------------
(***************************************************************************)
(* What the operator's risk control promises (docs of phase G7): two flags *)
(* that get safer at once and less safe in single steps, the kill switch   *)
(* before the entry halt.                                                  *)
(***************************************************************************)

VARIABLES
    halt,  \* halt_new_entries
    kill   \* kill_switch_active

Init == halt = FALSE /\ kill = FALSE

HaltNewEntries == halt' = TRUE /\ kill' = kill

EmergencyKill == halt' = TRUE /\ kill' = TRUE

ResetKillSwitch == kill /\ kill' = FALSE /\ halt' = TRUE

ClearEntryHalt == halt /\ ~kill /\ halt' = FALSE /\ kill' = FALSE

Next == HaltNewEntries \/ EmergencyKill \/ ResetKillSwitch \/ ClearEntryHalt

Spec == Init /\ [][Next]_<<halt, kill>>
=============================================================================
