--------------------------- MODULE PaperCampaign ----------------------------
(***************************************************************************)
(* The paper campaign service (shreks_brain/observer_campaign/runtime.py,  *)
(* risk_control/paper_runtime.py): a process that, again and again, reads  *)
(* the clock and the operator's controls, restores the paper loop from its *)
(* last checkpoint, runs one cycle, records the evidence of what was booked*)
(* in a file, and then saves the next checkpoint in the database.  It may  *)
(* crash between any two of these, and is restarted.                       *)
(*                                                                         *)
(* The variables of PaperLoop are the checkpoint: what a restart restores. *)
(* The operator's flags change under the process's feet, as OperatorControls*)
(* allows.                                                                 *)
(*                                                                         *)
(* Evidence is a set of [id, content]: an execution is identified by its   *)
(* sequence number in the journal, a closure by its position.  Entry       *)
(* provenance is left out (its content follows from its identity), and so  *)
(* are orphan costs: no quote of the campaign fails after submission.      *)
(***************************************************************************)
EXTENDS PaperLoop

\* What controls, [halt, kill], make of candidates and of exit observations.
OverlaidCandidates(list, c) ==
    [n \in DOMAIN list |-> [list[n] EXCEPT !.approved = @ /\ ~c.halt /\ ~c.kill]]
OverlaidObservation(o, c) == [o EXCEPT !.halt = @ \/ c.kill]
OverlaidObservations(observations, c) ==
    [id \in DOMAIN observations |->
        IF observations[id] = None THEN None ELSE OverlaidObservation(observations[id], c)]

Controls == [halt : BOOLEAN, kill : BOOLEAN]

\* The overlay gives a cycle that the loop may be given, and the loop's bound
\* on its cycles does not refuse those of the service.
ASSUME OverlayAssumption ==
    /\ MinStep <= 1
    /\ \A c \in Controls :
         /\ \A list \in CandidateLists : OverlaidCandidates(list, c) \in CandidateLists
         /\ \A o \in Observations : OverlaidObservation(o, c) \in Observations

VARIABLES
    halt,      \* halt_new_entries in the control file
    kill,      \* kill_switch_active in the control file
    readable,  \* whether the control file can be read and decoded
    pc,        \* where the process is: down, idle, ready, computed, recorded
    controls,  \* the controls this cycle read: [halt, kill]
    asOf,      \* the timestamp this cycle read
    working,   \* the loop state this cycle computed, or None
    evidence   \* the evidence file

checkpoint == <<ledger, managed, entry, lastCycle>>
file == <<halt, kill, readable>>
memory == <<pc, controls, asOf, working>>
campaignVars == <<checkpoint, file, memory, evidence>>

Operator == INSTANCE OperatorControls

NoControls == [halt |-> FALSE, kill |-> FALSE]

CampaignInit ==
    /\ Init /\ Operator!Init
    /\ readable = TRUE
    /\ pc = "idle" /\ controls = NoControls /\ asOf = 0 /\ working = None
    /\ evidence = {}

-----------------------------------------------------------------------------
(* The operator and the file system.                                       *)

Operate ==
    /\ readable /\ Operator!Next
    /\ UNCHANGED <<checkpoint, readable, memory, evidence>>

LoseOrRepairFile ==
    /\ readable' = ~readable
    /\ UNCHANGED <<checkpoint, halt, kill, memory, evidence>>

-----------------------------------------------------------------------------
(* The process.                                                            *)

\* A control file that cannot be read halts entries and forces no exit.
CurrentControls ==
    IF readable THEN [halt |-> halt, kill |-> kill]
                ELSE [halt |-> TRUE, kill |-> FALSE]

\* The clock and the controls are read.  A timestamp before the restored state,
\* or equal to the initial one, fails the cycle and ends the process; one equal
\* to a saved cycle's is a completed cycle's replay and changes nothing.
Begin(at) ==
    /\ pc = "idle"
    /\ pc' = IF at < lastCycle \/ (at = lastCycle /\ lastCycle = 0) THEN "down"
             ELSE IF at = lastCycle THEN "idle" ELSE "ready"
    /\ controls' = CurrentControls
    /\ asOf' = at
    /\ UNCHANGED <<checkpoint, file, working, evidence>>

\* Mutant: the overlay looks at the kill switch alone.
OverlayKillOnly(cycle) ==
    [cycle EXCEPT
        !.candidates = OverlaidCandidates(@, [controls EXCEPT !.halt = FALSE]),
        !.observations = OverlaidObservations(@, controls)]

\* apply_operator_controls_to_paper_cycle: what was read at the start of the
\* cycle is laid over its candidates and its exit observations.
Overlaid(cycle) ==
    [cycle EXCEPT
        !.candidates = OverlaidCandidates(@, controls),
        !.observations = OverlaidObservations(@, controls)]

\* The cycle is assembled from the observer's database and run in memory.
Compute(cycle) ==
    /\ pc = "ready"
    /\ working' = RunPaperCycle(State, Overlaid(cycle))
    /\ pc' = "computed"
    /\ UNCHANGED <<checkpoint, file, controls, asOf, evidence>>

\* What the cycle booked: an execution for every new journal entry with a
\* position, a closure for every position it closed.
Captured(before, after) ==
    { [id |-> <<"EXECUTION", n>>, content |-> after.entries[n]] :
        n \in {k \in DOMAIN after.entries \ DOMAIN before.entries :
                   after.entries[k].position # None} } \cup
    { [id |-> <<"CLOSURE", after.positions[n].id>>,
       content |-> after.positions[n]] :
        n \in {k \in DOMAIN after.positions :
                 /\ after.positions[k].state = "CLOSED"
                 /\ k \in DOMAIN before.positions => before.positions[k].state = "OPEN"} }

\* the same identity is stored with different content
Conflicting(stored, captured) ==
    \E s \in stored, c \in captured : s.id = c.id /\ s.content # c.content

\* record_capture merges and replaces the file atomically, or raises and ends
\* the process.
RecordEvidence ==
    LET captured == Captured(ledger, working.ledger)
    IN  /\ pc = "computed"
        /\ IF Conflicting(evidence, captured)
           THEN pc' = "down" /\ evidence' = evidence
           ELSE pc' = "recorded" /\ evidence' = evidence \cup captured
        /\ working' = IF pc' = "down" THEN None ELSE working
        /\ UNCHANGED <<checkpoint, file, controls, asOf>>

\* Mutant: the checkpoint is saved before the evidence is recorded.
SaveCheckpointFirst ==
    /\ pc \in {"computed", "recorded"}
    /\ ledger' = working.ledger /\ managed' = working.managed
    /\ entry' = working.entry /\ lastCycle' = working.lastCycle
    /\ working' = None /\ pc' = "idle"
    /\ UNCHANGED <<file, controls, asOf, evidence>>

\* Mutant: the exit states and the pending exits are not saved.
SaveCheckpointWithoutExits ==
    /\ pc = "recorded"
    /\ ledger' = working.ledger /\ managed' = managed
    /\ entry' = working.entry /\ lastCycle' = working.lastCycle
    /\ working' = None /\ pc' = "idle"
    /\ UNCHANGED <<file, controls, asOf, evidence>>

\* One row, the next sequence number, in one transaction.
SaveCheckpoint ==
    /\ pc = "recorded"
    /\ ledger' = working.ledger /\ managed' = working.managed
    /\ entry' = working.entry /\ lastCycle' = working.lastCycle
    /\ working' = None /\ pc' = "idle"
    /\ UNCHANGED <<file, controls, asOf, evidence>>

Crash ==
    /\ pc # "down"
    /\ pc' = "down" /\ working' = None
    /\ UNCHANGED <<checkpoint, file, controls, asOf, evidence>>

\* systemd starts the service again; it restores the latest checkpoint.
Restart ==
    /\ pc = "down"
    /\ pc' = "idle"
    /\ UNCHANGED <<checkpoint, file, controls, asOf, working, evidence>>

Environment == Operate \/ LoseOrRepairFile \/ Crash

Process ==
    \/ \E at \in {t \in 0..Horizon : t >= lastCycle - 1} : Begin(at)
    \/ \E candidates \in CandidateLists,
          kinds \in [Mints -> QuoteKinds \cup {None}],
          observations \in [DOMAIN managed -> Observations \cup {None}] :
              Compute(CycleInput(asOf, candidates, kinds, observations))
    \/ RecordEvidence
    \/ SaveCheckpoint
    \/ Restart

CampaignSpec == CampaignInit /\ [][Environment \/ Process]_campaignVars

-----------------------------------------------------------------------------
(* Properties.                                                             *)

\* A cycle in memory is newer than the checkpoint it started from, and only a
\* cycle that is computed is recorded or saved.
CampaignTypeOK ==
    /\ pc \in {"down", "idle", "ready", "computed", "recorded"}
    /\ kill => halt
    /\ controls.kill => controls.halt
    /\ working # None => pc \in {"computed", "recorded"}
    /\ pc \in {"computed", "recorded"} => working.lastCycle = asOf /\ asOf > lastCycle

\* However often the process crashes and wherever, the checkpoints it leaves
\* are those of a paper loop that never stopped: no cycle is half applied,
\* applied twice, or applied to anything but its predecessor.
CheckpointsAreCycles == Spec

\* Everything the saved journal books on a position, and every closed
\* position, is in the evidence with exactly the content of the checkpoint,
\* although the two are written to different files with a crash between them.
EvidenceCoversCheckpoint ==
    /\ \A n \in DOMAIN ledger.entries :
         ledger.entries[n].position # None =>
             [id |-> <<"EXECUTION", n>>, content |-> ledger.entries[n]] \in evidence
    /\ \A n \in DOMAIN ledger.positions :
         ledger.positions[n].state = "CLOSED" =>
             [id |-> <<"CLOSURE", ledger.positions[n].id>>,
              content |-> ledger.positions[n]] \in evidence

\* A cycle that read an entry halt approves nothing: whatever it buys, and
\* whatever it leaves pending, was approved by an earlier cycle.
HaltStopsApprovals ==
    [][working' # None /\ working = None /\ controls.halt =>
          /\ working'.entry \in {entry, None}
          /\ \A n \in DOMAIN working'.ledger.entries \ DOMAIN ledger.entries :
               working'.ledger.entries[n].side = "BUY" =>
                   entry # None /\ working'.ledger.entries[n].key = entry.key]_campaignVars

-----------------------------------------------------------------------------
(* What the repository says and the code does not do.                      *)

\* runner.py: "Evidence is committed before the checkpoint. E11 merge is
\* semantic and idempotent, so an interrupted checkpoint write can be safely
\* retried": the evidence of an interrupted cycle never refuses its retry.
InterruptedCheckpointRetryable ==
    pc = "computed" => ~Conflicting(evidence, Captured(ledger, working.ledger))

\* What is on disk and in memory fits together: the state has its shape, and
\* the evidence file covers every execution of the checkpoint.
CheckpointSound == CampaignTypeOK /\ EvidenceCoversCheckpoint

\* Refuted by TLC (README).  G7_OPERATOR_CONTROLS.md: the emergency kill switch
\* "blocks new entries": a cycle that read it buys nothing.
KillBlocksEntries ==
    [][working' # None /\ working = None /\ controls.kill =>
          \A n \in DOMAIN working'.ledger.entries \ DOMAIN ledger.entries :
              ~ /\ working'.ledger.entries[n].side = "BUY"
                /\ working'.ledger.entries[n].state \in Fills]_campaignVars
=============================================================================
