------------------------------- MODULE Alerts -------------------------------
(***************************************************************************)
(* Outbound alerts: a oneshot job that a timer starts every minute.  Each  *)
(* cycle reads what the rest of the system published (telemetry, PAPER     *)
(* journal, unit states), turns what is new into events, persists the      *)
(* queue and the cursors in one file, and only then sends the queue,       *)
(* acknowledging each event with another write of the file.  Any read or   *)
(* write may fail, a message may arrive without its answer, and the job    *)
(* may be killed between any two steps; the next cycle starts from the     *)
(* file alone.                                                             *)
(***************************************************************************)
EXTENDS Naturals, Sequences, FiniteSets, SequencesExt

CONSTANTS Kinds,        \* the kinds of journal entries that are booked
          Snapshots,    \* what telemetry may publish: conditions and a proof
          MaxEntries,   \* bound: entries the PAPER journal ever holds
          MaxChanges,   \* bound: publications of telemetry and unit states
          MaxFaults     \* bound: failed reads, writes and sends, and kills

ASSUME AlertAssumption ==
    /\ Kinds \subseteq {"OPENED", "OPENED_PARTIAL", "CLOSED", "FAILED", "REDUCED"}
    /\ \A snapshot \in Snapshots :
           /\ snapshot[1] \subseteq {"GLOBAL_RISK_HALT_ACTIVE", "MARKET_DATA_STALE"}
           /\ snapshot[2] \in {"INSUFFICIENT_EVIDENCE", "SUFFICIENT", "FAILED"}
    /\ MaxEntries \in Nat \ {0} /\ MaxChanges \in Nat /\ MaxFaults \in Nat

VARIABLES journal,      \* PAPER ledger entries, by kind
          telemetry,    \* the published snapshot: conditions, proof, generation
          stopped,      \* whether a core unit is inactive
          file,         \* the alert state file, or NoFile
          queue,        \* the pending events the running cycle holds in memory
          pc,           \* the step of the running cycle
          sent,         \* history: the messages that reached the phone
          baseline,     \* history: the length of the journal at the first cycle
          haltEnded,    \* history: the halt was off since its last alert
          changes, faults
alertVars == <<journal, telemetry, stopped, file, queue, pc, sent, baseline,
              haltEnded, changes, faults>>
world == <<journal, telemetry, stopped, changes>>

Proofs == {"INSUFFICIENT_EVIDENCE", "SUFFICIENT", "FAILED"}
Halt == "GLOBAL_RISK_HALT_ACTIVE"
Stale == "MARKET_DATA_STALE"
Critical == {Halt, "CORE_RUNTIME_STOPPED", "TELEMETRY_SOURCE_UNAVAILABLE",
             "PAPER_SOURCE_UNAVAILABLE"}
Conditions == Critical \cup {Stale}

\* Events by identity: the kind of event, its number, its code.
Events ==
    ({"startup"} \X {0} \X {"ALERTING_STARTED"})
    \cup ({"condition"} \X {0} \X Conditions)
    \cup ({"ledger"} \X (1..MaxEntries)
             \X {"POSITION_OPENED", "POSITION_CLOSED", "EXECUTION_DEGRADED"})
    \cup ({"proof"} \X (0..MaxChanges) \X Proofs)
IsLedger(e) == e[1] = "ledger"
ConditionEvent(c) == <<"condition", 0, c>>

NoFile == [initialized |-> FALSE, ledger |-> 0, proof |-> "NONE", active |-> {},
           pending |-> <<>>]

AlertInit ==
    /\ journal \in {<<>>} \cup {<<kind>> : kind \in Kinds}
    /\ telemetry = [conditions |-> {}, proof |-> "INSUFFICIENT_EVIDENCE", at |-> 0]
    /\ stopped = FALSE
    /\ file = NoFile /\ queue = <<>> /\ pc = "idle"
    /\ sent = <<>> /\ baseline = 0 /\ haltEnded = TRUE
    /\ changes = 0 /\ faults = 0

-----------------------------------------------------------------------------
(* The world that is observed. *)

Book(kind) ==
    /\ Len(journal) < MaxEntries
    /\ journal' = Append(journal, kind)
    /\ UNCHANGED <<telemetry, stopped, file, queue, pc, sent, baseline, haltEnded,
                   changes, faults>>

Publish(conditions, proof) ==
    /\ changes < MaxChanges /\ changes' = changes + 1
    /\ telemetry' = [conditions |-> conditions, proof |-> proof, at |-> changes']
    /\ haltEnded' = (haltEnded \/ Halt \notin conditions)
    /\ UNCHANGED <<journal, stopped, file, queue, pc, sent, baseline, faults>>

UnitsChange ==
    /\ changes < MaxChanges /\ changes' = changes + 1
    /\ stopped' = ~stopped
    /\ UNCHANGED <<journal, telemetry, file, queue, pc, sent, baseline, haltEnded, faults>>

-----------------------------------------------------------------------------
(* Detection: the file and one observation give the next file.  The flags  *)
(* seesTelemetry and seesPaper say which sources could be read.            *)

ActiveConditions(seesTelemetry, seesPaper) ==
    (IF stopped THEN {"CORE_RUNTIME_STOPPED"} ELSE {})
    \cup (IF seesTelemetry THEN telemetry.conditions ELSE {"TELEMETRY_SOURCE_UNAVAILABLE"})
    \cup (IF seesPaper THEN {} ELSE {"PAPER_SOURCE_UNAVAILABLE"})

\* The members of s that are in S, in their order.
Kept(s, S) ==
    LET kept[n \in 0..Len(s)] ==
            IF n = 0 THEN <<>>
            ELSE IF s[n] \in S THEN Append(kept[n - 1], s[n]) ELSE kept[n - 1]
    IN  kept[Len(s)]

\* The order in which the detector lists conditions.
ListedConditions == <<"CORE_RUNTIME_STOPPED", "TELEMETRY_SOURCE_UNAVAILABLE", Stale,
                      "PAPER_SOURCE_UNAVAILABLE", Halt>>

\* Mutant: a condition is queued as long as it is active.
ConditionEventsRepeated(active) ==
    LET new == {c \in active : file.initialized \/ c \in Critical}
        listed == Kept(ListedConditions, new)
    IN [i \in DOMAIN listed |-> ConditionEvent(listed[i])]
\* On the first run the critical ones, later those that were not active before.
ConditionEvents(active) ==
    LET new == {c \in active :
                   IF file.initialized THEN c \notin file.active ELSE c \in Critical}
        listed == Kept(ListedConditions, new)
    IN [i \in DOMAIN listed |-> ConditionEvent(listed[i])]

\* What a journal entry tells: opened or increased, closed, and executions
\* that were partial or failed; a sale of a part tells nothing.
EntryEvents(n) ==
    LET code(c) == <<"ledger", n, c>>
    IN CASE journal[n] = "OPENED" -> <<code("POSITION_OPENED")>>
         [] journal[n] = "OPENED_PARTIAL" ->
                <<code("POSITION_OPENED"), code("EXECUTION_DEGRADED")>>
         [] journal[n] = "CLOSED" -> <<code("POSITION_CLOSED")>>
         [] journal[n] = "FAILED" -> <<code("EXECUTION_DEGRADED")>>
         [] OTHER -> <<>>

\* The entries behind the cursor, in the order of the journal.
LedgerEvents ==
    LET told[n \in 0..Len(journal)] ==
            IF n <= file.ledger THEN <<>> ELSE told[n - 1] \o EntryEvents(n)
    IN  IF file.initialized THEN told[Len(journal)] ELSE <<>>

ProofEvents ==
    IF /\ file.initialized /\ telemetry.proof # file.proof
       /\ telemetry.proof # "INSUFFICIENT_EVIDENCE"
    THEN << <<"proof", telemetry.at, telemetry.proof>> >>
    ELSE <<>>

\* An event whose identity is pending already is not queued again.
Queued(pending, events) ==
    pending \o Kept(events, ToSet(events) \ ToSet(pending))

StartupEvents == IF file.initialized THEN <<>> ELSE << <<"startup", 0, "ALERTING_STARTED">> >>

\* Mutant: the ledger cursor moves to a journal that could not be read.
DetectedBlindly(seesTelemetry, seesPaper) ==
    LET active == ActiveConditions(seesTelemetry, seesPaper)
    IN [initialized |-> TRUE,
        ledger |-> Len(journal),
        proof |-> IF seesTelemetry THEN telemetry.proof ELSE file.proof,
        active |-> active,
        pending |-> Queued(file.pending,
                       StartupEvents \o ConditionEvents(active)
                       \o (IF seesPaper THEN LedgerEvents ELSE <<>>)
                       \o (IF seesTelemetry THEN ProofEvents ELSE <<>>))]
Detected(seesTelemetry, seesPaper) ==
    LET active == ActiveConditions(seesTelemetry, seesPaper)
    IN [initialized |-> TRUE,
        ledger |-> IF seesPaper THEN Len(journal) ELSE file.ledger,
        proof |-> IF seesTelemetry THEN telemetry.proof ELSE file.proof,
        active |-> active,
        pending |-> Queued(file.pending,
                       StartupEvents \o ConditionEvents(active)
                       \o (IF seesPaper THEN LedgerEvents ELSE <<>>)
                       \o (IF seesTelemetry THEN ProofEvents ELSE <<>>))]

-----------------------------------------------------------------------------
(* The cycle.  Every fault ends it; the timer starts the next one.         *)

Fault(n) == faults + n <= MaxFaults /\ faults' = faults + n
Unread(sees) == IF sees THEN 0 ELSE 1

\* Load, collect, detect and persist; a write that reports failure may
\* have replaced the file already.
Detect(seesTelemetry, seesPaper, replaced, reported) ==
    /\ pc = "idle"
    /\ Fault(Unread(seesTelemetry) + Unread(seesPaper) + Unread(reported))
    /\ reported => replaced
    /\ file' = IF replaced THEN Detected(seesTelemetry, seesPaper) ELSE file
    /\ IF reported THEN queue' = file'.pending ELSE queue' = <<>>
    /\ pc' = IF reported /\ file'.pending # <<>> THEN "send" ELSE "idle"
    /\ baseline' = IF file.initialized \/ ~replaced THEN baseline ELSE Len(journal)
    /\ haltEnded' = IF ConditionEvent(Halt) \in ToSet(file'.pending) \ ToSet(file.pending)
                    THEN FALSE ELSE haltEnded
    /\ UNCHANGED <<world, sent>>

\* The message arrives and the answer says so.
Send ==
    /\ pc = "send"
    /\ sent' = Append(sent, Head(queue))
    /\ pc' = "acknowledge"
    /\ UNCHANGED <<world, file, queue, baseline, haltEnded, faults>>

\* No token, no connection, no answer, or an answer that says no: the job
\* ends and leaves the event and all later ones pending.
SendFails(arrived) ==
    /\ pc = "send" /\ Fault(1)
    /\ sent' = IF arrived THEN Append(sent, Head(queue)) ELSE sent
    /\ pc' = "idle" /\ queue' = <<>>
    /\ UNCHANGED <<world, file, baseline, haltEnded>>

\* Mutant: the acknowledgement removes the newest event.
AcknowledgeNewest(replaced, reported) ==
    /\ pc = "acknowledge"
    /\ Fault(Unread(reported))
    /\ reported => replaced
    /\ queue' = IF reported THEN Front(queue) ELSE <<>>
    /\ file' = IF replaced THEN [file EXCEPT !.pending = Front(queue)] ELSE file
    /\ pc' = IF reported /\ Front(queue) # <<>> THEN "send" ELSE "idle"
    /\ UNCHANGED <<world, sent, baseline, haltEnded>>
Acknowledge(replaced, reported) ==
    /\ pc = "acknowledge"
    /\ Fault(Unread(reported))
    /\ reported => replaced
    /\ queue' = IF reported THEN Tail(queue) ELSE <<>>
    /\ file' = IF replaced THEN [file EXCEPT !.pending = Tail(queue)] ELSE file
    /\ pc' = IF reported /\ Tail(queue) # <<>> THEN "send" ELSE "idle"
    /\ UNCHANGED <<world, sent, baseline, haltEnded>>

Kill ==
    /\ pc # "idle" /\ Fault(1)
    /\ pc' = "idle" /\ queue' = <<>>
    /\ UNCHANGED <<world, file, sent, baseline, haltEnded>>

Reads == \E seesTelemetry, seesPaper, replaced, reported \in BOOLEAN :
            Detect(seesTelemetry, seesPaper, replaced, reported)
Acknowledges == \E replaced, reported \in BOOLEAN : Acknowledge(replaced, reported)
Job == Reads \/ Send \/ Acknowledges
AlertNext ==
    \/ \E kind \in Kinds : Book(kind)
    \/ \E snapshot \in Snapshots : Publish(snapshot[1], snapshot[2])
    \/ UnitsChange
    \/ Job
    \/ \E arrived \in BOOLEAN : SendFails(arrived)
    \/ Kill
AlertSpec == AlertInit /\ [][AlertNext]_alertVars

(***************************************************************************)
(* The timer starts the job again and again (OnUnitActiveSec=60s), and a   *)
(* started job runs to an end.  Faults are bounded, which stands for       *)
(* Telegram and the disk working again at some time.                       *)
(***************************************************************************)
LiveSpec == AlertSpec /\ WF_alertVars(Job)

-----------------------------------------------------------------------------
(* The type invariant: the constructor of the state insists on distinct    *)
(* pending identities (alerts/models.py 130-132).                          *)
AlertTypeOK ==
    /\ journal \in Seq(Kinds)
    /\ telemetry \in [conditions : SUBSET {Halt, Stale}, proof : Proofs, at : 0..MaxChanges]
    /\ file \in [initialized : BOOLEAN, ledger : 0..MaxEntries, proof : Proofs \cup {"NONE"},
                 active : SUBSET Conditions, pending : Seq(Events)]
    /\ IsInjective(file.pending)
    /\ queue \in {<<>>, file.pending} /\ (queue = <<>>) = (pc = "idle")
    /\ pc \in {"idle", "send", "acknowledge"}
    /\ sent \in Seq(Events) /\ baseline \in 0..MaxEntries /\ haltEnded \in BOOLEAN

(* Whatever fails: an entry the cursor has passed is on the phone or still *)
(* in the queue, with every event it gives (runtime.py 43-84).             *)
NothingMissed ==
    \A n \in (baseline + 1)..file.ledger :
        ToSet(EntryEvents(n)) \subseteq ToSet(sent) \cup ToSet(file.pending)

(* Journal events reach the phone in journal order; one that is repeated   *)
(* after a lost answer is repeated before any later one is sent.           *)
OrderedDelivery ==
    \A i, j \in DOMAIN sent :
        i < j /\ IsLedger(sent[i]) /\ IsLedger(sent[j]) => sent[i][2] <= sent[j][2]

(* A journal event is sent again only after a fault, and the phone shows   *)
(* each at most once more than there were faults.                          *)
Copies(e) == Cardinality({i \in DOMAIN sent : sent[i] = e})
RepeatsAreFaults ==
    \A e \in ToSet(sent) : IsLedger(e) => Copies(e) <= 1 + faults

(* A condition is announced once while it lasts: between two alerts of a   *)
(* halt that every cycle could read, the halt was lifted.  Kept apart from *)
(* AnnouncedOnTransition, it asks it of cycles that read the telemetry.    *)
QueuesHalt ==
    ConditionEvent(Halt) \in ToSet(file'.pending) \ ToSet(file.pending)
AnnouncedOncePerHalt ==
    [][QueuesHalt => haltEnded \/ "TELEMETRY_SOURCE_UNAVAILABLE" \in file.active]_alertVars

(* What a failed send left in the queue is tried again until it is sent:   *)
(* the queue drains in the end.                                            *)
QueueDrains == []<>(file.pending = <<>>)

(* A halt that stays is on the phone in the end. *)
HaltReachesPhone ==
    (Halt \in telemetry.conditions) ~>
        (Halt \notin telemetry.conditions \/ ConditionEvent(Halt) \in ToSet(sent))

(* Refuted by TLC (README), what the design says: entries from before the  *)
(* first cycle are never announced, and a halt is announced on the         *)
(* transition from inactive to active.                                     *)
HistorySuppressed ==
    \A e \in ToSet(file.pending) \cup ToSet(sent) : IsLedger(e) => e[2] > baseline
AnnouncedOnTransition == [][QueuesHalt => haltEnded]_alertVars

(* Journal events are delivered: none is missed, none overtakes another,   *)
(* none is repeated without a fault.                                       *)
LedgerDelivered == AlertTypeOK /\ NothingMissed /\ OrderedDelivery /\ RepeatsAreFaults

(* The queue drains and a lasting halt reaches the phone.                  *)
AlertsArrive == QueueDrains /\ HaltReachesPhone
=============================================================================
