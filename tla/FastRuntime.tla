----------------------------- MODULE FastRuntime -----------------------------
(***************************************************************************)
(* The authoritative Fast PAPER runtime: one process that turns the feed's *)
(* records into decisions and decisions into transitions of the durable    *)
(* books, one small durable write at a time.  A decision is an evidence    *)
(* file and then a cursor; its execution is an execution source file and   *)
(* then one row of the checkpoint database; the facts an execution needs   *)
(* come from write-once source files that a writer at the start of every   *)
(* cycle publishes when the market data is there.  The process may die     *)
(* between any two writes and systemd starts it again.                     *)
(*                                                                         *)
(* Times are ticks of the wall clock, and a cycle reads it once.  The only *)
(* writer of all of this is the process, so that what it remembers from    *)
(* the last cycle is what is on disk, and the model keeps one copy.        *)
(***************************************************************************)
EXTENDS Naturals, Sequences, FiniteSets

CONSTANTS Markets,
          Mints,          \* the markets of each mint: a mint may trade in several
          MaxFeed,        \* bound: records the feed ever holds
          FeedUntil,      \* bound: no record is observed later
          MaxTime,        \* bound of the clock
          Latency,        \* assumed_latency_ms of the fill policy
          QuoteLag,       \* max_quote_lag_ms of the fill policy
          MaxCrashes,     \* bound: deaths the code does not decide itself
          None            \* no evidence file

Actions == {"SKIP", "BUY", "HOLD", "SELL"}     \* REDUCE leaves the position open, as HOLD
Evidence == [action : Actions, at : 0..MaxTime, open : BOOLEAN]

ASSUME RuntimeAssumption ==
    /\ None \notin Evidence
    /\ Mints \subseteq SUBSET Markets
    /\ MaxFeed \in Nat /\ FeedUntil \in Nat /\ MaxTime \in Nat
    /\ Latency \in Nat /\ QuoteLag \in Nat /\ MaxCrashes \in Nat
    /\ FeedUntil + Latency + QuoteLag < MaxTime   \* a purchase can end in time

VARIABLES feed,       \* the records: market and observation time
          clock,
          decided,    \* the decision cursor file
          evidence,   \* the evidence file of each record, or None
          quoteUsd, buyAuthority,     \* records with such a source file
          execution,  \* execution source files: the checkpoint each is bound to, or 0
          reduction,  \* reduction source files: <<checkpoint, market>>
          retry,      \* pending-BUY retry source files: <<checkpoint, evaluation time>>
          rows,       \* the database: checkpoint rows, the last one is the state
          pc,         \* what the process does next
          now,        \* the time its cycle read
          crashes
sources == <<quoteUsd, buyAuthority, execution, reduction, retry>>
vars == <<feed, clock, decided, evidence, sources, rows, pc, now, crashes>>

Records == 1..MaxFeed
Effects == {"INIT", "SKIP", "HELD", "SOLD", "FILLED", "DEFERRED", "ABORTED"}
Phases == {"down", "idle", "openQuote", "quoteUsd", "buyAuthority", "retry",
           "coordinate", "checkpoint", "commit"}
Row == [decision : 0..MaxFeed, open : SUBSET Markets, pending : 0..MaxFeed,
        asOf : 0..MaxTime, did : Effects]

Checkpoint == Len(rows)
Latest == rows[Checkpoint]
Later(s, t) == IF s >= t THEN s ELSE t
Next1 == decided + 1
FeedHas(r) == r <= Len(feed)
OpenMarket(m) == m \in Latest.open

Init ==
    /\ feed = <<>> /\ clock = 0
    /\ decided = 0 /\ evidence = [r \in Records |-> None]
    /\ quoteUsd = {} /\ buyAuthority = {} /\ reduction = {} /\ retry = {}
    /\ execution = [r \in Records |-> 0]
    /\ rows = <<[decision |-> 0, open |-> {}, pending |-> 0, asOf |-> 0, did |-> "INIT"]>>
    /\ pc = "down" /\ now = 0 /\ crashes = 0

-----------------------------------------------------------------------------
(* The environment: time, the observer that appends records, systemd, and  *)
(* deaths of the process (a kill, or an exception over data it lacks).     *)

Tick ==
    /\ clock < MaxTime
    /\ clock' = clock + 1
    /\ UNCHANGED <<feed, decided, evidence, sources, rows, pc, now, crashes>>

Observe(m) ==
    /\ Len(feed) < MaxFeed /\ clock <= FeedUntil
    /\ feed' = Append(feed, [market |-> m, at |-> clock])
    /\ UNCHANGED <<clock, decided, evidence, sources, rows, pc, now, crashes>>

GoTo(p) == pc' = p /\ UNCHANGED <<feed, clock, now, crashes>>

Restart == pc = "down" /\ GoTo("idle") /\ UNCHANGED <<decided, evidence, sources, rows>>

Crash ==
    /\ pc # "down" /\ crashes < MaxCrashes
    /\ pc' = "down" /\ crashes' = crashes + 1
    /\ UNCHANGED <<feed, clock, decided, evidence, sources, rows, now>>

\* A cycle starts at a later time than the one before: it waits for its
\* interval, and systemd for RestartSec.  At MaxTime the clock stands still.
BeginCycle ==
    /\ pc = "idle"
    /\ clock > now \/ clock = MaxTime
    /\ pc' = "openQuote" /\ now' = clock
    /\ UNCHANGED <<feed, clock, decided, evidence, sources, rows, crashes>>

-----------------------------------------------------------------------------
(* The source writer: four publications, each made when it is wanted, not  *)
(* there yet and the market data it needs has arrived.                     *)

Recorded == {r \in Records : evidence[r] # None}
Unexecuted == {r \in Recorded : r > Latest.decision}
Oldest(r) == r \in Unexecuted /\ \A s \in Unexecuted : r <= s

WantsReduction(m) ==
    /\ FeedHas(Next1) /\ feed[Next1].market = m /\ OpenMarket(m)
    /\ <<Checkpoint, m>> \notin reduction

WriteReduction(m) ==
    /\ pc = "openQuote" /\ WantsReduction(m)
    /\ feed[Next1].at <= now
    /\ reduction' = reduction \cup {<<Checkpoint, m>>}
    /\ GoTo("quoteUsd")
    /\ UNCHANGED <<decided, evidence, quoteUsd, buyAuthority, execution, retry, rows>>

WriteQuoteUsd(r) ==
    /\ pc = "quoteUsd"
    /\ Oldest(r) /\ evidence[r].action # "SKIP" /\ r \notin quoteUsd
    /\ quoteUsd' = quoteUsd \cup {r}
    /\ GoTo("buyAuthority")
    /\ UNCHANGED <<decided, evidence, buyAuthority, execution, reduction, retry, rows>>

WriteBuyAuthority(r) ==
    /\ pc = "buyAuthority"
    /\ Oldest(r) /\ evidence[r].action = "BUY" /\ r \notin buyAuthority
    /\ r \in quoteUsd
    /\ buyAuthority' = buyAuthority \cup {r}
    /\ GoTo("retry")
    /\ UNCHANGED <<decided, evidence, quoteUsd, execution, reduction, retry, rows>>

\* Mutant: the retry source is named after the purchase, not after the books.
RetryPublishedOnce == retry # {}
RetryPublished == \E t \in 0..MaxTime : <<Checkpoint, t>> \in retry
WriteRetry ==
    /\ pc = "retry"
    /\ Latest.pending # 0 /\ ~RetryPublished
    /\ now >= Latest.asOf
    /\ retry' = retry \cup {<<Checkpoint, now>>}
    /\ GoTo("coordinate")
    /\ UNCHANGED <<decided, evidence, quoteUsd, buyAuthority, execution, reduction, rows>>

\* Nothing wanted, or the data is not there.
WritesNothing ==
    /\ \/ pc = "openQuote" /\ GoTo("quoteUsd")
       \/ pc = "quoteUsd" /\ GoTo("buyAuthority")
       \/ pc = "buyAuthority" /\ GoTo("retry")
       \/ pc = "retry" /\ GoTo("coordinate")
    /\ UNCHANGED <<decided, evidence, sources, rows>>

-----------------------------------------------------------------------------
(* The coordinator: what a cycle does depends on how far the execution     *)
(* cursor in the database is behind the decision cursor file.              *)

Pristine == Latest.decision = 0
ExecutionCursor ==
    IF ~Pristine THEN Latest.decision
    ELSE IF Recorded = {} THEN decided ELSE decided - 1
CursorsAgree ==
    /\ Pristine => Checkpoint = 1 /\ (Recorded = {} \/ (decided > 0 /\ Recorded = {decided}))
    /\ decided \in {ExecutionCursor, ExecutionCursor + 1}
Ahead == CursorsAgree /\ decided = ExecutionCursor + 1
Level == CursorsAgree /\ decided = ExecutionCursor

\* A refusal is an exception: the process ends, and finds the same files again.
Refuses(refused) ==
    /\ refused
    /\ GoTo("down")
    /\ UNCHANGED <<decided, evidence, sources, rows>>
Waits(nothing) ==
    /\ nothing
    /\ GoTo("idle")
    /\ UNCHANGED <<decided, evidence, sources, rows>>

\* Executing the decision that is one ahead.
AuthorityReady(r) ==
    CASE evidence[r].action = "SKIP" -> TRUE
      [] evidence[r].action = "BUY" -> r \in quoteUsd /\ r \in buyAuthority
      [] OTHER -> r \in quoteUsd
\* Mutant: the age of the decision is not compared with the books.
FitsBooksUndated(r) ==
    evidence[r].open = OpenMarket(feed[r].market) /\ Latest.pending = 0
FitsBooks(r) ==
    /\ evidence[r].open = OpenMarket(feed[r].market)
    /\ feed[r].at >= Latest.asOf
    /\ Latest.pending = 0
\* A purchase needs a mint of which no market has a position.  Only the
\* transition asks for it, after the execution source was published.
MintFree(r) ==
    evidence[r].action = "BUY" =>
        \A mint \in Mints : feed[r].market \in mint => mint \cap Latest.open = {}

PublishExecution ==
    /\ pc = "coordinate" /\ Ahead /\ decided \in Recorded
    /\ execution[decided] = 0
    /\ AuthorityReady(decided) /\ FitsBooks(decided)
    /\ execution' = [execution EXCEPT ![decided] = Checkpoint]
    /\ GoTo("commit")
    /\ UNCHANGED <<decided, evidence, quoteUsd, buyAuthority, reduction, retry, rows>>

ConsumeExecution ==
    /\ pc = "coordinate" /\ Ahead /\ decided \in Recorded
    /\ execution[decided] = Checkpoint
    /\ GoTo("commit")
    /\ UNCHANGED <<decided, evidence, sources, rows>>

\* When a purchase evaluated at t is deferred, filled or given up.
Fills(t, seen) ==
    (IF t <= seen + Latency + QuoteLag THEN {"DEFERRED"} ELSE {})
    \cup (IF t >= seen + Latency THEN {"FILLED", "ABORTED"} ELSE {})

EffectsOf(r) ==
    CASE evidence[r].action = "SKIP" -> {"SKIP"}
      [] evidence[r].action = "BUY" -> Fills(evidence[r].at, feed[r].at)
      [] evidence[r].action = "HOLD" -> {"HELD"}
      [] OTHER -> {"SOLD", "HELD"}

\* The positions after an effect on market m.
Traded(m, effect) ==
    CASE effect = "FILLED" -> Latest.open \cup {m}
      [] effect = "SOLD" -> Latest.open \ {m}
      [] OTHER -> Latest.open

\* The row after record r was executed for the first time.
FreshRow(r, effect) ==
    [decision |-> r, open |-> Traded(feed[r].market, effect),
     pending |-> IF effect = "DEFERRED" THEN r ELSE 0,
     asOf |-> Later(Latest.asOf, evidence[r].at), did |-> effect]

\* Mutant: a purchase that a retry filled stays pending.
RetryRowStillPending(r, effect, t) ==
    [decision |-> Latest.decision, open |-> Traded(feed[r].market, effect),
     pending |-> r, asOf |-> Later(Latest.asOf, t), did |-> effect]
\* The row after the pending purchase of record r was evaluated again at t.
RetryRow(r, effect, t) ==
    [decision |-> Latest.decision, open |-> Traded(feed[r].market, effect),
     pending |-> IF effect = "DEFERRED" THEN r ELSE 0,
     asOf |-> Later(Latest.asOf, t), did |-> effect]

\* One transaction, on the very latest row.
Store(row) == rows' = Append(rows, row)

\* The runner checks again what the source was published under.
Commit ==
    /\ pc = "commit"
    /\ FitsBooks(decided) /\ decided > Latest.decision /\ MintFree(decided)
    /\ \E effect \in EffectsOf(decided) : Store(FreshRow(decided, effect))
    /\ GoTo("idle")
    /\ UNCHANGED <<decided, evidence, sources>>

\* Level with a pending purchase: retry it, and decide nothing new.
RetryPending ==
    /\ pc = "coordinate" /\ Level /\ Latest.pending # 0
    /\ \E t \in 0..MaxTime :
          /\ <<Checkpoint, t>> \in retry
          /\ \E effect \in Fills(t, feed[Latest.pending].at) :
                Store(RetryRow(Latest.pending, effect, t))
    /\ GoTo("idle")
    /\ UNCHANGED <<decided, evidence, sources>>

\* Level without one: decide on the next record, and record the evidence.
MayDecide == pc = "coordinate" /\ Level /\ Latest.pending = 0 /\ FeedHas(Next1)
ReductionPublished(m) == <<Checkpoint, m>> \in reduction
InputsReady(r) ==
    /\ feed[r].at <= now
    /\ OpenMarket(feed[r].market) => ReductionPublished(feed[r].market)

\* The policy may choose any action its position allows.
Decisions(r) ==
    [action : IF OpenMarket(feed[r].market) THEN {"HOLD", "SELL"} ELSE {"SKIP", "BUY"},
     at : {now}, open : {OpenMarket(feed[r].market)}]

Decide ==
    /\ MayDecide /\ InputsReady(Next1)
    /\ evidence[Next1] = None
    /\ \E e \in Decisions(Next1) : evidence' = [evidence EXCEPT ![Next1] = e]
    /\ GoTo("checkpoint")
    /\ UNCHANGED <<decided, sources, rows>>

\* The evidence is there already: the inputs must be those it records.
SameInputs(r) == evidence[r].at = now /\ evidence[r].open = OpenMarket(feed[r].market)
ReplayDecision ==
    /\ MayDecide /\ InputsReady(Next1)
    /\ evidence[Next1] # None /\ SameInputs(Next1)
    /\ GoTo("checkpoint")
    /\ UNCHANGED <<decided, evidence, sources, rows>>

AdvanceCursor ==
    /\ pc = "checkpoint"
    /\ decided' = Next1
    /\ GoTo("idle")
    /\ UNCHANGED <<evidence, sources, rows>>

Idles == pc = "coordinate" /\ Waits(
    \/ Ahead /\ decided \notin Recorded
    \/ Ahead /\ decided \in Recorded /\ execution[decided] = 0 /\ ~AuthorityReady(decided)
    \/ Level /\ Latest.pending # 0 /\ ~RetryPublished
    \/ Level /\ Latest.pending = 0 /\ ~FeedHas(Next1))

Fails ==
    \/ pc = "coordinate" /\ Refuses(
          \/ ~CursorsAgree
          \/ /\ Ahead /\ decided \in Recorded
             /\ \/ execution[decided] \notin {0, Checkpoint}
                \/ execution[decided] = 0 /\ AuthorityReady(decided) /\ ~FitsBooks(decided)
          \/ MayDecide /\ ~InputsReady(Next1)
          \/ /\ MayDecide /\ InputsReady(Next1)
             /\ evidence[Next1] # None /\ ~SameInputs(Next1))
    \/ pc = "commit" /\ Refuses(~MintFree(decided))

-----------------------------------------------------------------------------
Publishes ==
    \/ \E m \in Markets : WriteReduction(m)
    \/ \E r \in Records : WriteQuoteUsd(r) \/ WriteBuyAuthority(r)
    \/ WriteRetry
Coordinates ==
    \/ PublishExecution \/ ConsumeExecution \/ Commit \/ RetryPending
    \/ Decide \/ ReplayDecision \/ AdvanceCursor \/ Idles \/ Fails
Service == Restart \/ BeginCycle \/ Publishes \/ WritesNothing \/ Coordinates
Next == Tick \/ (\E m \in Markets : Observe(m)) \/ Crash \/ Service
Spec == Init /\ [][Next]_vars

(***************************************************************************)
(* The process keeps running (its loop, and Restart=on-failure) and time   *)
(* passes.  Nothing is assumed of the quote/USD and BUY authority sources: *)
(* both are resolved as of the time the decision was evaluated, and what   *)
(* was not observed by then never is.  A retry is evaluated at the time of *)
(* its cycle; that its market data is there again and again while it is    *)
(* wanted is an assumption on the market, not on the code.                 *)
(***************************************************************************)
LiveSpec == Spec /\ WF_vars(Tick) /\ WF_vars(Service) /\ SF_vars(WriteRetry)

-----------------------------------------------------------------------------
(* The type invariant. *)
RuntimeTypeOK ==
    /\ feed \in Seq([market : Markets, at : 0..FeedUntil]) /\ Len(feed) <= MaxFeed
    /\ clock \in 0..MaxTime /\ now \in 0..clock
    /\ decided \in 0..MaxFeed /\ decided <= Len(feed)
    /\ evidence \in [Records -> Evidence \cup {None}]
    /\ quoteUsd \subseteq Records /\ buyAuthority \subseteq quoteUsd
    /\ execution \in [Records -> Nat]
    /\ reduction \subseteq Nat \X Markets /\ retry \subseteq Nat \X (0..MaxTime)
    /\ rows \in Seq(Row) /\ rows # <<>>
    /\ pc \in Phases /\ crashes \in 0..MaxCrashes

(* However the process died and was restarted, a row executes a decision   *)
(* that was taken on the very position the row before it leaves, with a    *)
(* record no older than those books, and from the execution source that    *)
(* was published for them (authoritative_service_execution.py 260-271,     *)
(* shadow_executor.py 323-329).                                            *)
DecisionFitsBooks ==
    \A i \in 2..Len(rows) : rows[i].decision # rows[i - 1].decision =>
        /\ execution[rows[i].decision] = i - 1
        /\ evidence[rows[i].decision].open
              = (feed[rows[i].decision].market \in rows[i - 1].open)
        /\ feed[rows[i].decision].at >= rows[i - 1].asOf

(* A decision that is published but not executed is never lost or doubled: *)
(* the cursors are at most one apart, the evidence reaches at most one     *)
(* record further, and what lies between them was taken on the latest      *)
(* books (authoritative_coordinator.py 577-588).                           *)
OneDecisionAhead ==
    /\ decided \in {Latest.decision, Latest.decision + 1}
    /\ Recorded \in {1..decided, 1..Next1}
    /\ decided > Latest.decision => evidence[decided].open = OpenMarket(feed[decided].market)

(* The runtime implements the sequential trader. *)
Trader == INSTANCE FastTrader WITH
    consumed <- Latest.decision, open <- Latest.open, pending <- Latest.pending,
    bought <- {IF rows[i - 1].pending # 0 THEN rows[i - 1].pending ELSE rows[i].decision :
                 i \in {j \in 2..Len(rows) : rows[j].did = "FILLED"}}
ImplementsTrader == Trader!TSpec

(* A published decision is executed in the end, whatever crashes happen   *)
(* before and in between, if the sources it needs are published, its       *)
(* record is not older than the books and the mint it buys is free         *)
(* (2026-09-28-fast-paper-authoritative-coordinator-design.md 77-79).      *)
Executable(r) ==
    /\ decided = r /\ Latest.decision = r - 1 /\ FeedHas(r)
    /\ AuthorityReady(r) /\ feed[r].at >= Latest.asOf /\ MintFree(r)
DecisionExecutes == \A r \in Records : Executable(r) ~> Latest.decision = r

(* A purchase that waits is filled or given up in the end. *)
PendingResolves == \A r \in Records : Latest.pending = r ~> Latest.pending # r

(* Refuted by TLC (README), what the documents say: evidence that was      *)
(* written before a crash is reused by the restart, and a decision that is *)
(* one ahead catches up.  The second fails for each of the three           *)
(* conditions of Executable that it leaves out.                            *)
InterruptedDecisionResumes ==
    \A r \in Records : evidence[r] # None ~> decided >= r
DecisionCatchesUp ==
    \A r \in Records : decided = r ~> Latest.decision = r

(* A row's decision was taken on the books the row extends, and at most    *)
(* one decision is ahead of the books.                                     *)
DecisionsFit == RuntimeTypeOK /\ DecisionFitsBooks /\ OneDecisionAhead

(* Nothing the runtime started stays unresolved.                           *)
WorkResolves == DecisionExecutes /\ PendingResolves
=============================================================================
