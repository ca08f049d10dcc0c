# Shreks: formal models of the trading system

This directory models Shreks (Rust "eyes and hands", Python "brain", SQLite and
files between them) where its mistakes would cost money or would go unnoticed: what
the paper engine does with an entry and an exit, what its ledger books, what
survives a crash, what an operator's halt and kill switch do, who holds authority
to trade while releases change, which market events are believed, and what reaches
the operator's phone. All paths below are relative to the repository; `brain/`
stands for `python/src/shreks_brain/`, `crates/` for the Rust workspace.

## 1. The system

### Components, state and operations

| component | state it keeps | operations | modelled in |
|---|---|---|---|
| paper execution, `brain/paper/engine.py` | none (a pure function) | `execute_paper_intent` | `PaperExecution` |
| paper ledger, `brain/paper/ledger.py` | cash, realized profit, costs, positions, journal, settled keys | create, `apply_paper_execution`, `mark_paper_position` | `PaperAccounting`, `PaperLedger` |
| exit engine, `brain/exits/engine.py` | per position: high-water price, completed take-profit levels, last evaluation | `create_exit_state`, `assess_exit`, `acknowledge_exit_fill` | `PaperExit` |
| paper loop, `brain/paper_loop/engine.py` | ledger, managed positions with pending exits, pending entry, last cycle | `run_paper_cycle` | `PaperLoop` |
| entry risk, `brain/risk/engine.py`, `brain/paper/risk_facts.py` | none; facts from the ledger | `assess_entry_risk` | `PaperLoop` (`RiskAccepts`, `RequestedNotional`) |
| operator risk control, `brain/risk_control/` | the control file (revision, halt, kill), a lock file | initialize, halt, kill, reset, clear | `RiskControl`, `OperatorControls` |
| paper campaign service, `brain/observer_campaign/runtime.py`, `brain/risk_control/paper_runtime.py` | nothing in memory between cycles | restore, assemble, run, record evidence, save checkpoint | `PaperCampaign` |
| evaluation evidence and checkpoints, `brain/paper_evaluation/`, `brain/paper_validation/` | a JSON file; one SQLite row per completed cycle | `record_cycle`, save, load latest | `PaperCampaign` |
| authoritative Fast PAPER runtime, `brain/fast_paper_runtime/` | decision cursor, evidence and source files, checkpoint database | source writer, decision cycle, coordinator, execution commit | `FastRuntime`, `FastTrader` |
| authority on the host, `brain/fast_paper_physical_cutover.py`, `brain/fast_paper_release_upgrade.py`, `deploy/release/release_manager.py` | symlink, unit, authority files, authorization, runs | cutover, upgrade, legacy activation, each with rollback and recovery | `FastCutover` |
| staging of releases, `deploy/release/release_manager.py` | directories under `/opt/shreks/releases`, link, units | install, activate-existing | `ReleaseStaging` |
| alerts, `brain/alerts/` | one state file: cursors, active conditions, queue | one cycle: read, detect, persist, send, acknowledge | `Alerts` |
| realtime lane, `crates/shreks-providers`, `crates/shreks-observer/src/runtime.rs` | streams, failover, channel, writer | connect, receive, reconcile, rebuild, send, count, store, drain | `RealtimeCapture` |
| realtime tables, `crates/shreks-storage/src` (`fast_realtime_coverage.rs`, `fast_lane.rs`, `conflict_quarantine.rs`) | coverage sessions, trade evidence, conflicts | open and extend a session, record a trade | `CaptureStore` |
| normalizer, `crates/shreks-observer/src/fast_event_normalizer.rs` | debt cursors; the canonical journal | one burst: debt lane, fresh lane, chunks | `EventJournal` |
| labelling commands, `crates/shreks-storage/src/fast_covered_future_path_population.rs` | the labels table | populate a window, populate a cohort | `CoveredLabels` |

Not modelled:

- **The rest of the Rust storage and observer**: lifecycle inbox, outcome
  scheduling, the sampler, the discovery cycle, the metadata workers (a free choice
  of `EventJournal`) and the read models. The next candidate: due outcomes and
  samples are taken by several workers of one database.
- **HTTP clients and decoders of the providers**: I/O; what they return is a free
  choice in `RealtimeCapture`.
- **The shadow service** of the Fast runtime (the same cycle without authority, on
  books of its own), the encodings of its files, the selection of quotes, and the
  one-shot chains of checks before a cutover (commissioning, readiness, proofs):
  they read files, compare digests and write one report.
- **Backup and restore, registry and promotion**: small file protocols; next in the
  plan.
- **Campaign cycle assembly, observer reads**: SQL reads; their output is the free
  input of `PaperLoop`.
- **Safety, features, setups, regime, scoring, decision, wallets**: pure functions
  with numeric thresholds. A Boolean `approved` stands for them; no property here
  depends on what they compute, and a table test covers them better.
- **Fast campaigns, champions, learning, evaluation, backtest, research, telemetry
  and dashboard reads, host acceptance**: offline computations on frozen data or
  read-only projections, without concurrency. They are most of the repository's
  lines.

`PROJECT.json` has one row for each, with its files and status.

### How they interact

```
 Pump websocket -> streams, failover -> channel -> writer --+  (RealtimeCapture)
                                                            v
   coverage sessions, trade evidence, conflicts   (SQLite, CaptureStore)
        |                       |
        |                       +--> normalizer --> fast_events    (EventJournal)
        +------ labelling commands <------------------+            (CoveredLabels)
                                                      |
 observer database --> campaign service (PaperCampaign)   Fast runtime (FastRuntime)
                        | controls <- file <- host, dashboard      | feed -> decision
                        | cycle: PaperLoop                         |  -> execution -> row
                        | evidence file, checkpoint                |
                        +------- one of the two holds PAPER authority (FastCutover)
                                     ^             |
   release manager (ReleaseStaging) -+             +--> telemetry, journal --> Alerts
```

The campaign service's cycle is: read clock and controls; load the latest
checkpoint; assemble and overlay the controls; `run_paper_cycle` in memory (pending
entry, candidates, exits, each executed and booked); merge the evidence into its
file; insert the checkpoint; then the next cycle, or exit on any error and be
restarted by systemd. Host and dashboard write the control file between any two of
these steps, the process may die between any two, and what was decided in one cycle
is executed in another one against other quotes.

### What is hard, and what makes each part correct

- *Ledger*: no control over what is booked when. It reconciles with its journal,
  money is conserved, each intent is settled once, history stays.
- *Loop*: keeps decisions across cycles. An exit decided is not lost, is still about
  what is held, can be retried; limits hold when an entry fills, not only when it was
  approved.
- *Exit engine*: must act in exactly the situations where evidence is missing.
- *Campaign service*: writes evidence and checkpoint to two stores. A restart resumes
  from a whole cycle, and the evidence covers what the checkpoint says.
- *Control file*: concurrent writers with stale views. Nobody relaxes safety on a view
  that is not the current one.
- *Fast runtime*: five kinds of files and a database written one after the other, by a
  process that may die between any two. A decision is executed once, on the books it
  was made on, and a waiting purchase holds back every later record.
- *Authority*: three root tools change the same files, each of a dozen steps that can
  fail, with recoveries that can fail too. Whoever trades has all the books and an
  authorization in force; the legacy runtime never comes back.
- *Staging*: a directory becomes visible under its final name before it is complete.
- *Realtime lane*: two tasks, a bounded channel, reconnects, failover and restarts.
  A coverage row never spans a gap, since a gap would later count as "nothing
  happened".
- *Normalizer*: selects in one transaction, writes in another, with evidence and
  disputes arriving in between and rows that can never be resolved.
- *Labels*: a label may only say "nothing followed" where coverage proves it, and is
  computed from several queries while the observer writes.
- *Alerts*: a message may arrive without its answer, and any source may be unreadable.

`PROJECT.json` lists the hazards at their lines with the properties that would
notice.

## 2. The modules

```
PaperExecution <- PaperAccounting <- PaperLedger <- MCPaperLedger
                    ^   ^                 ^----- PaperLedgerProofs
                    |   |                 '- - - PaperAccount       (refined)
                    |   '- PaperAccountingProofs <- PaperLedgerProofs, PaperLoopProofs
                    |
                    PaperExit <- PaperLoop <- MCPaperLoop
                                     ^
                                PaperCampaign <- MCPaperCampaign
                                     |  ^------- PaperLoopProofs
                                     '- - - - OperatorControls      (instance)
RiskControl <- MCRiskControl, HostProofs            '- - - RiskControl (refines it)

FastRuntime  <- MCFastRuntime, FastRuntimeProofs    - - -> FastTrader  (refined)
FastCutover  <- MCFastCutover, HostProofs
ReleaseStaging <- MCReleaseStaging, HostProofs
Alerts       <- MCAlerts, PaperLedgerProofs

CaptureStore <- RealtimeCapture <- MCRealtimeCapture, RealtimeCaptureProofs
      ^-------- EventJournal    <- MCEventJournal, EventJournalProofs
CoveredLabels <- MCCoveredLabels, CoveredLabelsProofs
```

- **PaperExecution**: `ExecutePaperIntent(i, at, q, processed)`. Prices are the cost
  of `Unit` atoms, so prices, quantities and money are all integers, where the code
  computes in floating point. Fees round down and a quantity bought rounds up
  (`Quantity`): a fill is never of nothing, as in the code, where every positive fill
  has a positive quantity. Reason codes are dropped:
  callers distinguish results by state, fill, cost and cash flow.
- **PaperAccounting**: the ledger as a record and the operators that take one to the
  next. `Verdict` is the order of the early returns of `apply_paper_execution`;
  `AfterEntry` is `_ledger_after_entry`, through which every booking goes. The code
  stores the unrealized profit; here it is a function of the mark.
- **PaperLedger**: the ledger under any use of its interface. `Attempt` computes a
  result from the ledger as it is and keeps it; `Deliver(i, x)` books any kept
  result with any kept intent, now or later, again and again; `Mark` marks.
- **PaperAccount**: what an account promises without positions, journal or time.
- **PaperExit**: the exit engine as operators. An observation is a price (or none), a
  halt flag and a set of other triggers. The eight triggers that read other evidence
  form two classes, before the stops in precedence and after them: within a class
  they do the same.
- **PaperLoop**: `RunPaperCycle` is the whole function: pending entry, candidates in
  order, exits in the ledger's order, marks. `Cycle` gives it any input with one quote
  at most per token and one observation at most per position.
- **OperatorControls**, **RiskControl**: halt and kill as two flags with four
  transitions; and the file, its lock, and actors that read without the lock, decide
  under it, and may fail before or after the replacement.
- **PaperCampaign**: the variables of `PaperLoop` are the *checkpoint*; `working` is
  the state a cycle computed in memory. `Begin`, `Compute`, `RecordEvidence`,
  `SaveCheckpoint` are the process; `Crash`, `Restart`, the operator and a control
  file that becomes unreadable surround it.
- **FastTrader**: the books' promise: records consumed one by one and in order, each
  buying at most once, a waiting purchase holding back the later ones.
- **FastRuntime**: one action per durable write: the source writer's files, the
  evidence of a decision, the decision cursor, an execution source, a row of the
  checkpoint database, the retry of a deferred purchase. `pc` is where the cycle is,
  `now` the clock it read. REDUCE leaves the position open and is treated as HOLD.
  `Mints` says which markets are of one token: a BUY of a token that is held in another
  market is refused (`MintFree`). Missing data of a source end the process, as `Crash`.
  The process is the only writer of all these files, so that what it remembers from
  the last cycle equals what is on disk, and the model keeps one copy.
- **FastCutover**: the steps of the three tools (`Rm...`, `Cut...`, `Upg...` with the
  rollback and recovery of each), the two PAPER processes, systemd with its loaded
  unit, and kills and reboots between any two steps. A step may fail without effect
  (`CutFails`, `UpgFails`, `RmFails`) or after it took effect or in part (`CutBreaks`,
  `UpgBreaks`). The second is an action of its own where the code sets a flag after the
  step, or loses a list; elsewhere it is what a step followed by an effect-free failure of
  the next one does. A stop that was reported as timed out takes effect at once. Evidence
  and fingerprints are abstracted to the release or run they are bound to; the content of a run is the
  number of cycles booked in it.
- **ReleaseStaging**: `dir[r]` is what stands under a release's name: nothing, a
  payload, a payload with a Python, or everything. Two commands may run beside each
  other; `overlapped` remembers whether they ever did. Deleting a directory is one
  step; the guard against the Fast authorization is FastCutover's.
- **Alerts**: one cycle is `Reads` (with any of its reads failing), the persisted
  state, then `Send` and `Acknowledge` per event. Five conditions stand for the ten
  the code knows, provider health is folded into the readable sources, and `sent`,
  `baseline` and `haltEnded` are history.
- **CaptureStore**: operators on the rows of the realtime tables: recording a trade,
  quarantining a disagreement, opening and extending a coverage row.
- **RealtimeCapture**: `wire` is the world outside: every connection ever made with
  what arrived on it, which the program cannot see and the properties are about. A
  stream queues what arrives around its (un)subscribe calls, reconciles by
  reconnecting, and is rebuilt or replaced by the failover; the forwarder holds one
  notification when the channel is full; the writer first counts, then stores.
  Errors of coverage and trade writes end the process, as `Crash` does. `Shutdown`
  with its drain is the normal stop (`KillSignal=SIGINT`).
- **EventJournal**: one burst: the debt page of both venues, the cursor, chunks, the
  fresh lane, chunks. Both pages are read in one step; `NeverKnown` trades stay
  unresolved for ever; what is verified may come to be `contradicted`, also for ever, and
  then fails its chunk and ends the task (`FailChunk`); `barred` remembers what was disputed when a burst began.
- **CoveredLabels**: each query of a command is a step on the tables as they are then:
  `Count`, `ListMarkets`, `Replay(g)` per market, `Write`; `Cohort` takes a request
  file with checkpoints as the sessions were at some time. What the observer does
  meanwhile is `Notify`, `BeginBurst`, `Commit`, `Dispute`. A label's counts, returns
  and extremes are functions of the events that followed, so a label keeps that set.
  One command runs at a time; requests that are refused change nothing and are left
  out; `maximum_decisions` is the operator's choice.

The `...Proofs` modules hold the theorems of section 4. Operators whose comment
begins with "Mutant:" are faulty variants of the definition after them. No
specification uses them: they say which mistake each property is there to notice,
and `PROJECT.json` pairs them.

### Simplifications worth knowing

- Sizing in `RequestedNotional` keeps the target and the remaining risk; the
  fraction of capital and the absolute maximum are further constants in the same
  minimum. The daily loss, drawdown limit and loss-streak gates are in `approved`;
  that the drawdown is *unknown* while a position is unmarked is modelled, because
  it makes one entry wait for another position's observation.
- One exit policy is in force, as in a campaign. The code keeps one per position.
- A fraction of a position is rounded up to a whole atom (`Share`), and the loop takes
  an atom for the unit of prices (`Unit = 1`), so that a sale of a whole quantity has
  an integer notional and sells exactly what it says.
- Two cycles are at least a millisecond apart (`MinStep`): the campaign takes a cycle at
  the time of the last one for a replay and does not run it.
- Evidence of the campaign is `[id, content]`. Entry provenance is left out, its
  content being a function of its identity; orphan costs too, because no campaign
  quote is of the kind that fails after submission.
- A checkpoint is one value: encoding, digest and the SQLite busy retry are left out.
- No clock goes backward in `RealtimeCapture`, `EventJournal` and `CoveredLabels`; it
  may between two cycles of `PaperLoop`. A coverage row refuses a clock that stepped
  back, which ends the process: the crash and restart that are modelled.
- A row of coverage counts its notifications; here it keeps them, so that the
  properties can say which ones it counted. The number `notification_count` in a
  cohort's checkpoint is left out: a session that grew has another last time here.
- A burst's snapshot lasts until the next burst begins (`CoveredLabels`).

## 3. The runs

| run | question | instance | states |
|---|---|---|---|
| `paper_ledger` | does the ledger reconcile whatever is booked when? | one token; two purchases and a sale; full, partial and failing quotes; two results kept; times 0..2 | 170 296 |
| `paper_loop` | do limits hold with entries pending, and do exits survive, fit and execute? | two tokens, times 0..4, two take-profit levels, stops, maximal hold; full, partial, failing and missing quotes; observations with and without a price | 53 287 |
| `risk_control` | can a race relax safety or lose a command? | two hosts, a browser, two clock values, revisions 0..4 | 4 523 |
| `paper_campaign` | what do crashes and operators do to it? | one token, times 0..5, crashes and operator anywhere | 42 798 |
| `campaign_retry` | is an interrupted checkpoint safely retried? | as above, times 0..4 | violated |
| `fast_cutover` | who trades, on which books, whatever step fails? | two releases, three tool invocations, two failing steps, one failing undo, one kill or reboot | 465 342 |
| `fast_runtime` | is each decision executed once, on its books, through crashes? | three markets, two of one mint, two records, times 0..4, latency and lag 1, two crashes | 183 881 |
| `release_staging` | what does a half-staged release lead to? | two commands, two releases, two failing steps, one kill or reboot | 379 830 |
| `alerts` | does every event reach the phone, in order? | two journal entries, two publications, one fault anywhere | 330 691 |
| `realtime_capture` | does coverage speak the truth? | one source or two, channel of 1, three arrivals, two connections, two failures, two processes | 561 119 |
| `event_journal` | is the journal replayable, and does normalization catch up? | three trades of two venues: one never resolved, one may be contradicted, two may be disputed; one fault, times 0..2 | 285 988 |
| `covered_labels` | do labels keep to what coverage proves? | two trades of a market, three sessions, times 1..3, horizon 1 | 233 836 |

**Bounds.** Every bound is a constant named `Max...`, `Horizon` or `FeedUntil`, and the
modules' comments say what it bounds. They are large enough for what the properties
are about:

- ledger: one position is bought, increased, reduced or closed, marked, charged with a
  failed attempt, and bought anew. There is one sale, filled in whole or in part; that
  several partial sales release exactly the cost basis is `BooksAreReconciled`. Two results at once suffice for
  every confusion of intents, repetition and reordering of a pair. The starting cash
  pays for the first purchase and one other attempt, so that refusals for lack of
  cash occur.
- loop: the two tokens compete for the entry slot and for the risk limit, which is
  less than two targets; an exit decided at 1 fails at 2, is decided again and is
  tried again by 4, while the other token is bought.
- control: four revisions go through halt, kill, reset, clear; three actors are two
  that race and one that differs in authority.
- campaign: five instants contain a purchase, an exit and a crash in each of them.
- cutover: three invocations are a cutover, an upgrade and a retry or a second
  upgrade, or a legacy activation before them; two failures let a step and its
  recovery's sibling fail, each before or after it took effect; three cycles of books tell complete books from old ones.
- Fast runtime: two records are enough for a purchase that waits with a record behind
  it, a sale of what was bought, and a purchase of its mint in another market; the third
  market has a mint of its own; two crashes hit a decision and its
  replay.
- staging: two releases are one that runs and one that is staged.
- alerts: a fault at each step of a cycle, with an event before and one behind it.
- capture: two connections of one source, or one of each of two; three arrivals fill
  channel, writer and the forwarder's hands; the economics of a transaction may
  differ between two deliveries.
- journal: a page limit of one row for the debt lane's quarter of each venue, so that
  one unresolved row fills a page; chunks of one row, so that a burst spans several
  transactions (all properties also hold with chunks of two rows, where a contradictory
  row takes its neighbour with it). Two trades of different venues may be disputed.
- labels: three sessions are one that closes around a horizon, the next, and the one
  that is open; two sessions and two decisions stand for any number in a cohort.

**Initial states and inputs.** Every run starts from the state the program creates; the
cutover starts from a host that trades with the legacy runtime. Inputs enumerated in
the MC modules satisfy the constructors of the classes they stand for; every quote
carries the time at which it was observed.

**Fairness.** What is assumed is what the repository's units and loops promise:

- `fast_cutover`: a tool that was started goes on (`WF(Progress)`), and systemd
  restarts a PAPER unit that it wants up. Nothing makes an operator start a tool.
- `fast_runtime`: the clock and the service go on (its loop and `Restart=on-failure`;
  the start limit, a duration, is not modelled), and a retry that is possible again and
  again is published in the end: strong fairness of `WriteRetry` alone, which looks its
  quotes up at the time of the attempt. Nothing of the kind is assumed of quote/USD and
  BUY authority: they are looked up as of the decision's fixed evaluation, and data that
  comes later does not make them possible. So `WorkResolves` is conditional on a record
  whose sources are there, that is not older than the books and buys no mint that is
  held; TLC refutes it without any one of the three conditions, see divergence 8.
- `release_staging`: a command that was started runs on, and the operator repeats an
  install that failed (strong fairness, since another command may hold the release).
- `alerts`: the timer starts the job every minute and a started job runs to its end.
  Faults are bounded: Telegram and the disk work again some day. A message that
  Telegram refuses for ever would hold back the queue, and the code has no step that
  drops it.
- `realtime_capture`: the forwarder's send and the writer run on; nothing is owed by
  the network, the clock or whatever ends the process.
- `event_journal`: the task runs a burst every 250 ms, and the observer is started again
  after a chunk that failed (`Restart=on-failure`; past five failures in 300 seconds by
  the operator, a duration the model does not have). Nothing is owed by chain, metadata
  or clock.
- The paper loop and the campaign assume none, and state no liveness: a pending exit
  executes only if a quote is observed inside its window, which neither market nor
  configuration promises, and systemd gives up after five failures in 300 seconds.
  What the code itself owes is a property of the next cycle: `ExitExecutes` says that
  *any* next cycle with such a quote closes the position, `KillSwitchForcesExit` that
  *any* next cycle with an active kill switch decides to exit. Both are evaluated in
  every reached state over all next inputs. `covered_labels` is about commands an
  operator may run, and states safety only.

**Deadlock** is checked in the runs about the paper system, the control file, the alerts
and the staging of releases. The others have `CHECK_DEADLOCK FALSE`, because the model
really stops there: the invocations, connections, arrivals or times of the world outside
are bounded, and once they are used up a program that waits for them has nothing to do.
What must not stop is stated as liveness instead (`OperationResumes`, `WorkResolves`,
`CatchesUp`).

### What the properties say

- `BooksReconcile`, `HistoryKept` relate totals, positions and journal, where a booking
  error would be silent. `LedgerSound`: shapes, one settlement per intent, one open
  position per token. `ImplementsAccount`: the ledger implements `PaperAccount`.
- `LoopConsistent`, `ExitMemoryKept`, `ExitExecutes`, `KillSwitchForcesExit` are about
  the decisions the loop carries across cycles. `ExposureBounded` holds with a margin
  of one entry's costs, which sizing does not know; positions are counted exactly.
- `CheckpointsAreCycles` is refinement: the checkpoints of the crashing service are a
  behaviour of `PaperLoop`. `CheckpointSound`: the evidence covers what the checkpoint
  says; it goes one way, since evidence of a cycle that was never saved stays.
- `RelaxedKnowingly`, `NothingLost`, `ImplementsControls` are about races on the
  control file; by the last, `PaperCampaign` may use the abstract flags.
- `AuthorityHoldsTheBooks`: the process that trades works on a run with every cycle any
  authority booked before it. `HostConsistent`: a running Fast process has an
  authorization in force for its run; at rest it is the installed unit of the current
  release, or legacy beside a stray Fast unit (divergence 17). `RecoveryAssessable`: a failure receipt describes a host the assessment of
  the tools accepts. `LegacyNeverReturns`: but for an activation and a cutover at work at
  once. `OperationResumes`: tools end, and PAPER runs again or something says that it does
  not, but for a stop that was reported as failed (divergence 17).
- `DecisionsFit`: cursors at most one apart, each row's decision taken on the books
  the row extends. `ImplementsTrader`: refinement of `FastTrader`. `WorkResolves`: a
  record that can be executed is, and a waiting purchase is resolved.
- `HostRuns`, `CompleteStays`, `FailedStagingRetryable`: what runs is what the link
  names and can be started; a complete release is never touched again.
- `LedgerDelivered`: nothing missed, nothing overtaken, repetitions only by faults.
  `AnnouncedOncePerHalt`, `AlertsArrive`.
- `NoGapInsideSession`: the notifications a coverage row counts came over one
  connection and none between them is missing. `CoverageMatchesEvidence`: what is
  counted is stored or quarantined but for one notification per crash, what is stored
  is covered. `LaneFitsWriter`: the writer's own checks never end the process.
- `JournalSound`: ordered by sequence and by time at once, no trade twice, nothing
  before its source. `QuarantineHolds`: what was disputed before a burst stays out.
  `CatchesUp`: every ready row becomes canonical if unresolvable rows do not fill a page
  and no stored row is contradicted.
- `LabelsSound`: a label that says what followed its decision says all of it but late
  commits, inside one closed session; all others say nothing. `PopulationIsWhole`: all
  or nothing. `ConflictsAreExplained`: the only two causes of contradicting labels.

### Known divergences

The first is a run of its own (`campaign_retry`). The others are stated in the
modules under "Refuted by TLC": putting the definition in the cfg of the module's run
shows the trace (for 3 with `OneToolAtATime = FALSE` and without the conjunct).

1. `InterruptedCheckpointRetryable` (`PaperCampaign`). `brain/observer_campaign/runner.py:151`
   and the plan of phase G1b say that an interrupted checkpoint write can be safely
   retried because the evidence merge is idempotent. It is, for the *same* cycle. The
   service restarts with a new time and new market data, computes other content for
   the same journal sequence, and `_merge_collection` refuses it, again and again.
2. `KillBlocksEntries` (`PaperCampaign`). `deploy/systemd/G7_OPERATOR_CONTROLS.md:41`
   says the kill switch blocks new entries. The overlay reaches candidates and exit
   observations; an entry left pending by an earlier cycle is neither, and is bought in
   the cycle that reads the kill switch.
3. `LegacyNeverReturns` with overlapping tools (`FastCutover`). The guard "legacy release
   activation is blocked after Fast PAPER cutover" (`release_manager.py:504`) is
   evaluated once, before the first step; a cutover may complete before the activation
   starts the legacy unit or rolls back to it. The history variable `crossed` names
   exactly this overlap: without the conjunct `~crossed'` TLC refutes the property, with
   it the property is proved for any overlap of any tools.
4. `ReceiptMeansStopped`. Both recoveries swallow a failing stop
   (`fast_paper_physical_cutover.py:632`, `fast_paper_release_upgrade.py:487`) and write
   a receipt that says PAPER remains stopped.
5. `EvidenceWithItsRun`. When archiving fails half-way the list of moved files is lost
   (`fast_paper_release_upgrade.py:317`), so that the rollback restores none of them,
   against "rollback restores every archived file exactly".
6. `RetryReusesNamespace`. The successor namespace is named by the two runs but filled
   from the source run at the time of the attempt; a retry after the source went on
   meets its own earlier rows as a collision, against "exact retry after pre-start
   rollback is storage idempotent".
7. `InterruptedDecisionResumes` (`FastRuntime`). A restart evaluates at a new time and
   refuses the evidence it wrote before the crash (`shadow_cycle.py:365`), against
   "restart reuses the existing authenticated evidence".
8. `DecisionCatchesUp`. A record observed before the previous one was evaluated is
   decided on and then refused for ever, because the books are dated with that
   evaluation (`authoritative_service_execution.py:268`). So is a decision to buy a mint
   that is held in another market by then (`shadow_executor.py:331-336`, `:1099-1118`);
   and one whose quote/USD or BUY authority had no data at its evaluation waits for ever,
   with every later record behind it (`authoritative_source_writer.py:610-650`, `:756`,
   `:1037-1064`).
9. `ActivatedIsInstalled`, `CurrentNotRemoved` (`ReleaseStaging`). A directory verifies
   as soon as its virtualenv has a Python; a kill before the wheel is installed leaves
   one that is activated later, and a cleanup may remove what another command has
   activated after the cleanup's one check.
10. `InterruptedStagingRetryable`. A directory under the release's name is verified and
    returned or refused, never completed: after a kill past the rename no rerun
    installs that release.
11. `HistorySuppressed` (`Alerts`). When the PAPER state is unreadable in the first
    cycle the ledger cursor becomes 0 and the next cycle announces the whole history.
12. `AnnouncedOnTransition`. A cycle that cannot read the telemetry drops its active
    conditions, and the next one announces them again without a transition.
13. `RecoveryIsBounded` (`RealtimeCapture`). An invalid response resets the budget of
    reconnects, so that alternating kinds of failure never spend it, against
    `bounded_pump_realtime_failover.rs:92-94`.
14. `CoverageEndsWithConnection`. The writer stamps a notification when it takes it from
    the channel, so that a row can end after its connection did, by the delay of the
    channel.
15. `SkipsQuarantined`, `HistoricalProgress` (`EventJournal`). Disputes are asked for
    when rows are selected and not when they are written; and the debt pages are cut
    before anything asks whether a row can be resolved, so that a page of unresolvable
    rows of one venue holds back ready rows of the other. `CatchesUpPastPoison`: rows whose
    mint has contradictory decimals (`fast_lane.rs:211-213`) or whose pool has contradictory
    markets (`pump_swap_fast_lane.rs:276`) are kept selected on purpose
    (`fast_lane_metadata.rs:341-343`, `:386-389`); the error rolls their chunk back and ends
    the mandatory task (`fast_event_normalizer.rs:453`, `:508`), in every burst, so that one
    such row can keep every ready row behind it out of the journal.
16. `RerunsAgree` (`CoveredLabels`). "A rerun against the same immutable session/window
    must produce no conflicting mutation"
    (`2026-09-05-fl4-covered-event-population-design.md`). A burst's events have the time
    the burst began: one that began before the session closed and commits after the
    session was labelled gives a rerun another path, and the command ends in a conflict.
17. `StopIsRecovered`, `InstalledIsWhatRuns` (`FastCutover`). Two flags of the cutover are
    set after the step they stand for, and the step may take effect and be reported as
    failed. The stop of legacy may time out or write to stderr after it stopped the service
    (`fast_paper_physical_cutover.py:365-369`, `:1482-1484`, `:1517`): `stopped_legacy` stays
    False, nothing is recovered, no receipt is written, and PAPER is down until an operator
    looks. The Fast unit may be replaced before the sync of its directory fails
    (`:470-471`, `:1260-1261`): `candidate_installed` stays False, the recovery says "legacy
    PAPER authority restored" (`:690-693`) while the Fast unit is installed, without an
    authorization, for the next reload or reboot. `OperationResumes` and `HostConsistent`
    hold with exactly these two excepted, by the history variable `broken`.

## 4. The proofs

TLAPS checks eight proof modules for every value of the constants that satisfies the
named assumptions; TLC evaluates each assumption in the module's run.

**PaperAccountingProofs** has what the ledger and the loop both need: what quantities and
released shares of a cost basis are, and how a `Total` changes when a sequence grows by
an entry or one entry changes. `Total` is a recursive function; that it is what its
equations say follows by induction on the numbers, stated for a set of numbers and
proved from the least element of its complement.

**PaperLedgerProofs** assumes `PolicyAssumption` and `InputAssumption`: natural latency
and fees, a fee of at most 100 %, positive prices and notionals. `IndInv` has three
parts. The *ledger* part types
every field and ties the keys of the journal to the settled keys one to one. The
*positions* part says that identities are keys of journal entries, that two open
positions differ in token, and that a cost basis is positive while its position is
open. The *results* part says that every kept result has the shape the execution engine
produces: without it a delivered result could carry any cash flow. The lemmas follow
the code, one per kind of booking. `LedgerIsSound`, `HistoryIsKept`,
`TotalsFollowJournal` and the refinement `ImplementsPaperAccount` follow.
`BooksAreReconciled` carries a second invariant, `BooksOK`: the sums over the whole
journal, the sums over the entries linked to each position, and the conservation of
money, each shown to move by the amounts of the one entry a booking appends and the one
position it touches.

The same module has the theorems about the alerts, which tell the phone of that ledger's
journal (`AlertAssumption`: the kinds of entries and what telemetry may publish). What the
detector queues is `Kept`, a filter, and `LedgerEvents`, a concatenation, both recursive
functions; the lemmas show by induction on their number that a filter leaves the members
where they stand and that the entries behind the cursor give all their events, distinct
and in order (`KeptLists`, `LedgerListed`, `JoinedLists`). `LedgerDelivered` is not
inductive. `AlertInv` adds: the cursor has passed all that was queued or sent (`CursorOK`,
why a new event is never an old one); the queue is a list in journal order and nothing in
it is before what was sent (`QueueOrdered`); a journal event that is still to be sent
was sent at most once for each fault, and once more only when it is being acknowledged
or has been (`CopiesOK`); and while a halt lasts that was announced, the file has it
among its conditions or says that telemetry could not be read (`HaltOK`). The last part
gives `HaltAnnouncedOnce`, the others `LedgerIsDelivered`, for any number of entries,
publications and faults. TLC finds no reachable state without `AlertInv`, with two
entries and two faults.

**HostProofs** has the three things root commands change on the host: the control file,
PAPER authority and the releases. They share no state.
- `RiskControl` (`ActorAssumption`): `ControlInv` says that only the holder of the lock
  has a decided job, and `Current` of that job: the actor's view has the file's revision,
  the job is one revision on and not older, kills only what it halts, and relaxes only
  for a host. The file cannot change under a held lock, so what is written is still about
  what was decided on.
- `FastCutover` (`CutoverAssumption`): `LegacyIsOver` is about any number of tools
  at work at once: `LegacyInv` says that, unless an activation and a cutover overlapped
  (`crossed`), after the first Fast start an authorization is on file and the installed and the loaded
  unit are Fast's, an activation at work began before there was one, and a cutover that
  attempted the start touches the unit no more (`Sides`). The other three theorems have
  the hypothesis `OneToolAtATime`, that the operator waits for a tool to end before running
  the next. No code enforces it (divergence 3); with two tools at once TLC refutes them.
  `CutoverInv` is `Host` with a table for each tool. `Host` says what the properties
  need of every state: *Era*, before the first Fast start the legacy run has all the
  books and afterwards the run the files name, with the Fast unit installed; *FastHolds*,
  a Fast process works on the run of the files and under their authorization;
  *Installed*, what runs or is wanted is what is installed, until something was killed;
  *CursorFollows*. `RmTable`, `CutTable` and `UpgTable` say what a tool has done when it
  is at a step, forward or undoing: which files are bound to which release (the rotation
  file by file, `RotatedTo`), whether PAPER is stopped, what unit is installed and loaded,
  and what the snapshot holds that a rollback puts back. `Failures`: a failure receipt is
  the last thing a tool writes, and nothing starts after it.
  Neither part holds alone. `Host` needs the tables, for a start is only right because
  of what the tool did before it; the tables need `Host`, since systemd restarts PAPER
  between any two steps (`TablesStay`). Each step is first shown to keep `Host` by its
  kind (start, stop, reload, install, switch, authority, revocation, evidence, quiet),
  then to lead to the next row. `BooksFollowAuthority`, `HostStaysConsistent` and
  `FailureIsAssessable` follow.
- `ReleaseStaging` (`StagingAssumption`): `StagingInv` is the type invariant with *Owned*,
  the directory and link a command at each step may rely on, and *Alone*, that without
  overlap all but one command are idle. `HostAlwaysRuns` and `CompleteReleasesStay`
  follow.

**PaperLoopProofs** assumes `PolicyAssumption`, `ExitPolicyAssumption`, `LoopAssumption`,
`CycleAssumption` and `NoneAssumption` (the shapes of policies and inputs, and that "absent" is no value) and, for
the service, `OverlayAssumption` (the inputs are closed under the operator's overlay).
- The invariant `LoopInv` is `StateOK` at the time of the last cycle: the ledger is
  sound and nothing in it is dated later (`LedgerOK`); exactly the open positions are
  managed, each with a pending decision about what it holds (`ManagedOK`); a pending
  entry is for a token that is not held (`EntryOK`); and what is held with what is
  pending is within the limits (`RiskOK`). The last part is why `WithinRiskLimits` alone
  is not inductive: an approval counts against the limit from the cycle that gives it,
  and the slot it holds keeps every other entry out until it is filled or refused.
- A cycle is a sequence of steps on a *working* state, and `StateOK` holds after each.
  The candidates and the positions are worked by recursive functions over their number;
  the lemmas about them are inductions over that number whose hypothesis is a predicate
  of the step (`SoFar`: what was sold until now, which positions are worked off and
  which are as they were).
- `CycleEffect` is the result: what a whole cycle does to the journal, to positions that
  were closed, to each position that was open, and what it may enter. The theorems are
  consequences: `LoopStaysConsistent`, `ExposureStaysBounded`, `OneEntryInEveryCycle`,
  `ExitMemoryIsKept`. An exit decision may stay unattempted for one reason only: the account
  could not pay at that moment, which `Balance` says in terms of the journal.
- `ExitIsExecuted` and `KillSwitchWins` are about the next cycle from any state with
  `LoopInv`: for the first the entries are shown to leave the position alone and the
  sale to be affordable from its own proceeds; for the second a cycle without quotes
  can neither buy nor sell.
- The service: `working` is `RunPaperCycle` of the checkpoint for an input `PaperLoop`
  may take, and only `SaveCheckpoint` copies it (`ImplementsPaperLoop`). So the
  checkpoint satisfies `LoopInv`, through any crashes, and `CycleEffect` holds between it
  and `working`. `CheckpointIsSound`: what the evidence captured of a cycle is what the
  checkpoint before did not have, and since a cycle changes neither old entries nor
  closed positions, old and new evidence cover the new checkpoint.
  `HaltStopsNewApprovals`: under a halt no candidate is approved, so that what is entered
  was pending (`EntersOnly`).

**FastRuntimeProofs** assumes `RuntimeAssumption`. `IndInv` adds two parts to
`DecisionsFit`: *Prepared*, what the phase of the cycle says about the files already
written (an execution source at the commit is bound to the latest row), and *Trades*,
what the rows say about the trader's variables (who bought, what waits). Each durable
write is a lemma. `DecisionsAlwaysFit` and the refinement `ImplementsFastTrader` follow.

**RealtimeCaptureProofs** assumes `CaptureAssumption` and `StoreAssumption`. The
invariant follows a notification through the process: *InOrder*, that its session only
grows from the writer to the forwarder and that a session has one source; *RowsOK*;
*Counted* and *StoredIsCovered*, that the two tables say the same but for the
notification the writer is working on. Every step of the forwarder is shown to be one
of three to the rest of the process: it goes on, it delivers, or it ends the process.
`LaneAlwaysFits` and `CoverageAlwaysMatches` follow.
`RowsHaveNoGap` carries a second invariant, `NoGaps`, about the line of a session from
its row through the channel and the forwarder to its stream: each notification in it is
the next arrival of the connection after the one before (`QueueLined`, `LaneLined`,
`StreamsLined`). It depends on the first invariant, by which sessions only grow along
that line and each has one source: what follows another session's notification starts a
row of its own, and a session is never taken up again.

**CoveredLabelsProofs** assumes `LabelAssumption`. The invariant carries what a command
read from one query to the next: its windows lie in closed sessions, which do not
change any more; no decision is in two groups of a command, for a cohort because one
session only encloses a decision; what was counted is still to be labelled or is
labelled; what is prepared is as sound as what is stored, and saw at least as much.
What the observer may do meanwhile is one formula, `Grows`. All three properties of the
run follow, for any number of sessions, markets and horizons: `LabelsAreSound`,
`PopulationsAreWhole`, `ConflictsHaveCauses`.

**EventJournalProofs** assumes `JournalAssumption` and `StoreAssumption`. There may be
infinitely many trades; that finitely many are stored at a time is part of the invariant.
What a page of a query holds is said by *ranks*, the number
of rows before a row, and the lemmas on ranks in a finite ordered set (`Ranked`) are what
a page's length, its distinctness and its order follow from; what a chunk takes of the
selection is an induction on its rows (`ChunkTakes`). `JournalInv` adds to the properties
*SelectedOK*, that a selected row is still stored, not canonical and not barred when a
later transaction writes it, and each is selected once; *BarredOK*, that what was barred
when the burst began is still disputed; and *TimesOK*, how the times of the journal lie to the
clock and to the snapshot of the burst. `JournalIsSound` and `QuarantineIsKept` follow.

**Only model-checked:** the liveness properties (`OperationResumes`, `WorkResolves`,
`AlertsArrive`, `FailedStagingRetryable`, `HeldIsSent`, `CatchesUp`) and the property that
a run refutes (`InterruptedCheckpointRetryable`). Every invariant and every action
property of the passing runs is stated by a theorem.

**Out of reach of the prover:** liveness under fairness, ENABLED and induction over
data with a predicate as parameter (an induction over a number is stated for the set of
numbers for which something holds); floating-point drift against the ledger's tolerances
is outside the models.

## 5. The plan

1. *Done*: the paper system; the control file; the Fast runtime, its authority and its
   releases; alerts; the realtime lane, the journal and its labels; proofs as above.
2. *Done*: theorems for every safety property of the runs.
3. Next models: lifecycle inbox and outcome scheduling of the Rust storage with their
   workers; checkpoints with their SQLite transactions inside `PaperCampaign`; promotion;
   backup and restore.
