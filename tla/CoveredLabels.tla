---------------------------- MODULE CoveredLabels ----------------------------
(***************************************************************************)
(* The commands that label canonical events with what followed them        *)
(* (shreks-storage/src/fast_covered_future_path_population.rs, with        *)
(* future_path_labels.rs of that crate and of shreks-core), run beside     *)
(* the observer on its database.                                           *)
(*                                                                         *)
(* A label may say what happened inside a horizon, or that nothing did,    *)
(* only where one closed coverage session encloses the horizon.  A command *)
(* reads sessions, markets and events with one query after the other, each *)
(* a snapshot of its own, and writes in one savepoint; meanwhile the       *)
(* observer extends and opens sessions, its normalizer commits events at   *)
(* the time its burst began (EventJournal), and trades become disputed.    *)
(*                                                                         *)
(* An event is known by its sequence, its place in the journal.            *)
(***************************************************************************)
EXTENDS Naturals, Sequences, FiniteSets

CONSTANTS
    Trades,
    MarketOf,      \* the market of each trade
    Horizons,      \* DEFAULT_FUTURE_PATH_HORIZONS_MS
    MaxSessions,   \* bound: coverage sessions
    MaxTime        \* bound: the clock

ASSUME LabelAssumption ==
    /\ Horizons \subseteq Nat \ {0} /\ Horizons # {}
    /\ MaxSessions \in Nat /\ MaxTime \in Nat \ {0}

VARIABLES
    clock,
    sessions,   \* table fast_realtime_coverage_sessions, by session_id
    journal,    \* table fast_events, by sequence
    accepted,   \* the normalizer's burst: its snapshot, 0 before the first
    disputed,   \* trades with a row in a conflict table
    labels,     \* table fast_future_path_labels
    job,        \* the population command that is running
    late        \* history: events committed into a session already closed

database == <<sessions, journal, disputed>>
vars == <<clock, database, accepted, labels, job, late>>

Markets == {MarketOf[t] : t \in Trades}
Market(n) == MarketOf[journal[n].trade]
Events == 1..Len(journal)

Within(s, t) == sessions[s].first <= t /\ t <= sessions[s].last

(* Only the latest session can still change. *)
Closed(s) == s \in 1..Len(sessions) - 1

-----------------------------------------------------------------------------
Idle == [phase |-> "idle", horizons |-> {}, window |-> {}, counted |-> {},
         todo |-> {}, prepared |-> {}]

Init ==
    /\ clock = 1
    /\ sessions = <<>>
    /\ journal = <<>>
    /\ accepted = 0
    /\ disputed = {}
    /\ labels = {}
    /\ job = Idle
    /\ late = {}

(***************************************************************************)
(* The observer.                                                           *)
(***************************************************************************)

Tick ==
    /\ clock < MaxTime
    /\ clock' = clock + 1
    /\ UNCHANGED <<database, accepted, labels, job, late>>

(* A notification opens a session, or extends the latest one.              *)
Notify ==
    /\ \/ /\ Len(sessions) < MaxSessions
          /\ sessions' = Append(sessions, [first |-> clock, last |-> clock])
       \/ /\ sessions # <<>> /\ sessions[Len(sessions)].last # clock
          /\ sessions' = [sessions EXCEPT ![Len(sessions)].last = clock]
    /\ UNCHANGED <<clock, journal, accepted, disputed, labels, job, late>>

(* A burst lasts, as far as its snapshot goes, until the next one begins.  *)
BeginBurst ==
    /\ accepted # clock
    /\ accepted' = clock
    /\ UNCHANGED <<clock, database, labels, job, late>>

(* A chunk of the burst: its events have the time the burst began.         *)
Commit(t) ==
    /\ accepted # 0
    /\ \A n \in Events : journal[n].trade # t
    /\ journal' = Append(journal, [trade |-> t, at |-> accepted])
    /\ late' = IF \E s \in 1..Len(sessions) : Closed(s) /\ accepted <= sessions[s].last
               THEN late \union {Len(journal) + 1} ELSE late
    /\ UNCHANGED <<clock, sessions, accepted, disputed, labels, job>>

Dispute(n) ==
    /\ n \in Events
    /\ journal[n].trade \notin disputed
    /\ disputed' = disputed \union {journal[n].trade}
    /\ UNCHANGED <<clock, sessions, journal, accepted, labels, job, late>>

Observer ==
    \/ Tick \/ Notify \/ BeginBurst
    \/ \E t \in Trades : Commit(t)
    \/ \E n \in Events : Dispute(n)

(***************************************************************************)
(* Labels.                                                                 *)
(***************************************************************************)

(* The observations of a decision's horizon.                               *)
Follows(n, m, h) ==
    m > n /\ journal[m].at > journal[n].at /\ journal[m].at <= journal[n].at + h

(* label_horizon: nothing is said of a horizon that the coverage does not  *)
(* reach the end of.  The counts, returns and extremes of a label are      *)
(* functions of the events that followed.                                  *)
Label(n, h, rows, through) ==
    LET complete == journal[n].at + h <= through
    IN  [decision |-> n, horizon |-> h, through |-> through, complete |-> complete,
         path |-> IF complete THEN {m \in rows : Follows(n, m, h)} ELSE {}]

SameKey(l, k) == l.decision = k.decision /\ l.horizon = k.horizon

(* record_future_path_label: a row of the same key that says another thing.*)
Conflicting(prepared) ==
    \E l \in labels, p \in prepared : SameKey(l, p) /\ l # p

(***************************************************************************)
(* The commands.                                                           *)
(***************************************************************************)

InWindow(from, through) ==
    {n \in Events : from <= journal[n].at /\ journal[n].at <= through}

(* Mutant: the latest session is taken too. *)
ClosedOrLatest(s) == s \in 1..Len(sessions)

(* Sessions a command takes evidence of.                                   *)
Usable(s) == Closed(s)

(* populate_fast_future_path_labels: the window lies in one usable         *)
(* session and holds events, no more than the operator allows.  The        *)
(* request that is refused here changes nothing.                           *)
Count(s, from, through) ==
    /\ job.phase = "idle"
    /\ Usable(s)
    /\ Within(s, from) /\ Within(s, through) /\ from <= through
    /\ InWindow(from, through) # {}
    /\ job' = [Idle EXCEPT !.phase = "markets", !.horizons = Horizons,
                           !.window = {[from |-> from, through |-> through,
                                        last |-> sessions[s].last]},
                           !.counted = InWindow(from, through)]
    /\ UNCHANGED <<clock, database, accepted, labels, late>>

(* markets_in_window. *)
ListMarkets ==
    /\ job.phase = "markets"
    /\ \E w \in job.window :
         job' = [job EXCEPT !.phase = "replay", !.window = {},
                    !.todo = {[market |-> Market(n), from |-> w.from, through |-> w.through,
                               last |-> w.last, named |-> {}] :
                                  n \in InWindow(w.from, w.through)}]
    /\ UNCHANGED <<clock, database, accepted, labels, late>>

(* The checkpoint of a usable session that did not drift.                  *)
CheckpointHolds(c) ==
    Usable(c.id) /\ sessions[c.id] = [first |-> c.first, last |-> c.last]

(* The session a decision names is the only one of the request around it.  *)
OneSessionEncloses(c, d) ==
    {s.id : s \in {r \in c.sessions : r.first <= journal[d.event].at
                                      /\ journal[d.event].at <= r.last}} = {d.session}

(* validate_cohort_request, and the decisions by session and market.  The  *)
(* request is a file that an offline tool wrote some time ago: checkpoints *)
(* of sessions as they were then, and decisions each with its session.     *)
BeginCohort(cohort) ==
    /\ \A c \in cohort.sessions : CheckpointHolds(c)
    /\ \A d \in cohort.decisions : OneSessionEncloses(cohort, d)
    /\ job' = [Idle EXCEPT
                  !.phase = "replay", !.horizons = {cohort.horizon},
                  !.counted = {d.event : d \in cohort.decisions},
                  !.todo = UNION {
                      {[market |-> Market(d.event), from |-> c.first, through |-> c.last,
                        last |-> c.last,
                        named |-> {e.event : e \in {e \in cohort.decisions :
                                      e.session = c.id /\ Market(e.event) = Market(d.event)}}] :
                          d \in {d \in cohort.decisions : d.session = c.id}} :
                      c \in cohort.sessions}]
    /\ UNCHANGED <<clock, database, accepted, labels, late>>

(* Two sessions and two decisions at most stand for any number of them; a *)
(* checkpoint may be older than the session is now.                        *)
Checkpoints == UNION {{[id |-> s, first |-> sessions[s].first, last |-> t] :
                          t \in sessions[s].first..sessions[s].last} :
                      s \in 1..Len(sessions)}

Identities == [event : Events, session : 1..Len(sessions)]

Cohort ==
    /\ job.phase = "idle"
    /\ \E c, e \in Checkpoints, d, f \in Identities, h \in Horizons :
          BeginCohort([sessions |-> {c, e}, decisions |-> {d, f}, horizon |-> h])

(* Mutant: a replay ends with the window of its decisions.                 *)
RowsToWindow(g) ==
    {n \in Events : Market(n) = g.market /\ n \in InWindow(g.from, g.through)}

(* fast_events_for_market_observed_window. *)
Rows(g) == {n \in Events : Market(n) = g.market /\ n \in InWindow(g.from, g.last)}

Decisions(g) ==
    IF g.named = {} THEN {n \in Rows(g) : journal[n].at <= g.through} ELSE g.named

(* One market is read and labelled in memory; a disputed event in it ends  *)
(* the command.                                                            *)
Replay(g) ==
    /\ job.phase = "replay" /\ g \in job.todo
    /\ job' = IF \E n \in Rows(g) : journal[n].trade \in disputed THEN Idle
              ELSE [job EXCEPT
                      !.todo = @ \ {g},
                      !.prepared = @ \union
                          {Label(n, h, Rows(g), g.last) : n \in Decisions(g), h \in job.horizons}]
    /\ UNCHANGED <<clock, database, accepted, labels, late>>

Prepared == {l.decision : l \in job.prepared}

(* Mutant: what does not conflict is written.                              *)
WrittenInPart(prepared) ==
    labels \union {p \in prepared : \A l \in labels : ~SameKey(l, p)}

(* The savepoint: rolled back by the first conflict.                       *)
Written(prepared) ==
    IF Conflicting(prepared) THEN labels ELSE labels \union prepared

(* A command that did not prepare what it counted writes nothing; one that *)
(* meets a conflict reports it.                                            *)
Write ==
    /\ job.phase = "replay" /\ job.todo = {}
    /\ IF Cardinality(Prepared) # Cardinality(job.counted)
       THEN job' = Idle /\ UNCHANGED labels
       ELSE /\ labels' = Written(job.prepared)
            /\ job' = IF Conflicting(job.prepared) THEN [job EXCEPT !.phase = "conflict"]
                      ELSE Idle
    /\ UNCHANGED <<clock, database, accepted, late>>

(* The command ends after a conflict, or is killed.                        *)
End ==
    /\ job.phase # "idle"
    /\ job' = Idle
    /\ UNCHANGED <<clock, database, accepted, labels, late>>

Command ==
    \/ \E s \in 1..Len(sessions), from, through \in 1..MaxTime : Count(s, from, through)
    \/ ListMarkets
    \/ Cohort
    \/ \E g \in job.todo : Replay(g)
    \/ Write \/ End

Next == Observer \/ Command

Spec == Init /\ [][Next]_vars

-----------------------------------------------------------------------------
(* Properties. *)

(* What follows a decision now, as far as its session goes.                *)
Followers(l) == {m \in Events : /\ Market(m) = Market(l.decision)
                                /\ Follows(l.decision, m, l.horizon)}

LabelsTypeOK ==
    /\ clock \in 1..MaxTime /\ accepted \in 0..MaxTime
    /\ \A s \in 1..Len(sessions) :
          /\ 1 <= sessions[s].first /\ sessions[s].first <= sessions[s].last
          /\ sessions[s].last <= clock
          /\ s > 1 => sessions[s - 1].last <= sessions[s].first
    /\ \A n \in Events : /\ journal[n].trade \in Trades
                          /\ journal[n].at \in 1..clock
    /\ disputed \subseteq Trades
    /\ \A l \in labels : l.decision \in Events /\ l.horizon \in Horizons
    /\ job.phase \in {"idle", "markets", "replay", "conflict"}

(* A label speaks for a whole horizon inside one closed session, or says   *)
(* nothing: what it says happened are events that followed its decision in *)
(* that time, and what it leaves out was committed after the session       *)
(* ended.  So no gap in the coverage passes for a quiet market.            *)
LabelsKeepToCoverage ==
    \A l \in labels :
        /\ \E s \in 1..Len(sessions) : /\ Closed(s) /\ Within(s, journal[l.decision].at)
                                       /\ l.through = sessions[s].last
        /\ l.complete <=> journal[l.decision].at + l.horizon <= l.through
        /\ l.complete => Followers(l) \ late \subseteq l.path /\ l.path \subseteq Followers(l)
        /\ ~l.complete => l.path = {}
        /\ \A k \in labels : SameKey(l, k) => l = k

(* A command that writes anything writes every horizon of every event that *)
(* it counted when it began, whatever followed the event and whatever was  *)
(* committed while it read.                                                *)
PopulationIsWhole ==
    [][labels' # labels =>
          \A n \in job.counted, h \in job.horizons :
              \E l \in labels' \intersect job.prepared :
                  l.decision = n /\ l.horizon = h]_vars

(* Two commands, of either kind, contradict each other about a decision    *)
(* only if it lies in two sessions, or if an event was committed into      *)
(* their session after it had closed.                                      *)
ConflictsAreExplained ==
    job.phase = "conflict" =>
        \A l \in labels, p \in job.prepared :
            SameKey(l, p) /\ l # p =>
                \/ l.through # p.through
                   /\ \E s, r \in 1..Len(sessions) :
                         /\ s # r /\ Within(s, journal[l.decision].at)
                         /\ Within(r, journal[l.decision].at)
                \/ l.through = p.through /\ p.path \ l.path # {}
                   /\ l.path \subseteq p.path /\ p.path \ l.path \subseteq late

(* Refuted by TLC (README): a rerun against the same immutable session and *)
(* window produces no conflicting mutation                                 *)
(* (2026-09-05-fl4-covered-event-population-design.md, "Atomicity and      *)
(* idempotency").                                                          *)
RerunsAgree ==
    job.phase = "conflict" =>
        \A l \in labels, p \in job.prepared :
            SameKey(l, p) /\ l # p => l.through # p.through

LabelsSound == LabelsTypeOK /\ LabelsKeepToCoverage
=============================================================================
