---------------------------- MODULE EventJournal ----------------------------
(***************************************************************************)
(* The FastEvent normalizer: from the immutable trade evidence to the      *)
(* canonical journal (shreks-observer/src/fast_event_normalizer.rs, with   *)
(* the pages and rows of shreks-storage/src/conflict_quarantine.rs,        *)
(* fast_lane_metadata.rs and fast_lane.rs).                                *)
(*                                                                         *)
(* One task of the observer runs bursts.  A burst reads the clock once,    *)
(* that is the canonical time of all its events; it then works first on    *)
(* old debt, a page of raw rows for each venue after a durable cursor, and *)
(* then on the newest rows.  The rows are selected by queries of their own *)
(* and written in chunks, each chunk one immediate transaction.  Meanwhile *)
(* the writer stores evidence and quarantines conflicts, and metadata      *)
(* arrives, on other connections of the same database.                     *)
(*                                                                         *)
(* Signatures are numbers here, since the pages are ordered by them.       *)
(***************************************************************************)
EXTENDS CaptureStore, SequencesExt

CONSTANTS
    Pump,        \* the signatures of bonding-curve trades; the rest: PumpSwap
    NeverKnown,  \* trades whose mint or market is never verified
    Contradictable,  \* trades whose metadata may contradict itself
    Disputable,  \* trades that may be delivered with two economics
    BurstLimit,  \* FAST_EVENT_NORMALIZER_BATCH_LIMIT
    ChunkRows,   \* MAX_FAST_EVENT_WRITE_TRANSACTION_ROWS
    RawScan,     \* FAST_LANE_METADATA_RAW_SCAN_LIMIT
    MaxFaults,   \* bound: busy answers, retries and crashes
    MaxTime      \* bound: the clock

ASSUME JournalAssumption ==
    /\ Signatures \subseteq Nat /\ Pump \subseteq Signatures
    /\ 1 \in Economics   \* what a trade says when it is observed first
    /\ NeverKnown \subseteq Trades /\ Contradictable \subseteq Trades
    /\ Disputable \subseteq Trades
    /\ BurstLimit \in Nat /\ BurstLimit >= 4
    /\ {ChunkRows, RawScan} \subseteq Nat \ {0}
    /\ {MaxFaults, MaxTime} \subseteq Nat

VARIABLES
    clock,
    evidence,   \* tables pump_trade_evidence and pump_swap_trade_evidence
    conflicts,  \* their conflict tables
    known,      \* trades whose mints and market are verified, with one answer each
    contradicted,  \* trades with two verified answers for a mint or the market
    journal,    \* table fast_events: its n-th row has sequence n
    cursor,     \* each venue's normalizer debt cursor
    burst,      \* the normalizer task
    barred,     \* history: trades that were disputed when a burst began
    faults      \* faults so far

metadata == <<known, contradicted>>
raw == <<evidence, conflicts, metadata>>
vars == <<clock, raw, journal, cursor, burst, barred, faults>>

Venues == {"pump", "swap"}
VenueOf(t) == IF t[1] \in Pump THEN "pump" ELSE "swap"

DebtLimit == BurstLimit \div 4

Canonical(t) == \E n \in 1..Len(journal) : journal[n].trade = t

(* What a query for pending rows returns: neither canonical nor disputed.  *)
Eligible(t) == ~Canonical(t) /\ ~Quarantined(conflicts, t)

-----------------------------------------------------------------------------
(* The order of the pages: observation time, signature, ordinal. *)

Precedes(k1, k2) ==
    \/ k1[1] < k2[1]
    \/ k1[1] = k2[1] /\ k1[2] < k2[2]
    \/ k1[1] = k2[1] /\ k1[2] = k2[2] /\ k1[3] < k2[3]

Key(t) == <<evidence[t].at, t[1], t[2]>>
NoCursor == <<0, 0, 0>>

Older(t, u) == Precedes(Key(t), Key(u))

Oldest(ts, n) == {t \in ts : Cardinality({u \in ts : Older(u, t)}) < n}
Newest(ts, n) == {t \in ts : Cardinality({u \in ts : Older(t, u)}) < n}

OldestFirst(ts) == [n \in 1..Cardinality(ts) |->
                       CHOOSE t \in ts : Cardinality({u \in ts : Older(u, t)}) = n - 1]
NewestFirst(ts) == Reverse(OldestFirst(ts))
FirstOf(s, n) == SubSeq(s, 1, IF Len(s) < n THEN Len(s) ELSE n)

VenueRows(v) == {t \in Trades : Stored(evidence, t) /\ VenueOf(t) = v}

-----------------------------------------------------------------------------
Idle == [phase |-> "idle", accepted |-> 0, selected |-> <<>>, normalized |-> 0,
         tries |-> 0]

Init ==
    /\ clock = 0
    /\ evidence = [t \in Trades |-> NotStored]
    /\ conflicts = {}
    /\ known = {} /\ contradicted = {}
    /\ journal = <<>>
    /\ cursor = [v \in Venues |-> NoCursor]
    /\ burst = Idle
    /\ barred = {}
    /\ faults = 0

(***************************************************************************)
(* The other tasks.                                                        *)
(***************************************************************************)

(* The writer stores evidence it stamped a moment ago, in the order of its *)
(* stamps.                                                                 *)
Ingest(t, at) ==
    /\ ~Stored(evidence, t)
    /\ at \in {clock, clock - 1} /\ at >= 1
    /\ \A u \in Trades : evidence[u].at <= at
    /\ evidence' = RecordTrade(evidence, t, 1, at)
    /\ UNCHANGED <<clock, conflicts, metadata, journal, cursor, burst, barred, faults>>

(* The same trade is delivered again and says another thing.               *)
Dispute(t, e) ==
    /\ Stored(evidence, t) /\ t \in Disputable
    /\ conflicts' = Quarantine(evidence, conflicts, t, e)
    /\ conflicts' # conflicts
    /\ UNCHANGED <<clock, evidence, metadata, journal, cursor, burst, barred, faults>>

(* The mints of a trade are verified, and the market of a PumpSwap pool.   *)
Verify(t) ==
    /\ t \notin known \union contradicted \union NeverKnown
    /\ known' = known \union {t}
    /\ UNCHANGED <<clock, evidence, conflicts, contradicted, journal, cursor, burst,
                   barred, faults>>

(* A second answer of another value is verified beside the first one: the  *)
(* resolvers refuse to choose from then on (verified_mint_decimals,        *)
(* pump_swap_market_for_pool).                                             *)
Contradict(t) ==
    /\ t \in Contradictable \ contradicted
    /\ contradicted' = contradicted \union {t}
    /\ known' = known \ {t}
    /\ UNCHANGED <<clock, evidence, conflicts, journal, cursor, burst, barred, faults>>

Tick ==
    /\ clock < MaxTime
    /\ clock' = clock + 1
    /\ UNCHANGED <<raw, journal, cursor, burst, barred, faults>>

(***************************************************************************)
(* A burst.                                                                *)
(***************************************************************************)

(* run_fast_event_normalizer: the acceptance snapshot. *)
BeginBurst ==
    /\ burst.phase = "idle"
    /\ burst' = [Idle EXCEPT !.phase = "debt", !.accepted = clock]
    /\ barred' = barred \union {t \in Trades : Stored(evidence, t)
                                    /\ Quarantined(conflicts, t) /\ ~Canonical(t)}
    /\ UNCHANGED <<clock, raw, journal, cursor, faults>>

(* normalizer_pump_debt_page, normalizer_pumpswap_debt_page: raw rows,     *)
(* whatever their state; those that are not eligible are left out of what  *)
(* the page returns.                                                       *)
PageAfter(v, key) == Oldest({t \in VenueRows(v) : Precedes(key, Key(t))}, DebtLimit)

(* Mutant: a disputed row is not left out. *)
PageReturnsDisputed(page) == {t \in page : ~Canonical(t)}

PageReturns(page) == {t \in page : Eligible(t)}

(* Mutant: the cursor never comes to the end. *)
AtEndNever(v, page) == FALSE

AtEnd(v, page) ==
    PageReturns(page) = {} /\ Cardinality(page) < DebtLimit /\ cursor[v] # NoCursor

(* paged_normalizer_pump_debt_evidence: the page after the cursor, or the  *)
(* first one when the cursor has come to the end.                          *)
DebtPage(v) ==
    LET page == PageAfter(v, cursor[v])
    IN  IF AtEnd(v, page) THEN PageAfter(v, NoCursor) ELSE page

CursorAfter(v) ==
    LET page == DebtPage(v)
    IN  IF page # {} THEN Key(CHOOSE t \in page : \A u \in page : ~Older(t, u))
        ELSE IF AtEnd(v, PageAfter(v, cursor[v])) THEN NoCursor
        ELSE cursor[v]

(* normalize_paged_debt_capacity: the globally oldest rows of both pages.  *)
DebtRows == Oldest(UNION {PageReturns(DebtPage(v)) : v \in Venues}, DebtLimit)

(* A cursor that cannot be stored because the database is busy stays.      *)
SelectDebt ==
    /\ burst.phase = "debt"
    /\ burst' = [burst EXCEPT !.phase = "write_debt", !.selected = OldestFirst(DebtRows)]
    /\ \/ /\ cursor' = [v \in Venues |-> CursorAfter(v)]
          /\ UNCHANGED faults
       \/ /\ faults < MaxFaults /\ faults' = faults + 1
          /\ \E v \in Venues : cursor' = [cursor EXCEPT ![v] = CursorAfter(v)]
    /\ UNCHANGED <<clock, raw, journal, barred>>

(* recent_ready_rows: what is ready among the newest raw rows of a venue;  *)
(* what is contradicted stays selected, for the resolvers to refuse.       *)
RecentRows(v) ==
    {t \in Newest({t \in VenueRows(v) : evidence[t].at <= burst.accepted}, RawScan) :
        Eligible(t) /\ t \in known \union contradicted}

SelectFresh ==
    /\ burst.phase = "fresh"
    /\ LET recent == Newest(UNION {RecentRows(v) : v \in Venues}, BurstLimit - burst.normalized)
       IN  burst' = [burst EXCEPT !.phase = "write_fresh", !.selected = NewestFirst(recent)]
    /\ UNCHANGED <<clock, raw, journal, cursor, barred, faults>>

(* normalize_pending_rows: one chunk, one transaction.  A row that was     *)
(* observed after the snapshot, or is not verified, stays pending; one     *)
(* that is contradicted is an error.                                       *)
Accepts(t) == evidence[t].at <= burst.accepted /\ t \in known
Offends(t) == evidence[t].at <= burst.accepted /\ t \in contradicted

(* Mutant: the canonical time is the raw row's own. *)
CanonicalRowOfSource(t) == [trade |-> t, source |-> evidence[t].at, at |-> evidence[t].at]

CanonicalRow(t) == [trade |-> t, source |-> evidence[t].at, at |-> burst.accepted]

(* The rows are taken in their order, up to what is left of the burst.     *)
Chunk ==
    LET rows == FirstOf(burst.selected, ChunkRows)
        taken[n \in 0..Len(rows)] ==
            IF n = 0 THEN <<>>
            ELSE IF Accepts(rows[n]) /\ Len(taken[n - 1]) < BurstLimit - burst.normalized
                 THEN Append(taken[n - 1], rows[n])
                 ELSE taken[n - 1]
    IN  taken[Len(rows)]

(* The loop comes to an offending row before the burst is full.            *)
ChunkFails ==
    LET rows == FirstOf(burst.selected, ChunkRows)
    IN  \E n \in 1..Len(rows) :
            /\ Offends(rows[n])
            /\ Cardinality({m \in 1..n - 1 : Accepts(rows[m])}) < BurstLimit - burst.normalized

Writing == burst.phase \in {"write_debt", "write_fresh"}

Exhausted == burst.selected = <<>> \/ burst.normalized >= BurstLimit

WriteChunk ==
    /\ Writing /\ ~Exhausted /\ ~ChunkFails
    /\ journal' = journal \o [n \in 1..Len(Chunk) |-> CanonicalRow(Chunk[n])]
    /\ burst' = [burst EXCEPT
                    !.selected = SubSeq(@, ChunkRows + 1, Len(@)),
                    !.normalized = @ + Len(Chunk)]
    /\ UNCHANGED <<clock, raw, cursor, barred, faults>>

(* The error is not a busy database: the chunk is rolled back, the task    *)
(* and with it the observer ends, and systemd starts it again.             *)
FailChunk ==
    /\ Writing /\ ~Exhausted /\ ChunkFails
    /\ burst' = Idle
    /\ UNCHANGED <<clock, raw, journal, cursor, barred, faults>>

(* The debt lane gives what it did not use to the fresh one.               *)
EndLane ==
    /\ Writing /\ Exhausted
    /\ burst' = IF burst.phase = "write_debt" /\ burst.normalized < BurstLimit
                THEN [burst EXCEPT !.phase = "fresh", !.selected = <<>>]
                ELSE Idle
    /\ UNCHANGED <<clock, raw, journal, cursor, barred, faults>>

(* retry_bounded: a busy database repeats the burst, at its old snapshot.  *)
Retry ==
    /\ burst.phase # "idle" /\ burst.tries = 0
    /\ faults < MaxFaults /\ faults' = faults + 1
    /\ burst' = [burst EXCEPT !.phase = "debt", !.selected = <<>>, !.normalized = 0,
                              !.tries = 1]
    /\ UNCHANGED <<clock, raw, journal, cursor, barred>>

(* The observer process ends and is started again. *)
Crash ==
    /\ burst.phase # "idle"
    /\ faults < MaxFaults /\ faults' = faults + 1
    /\ burst' = Idle
    /\ UNCHANGED <<clock, raw, journal, cursor, barred>>

Normalizer ==
    BeginBurst \/ SelectDebt \/ SelectFresh \/ WriteChunk \/ FailChunk \/ EndLane

Others == \/ \E t \in Trades : \/ \E at \in 1..MaxTime : Ingest(t, at)
                               \/ \E e \in Economics : Dispute(t, e)
                               \/ Verify(t) \/ Contradict(t)
          \/ Tick \/ Retry \/ Crash

Next == Normalizer \/ Others

Spec == Init /\ [][Next]_vars

(* The task runs a burst every 250 ms while the process is up; nothing is  *)
(* owed by the chain, the metadata workers or the clock.  In every state   *)
(* the normalizer has a next step, so that this is WF_vars(Normalizer),    *)
(* without an ENABLED for TLC to evaluate in each of them.                 *)
LiveSpec == Spec /\ []<><<Normalizer>>_vars

-----------------------------------------------------------------------------
(* Properties. *)

Event == [trade : Trades, source : 1..MaxTime, at : 1..MaxTime]

(* The state has its shape, and the debt lane takes at most its quarter of *)
(* a burst, whatever the pages of both venues hold.                        *)
JournalTypeOK ==
    /\ clock \in 0..MaxTime /\ faults \in 0..MaxFaults
    /\ evidence \in [Trades -> [economics : {0} \union Economics, at : 0..MaxTime]]
    /\ conflicts \subseteq Trades \X Economics
    /\ known \subseteq Trades /\ contradicted \subseteq Trades /\ barred \subseteq Trades
    /\ journal \in Seq(Event)
    /\ cursor \in [Venues -> (0..MaxTime) \X Nat \X Nat]
    /\ burst \in [phase : {"idle", "debt", "write_debt", "fresh", "write_fresh"},
                   accepted : 0..MaxTime, selected : Seq(Trades),
                   normalized : 0..BurstLimit, tries : 0..1]
    /\ burst.phase = "write_debt" =>
          burst.normalized + Len(burst.selected) <= DebtLimit

(* The journal can be replayed by sequence or by time: an event never      *)
(* stands behind one that was accepted later, none was accepted before its *)
(* source was observed, and no trade is in it twice, through retries,      *)
(* crashes and both lanes.                                                 *)
JournalOrdered ==
    \A n \in 1..Len(journal) :
        /\ journal[n].source = evidence[journal[n].trade].at
        /\ journal[n].source <= journal[n].at
        /\ \A m \in 1..n - 1 : /\ journal[m].at <= journal[n].at
                               /\ journal[m].trade # journal[n].trade

(* A trade that is disputed before a burst begins is never made canonical. *)
QuarantineHolds == \A t \in barred : ~Canonical(t)

Ready(t) == Stored(evidence, t) /\ t \in known /\ Eligible(t)
Settled(t) == Canonical(t) \/ Quarantined(conflicts, t) \/ t \in contradicted
Blocked == {t \in Trades : Stored(evidence, t) /\ Eligible(t)
                              /\ t \notin known \union contradicted}
Poison == {t \in contradicted : Stored(evidence, t) /\ Eligible(t)}

(* Rows that cannot be resolved yet do not hold back those that can, as    *)
(* long as they fill no page of the debt lane and no contradicted row is   *)
(* left: every ready row becomes canonical, through crashes, retries,      *)
(* cursors that were not stored and the bursts that a contradicted row     *)
(* ended before it was disputed.                                           *)
CatchesUp ==
    <>[](Cardinality(Blocked) < DebtLimit /\ Poison = {})
        => \A t \in Trades : Ready(t) ~> Settled(t)

(* Refuted by TLC (README): the same with contradicted rows left over.     *)
(* One of them ends the burst that selects it, each time, and keeps what   *)
(* stands behind it in the page out of the journal.                        *)
CatchesUpPastPoison ==
    <>[](Cardinality(Blocked) < DebtLimit) => \A t \in Trades : Ready(t) ~> Settled(t)

(* Refuted by TLC (README): normalization skips every disputed trade       *)
(* (2026-08-29-fl1-fork-conflict-quarantine.md:20).                        *)
SkipsQuarantined ==
    [][\A n \in 1..Len(journal') :
          n > Len(journal) => ~Quarantined(conflicts, journal'[n].trade)]_vars

(* Refuted by TLC (README): one quarter of a burst makes deterministic     *)
(* historical progress (fast_event_normalizer.rs:167-168), so that every   *)
(* ready row becomes canonical.                                            *)
HistoricalProgress == \A t \in Trades : Ready(t) ~> Settled(t)

(* Every event of the journal is one it may hold, at its place.            *)
JournalSound == JournalTypeOK /\ JournalOrdered
=============================================================================
