----------------------------- MODULE PaperLoop ------------------------------
(***************************************************************************)
(* The paper loop (shreks_brain/paper_loop/engine.py): one cycle executes  *)
(* the entry left pending, selects at most one new entry, and works the    *)
(* exit of every position that was open when the cycle began.  Its state   *)
(* lives between cycles: a deferred entry and an exit decided in one cycle *)
(* are executed in a later one, against later quotes.                      *)
(*                                                                         *)
(* Entries pass the risk engine (shreks_brain/risk/engine.py) on facts     *)
(* derived from the ledger as it was before the cycle                      *)
(* (observer_campaign/risk_context.py); the setup, score and decision      *)
(* engines and the risk gates on evidence are in a candidate's `approved'. *)
(* One exit policy is in force, as in a campaign.                          *)
(***************************************************************************)
EXTENDS PaperExit, FiniteSets

CONSTANTS
    Mints,           \* the tokens
    CandidateLists,  \* the sequences of [mint, approved] a cycle may be given
    QuoteKinds,      \* quotes without their mint, with their age: [age, ...]
    Observations,    \* the exit observations a position may be given
    MaxPositions,    \* max_simultaneous_positions
    MaxRisk,         \* max_aggregate_open_risk_usd
    TargetNotional,  \* target_position_notional_usd
    MaxSlippage,     \* max_slippage_bps of entries and exits
    StartingCash,    \* starting_cash_usd
    MinStep,         \* bound: the least time between two cycles
    Horizon          \* bound: the last instant of the clock

ASSUME LoopAssumption ==
    /\ MaxPositions \in Nat \ {0} /\ MaxRisk \in Nat \ {0}
    /\ TargetNotional \in Nat \ {0} /\ MaxSlippage \in Nat
    /\ StartingCash \in Nat /\ Horizon \in Nat
    \* a cycle at the time of the last one is not run again: the campaign takes
    \* it for a replay (observer_campaign/runtime.py)
    /\ MinStep \in Nat \ {0}
    \* a sale of a whole quantity has an integer notional
    /\ Unit = 1

Signals == {"MARKET_ALARM", "FLOW_ALARM"}
Candidates == [mint : Mints, approved : BOOLEAN]

\* What a cycle may be given: positive prices, known signals and states.
ASSUME CycleAssumption ==
    /\ CandidateLists \subseteq Seq(Candidates)
    /\ \A k \in QuoteKinds : /\ k.age \in Nat /\ k.avail \in Nat
                             /\ k.ref \in Nat \ {0} /\ k.price \in Nat \ {0}
                             /\ k.state \in QuoteStates
    /\ \A o \in Observations : /\ o.halt \in BOOLEAN /\ o.signals \subseteq Signals
                               /\ o.price \in (Nat \ {0}) \cup {None}

\* The values that may be absent.
BuyKeys == {"BUY"} \X Mints \X Nat

EntryIntents ==
    [key : BuyKeys, mint : Mints, side : {"BUY"}, notional : Nat \ {0}, asOf : Nat,
     maxSlippage : Nat]

CycleQuotes ==
    [mint : Mints, observed : Int, ref : Nat \ {0}, price : Nat \ {0}, avail : Nat,
     state : QuoteStates]

ExitStates ==
    [opened : Nat, evaluated : Nat, done : SUBSET (DOMAIN TakeProfits), high : Nat]

Decisions ==
    [action : {"HOLD", "REDUCE", "EXIT"}, reason : Triggers \cup {"NONE"}, qty : Nat,
     level : (DOMAIN TakeProfits) \cup {None}, price : (Nat \ {0}) \cup {None}, asOf : Nat,
     state : ExitStates]

\* None is none of them.
ASSUME NoneAssumption ==
    /\ None \notin Nat /\ None \notin BuyKeys
    /\ None \notin QuoteKinds /\ None \notin Observations
    /\ None \notin EntryIntents /\ None \notin CycleQuotes /\ None \notin Decisions

VARIABLES
    ledger,     \* the paper ledger
    managed,    \* open position -> [exit: its exit state, pending: its decision]
    entry,      \* the entry intent left pending, or None
    lastCycle   \* last_cycle_at_unix_ms

vars == <<ledger, managed, entry, lastCycle>>

State == [ledger |-> ledger, managed |-> managed, entry |-> entry,
          lastCycle |-> lastCycle]

OpenIn(l) == {n \in DOMAIN l.positions : l.positions[n].state = "OPEN"}
IdsOf(l, ns) == {l.positions[n].id : n \in ns}
Locate(l, id) == CHOOSE n \in DOMAIN l.positions : l.positions[n].id = id

-----------------------------------------------------------------------------
(* Risk.                                                                   *)

OpenRisk(l) ==
    Total([n \in DOMAIN l.positions |->
              IF l.positions[n].state = "OPEN" THEN l.positions[n].basis ELSE 0])

\* the rolling drawdown is known only when every open position is marked
DrawdownKnown(l) == \A n \in OpenIn(l) : l.positions[n].mark # None

RiskAccepts(l, c) ==
    /\ c.approved
    /\ Cardinality(OpenIn(l)) < MaxPositions
    /\ OpenRisk(l) < MaxRisk
    /\ DrawdownKnown(l)

\* Mutant: sizing ignores what is at risk already.
RequestedTarget(l) == TargetNotional

RequestedNotional(l) ==
    IF TargetNotional <= MaxRisk - OpenRisk(l) THEN TargetNotional
    ELSE MaxRisk - OpenRisk(l)

EntryIntent(l, c, at) ==
    [key |-> <<"BUY", c.mint, at>>, mint |-> c.mint, side |-> "BUY",
     notional |-> RequestedNotional(l), asOf |-> at,
     maxSlippage |-> MaxSlippage]

-----------------------------------------------------------------------------
(* Entries.  `s' is the cycle's working state: ledger, managed, entry and  *)
(* whether the cycle's one entry slot is used.                             *)

Bought(i, x, l) == Verdict(l, i, x) = "APPLIED" /\ x.state \in Fills

EnsureManagedAfterBuy(m, l, mint) ==
    LET p == l.positions[FindOpen(l, mint)]
    IN  IF p.id \in DOMAIN m THEN m
        ELSE [id \in DOMAIN m \cup {p.id} |->
                IF id = p.id THEN [exit |-> CreateExitState(p), pending |-> None]
                             ELSE m[id]]

\* Execute an entry, new or pending, and book it unless it is deferred.
ExecuteEntry(s, i, cycle) ==
    LET x == ExecutePaperIntent(i, cycle.at, cycle.quotes[i.mint], s.ledger.processed)
        l == ApplyPaperExecution(s.ledger, i, x)
    IN  IF x.state = "DEFERRED" THEN [s EXCEPT !.entry = i, !.slotUsed = TRUE]
        ELSE [ledger |-> l,
              managed |-> IF Bought(i, x, s.ledger)
                          THEN EnsureManagedAfterBuy(s.managed, l, i.mint)
                          ELSE s.managed,
              entry |-> None,
              slotUsed |-> TRUE]

\* Mutant: a pending entry that ends leaves the slot to a candidate.
WorkPendingEntryFreeingSlot(s, cycle) ==
    IF s.entry = None THEN s
    ELSE LET after == ExecuteEntry(s, s.entry, cycle)
         IN  [after EXCEPT !.slotUsed = after.entry # None]

WorkPendingEntry(s, cycle) ==
    IF s.entry = None THEN s ELSE ExecuteEntry(s, s.entry, cycle)

Selectable(s, c) == ~s.slotUsed /\ OpenAt(s.ledger, c.mint) = {}

\* `before' is the ledger the risk facts were derived from.
WorkCandidate(s, c, before, cycle) ==
    IF Selectable(s, c) /\ RiskAccepts(before, c)
    THEN ExecuteEntry(s, EntryIntent(before, c, cycle.at), cycle) ELSE s

WorkCandidates(s, before, cycle) ==
    LET worked[n \in 0..Len(cycle.candidates)] ==
            IF n = 0 THEN s
            ELSE WorkCandidate(worked[n - 1], cycle.candidates[n], before, cycle)
    IN  worked[Len(cycle.candidates)]

-----------------------------------------------------------------------------
(* Exits.                                                                  *)

\* Mutant: the latest decision replaces the pending one, a HOLD cancels it.
ReconciledWithLatest(pending, fresh) ==
    IF fresh.action = "HOLD" THEN None ELSE fresh

Reconciled(pending, fresh) ==
    IF \/ fresh.action = "EXIT" /\ (pending = None \/ pending.action = "REDUCE")
       \/ fresh.action = "REDUCE" /\ pending = None
    THEN fresh ELSE pending

\* An UNAVAILABLE quote has no execution price: the decision waits for another.
ExitQuoteUsable(pending, q, at) ==
    /\ q # None /\ q.observed <= at
    /\ q.observed >= pending.asOf + Latency
    /\ q.state # "UNAVAILABLE"

\* Mutant: the key of an exit does not say when it was decided.
ExitIntentUndated(p, pending, q) ==
    [key |-> <<"SELL", p.id, pending.reason, pending.qty>>, mint |-> p.mint,
     side |-> "SELL", notional |-> pending.qty * q.price, asOf |-> pending.asOf,
     maxSlippage |-> MaxSlippage]

ExitIntent(p, pending, q) ==
    [key |-> <<"SELL", p.id, pending.asOf, pending.reason, pending.qty>>,
     mint |-> p.mint, side |-> "SELL", notional |-> pending.qty * q.price,
     asOf |-> pending.asOf, maxSlippage |-> MaxSlippage]

\* Mutant: a decision stays pending until it sold everything it was for.
SettledKeeping(exit, pending) == [exit |-> exit, pending |-> pending]

\* What is managed after a terminal attempt that left the position open.
Settled(exit, pending) == [exit |-> exit, pending |-> None]

\* The pending decision is executed; it is over once the attempt is terminal,
\* whether the ledger applied or rejected it.
SellPending(s, n, exit, pending, cycle) ==
    LET p == s.ledger.positions[n]
        q == cycle.quotes[p.mint]
        i == ExitIntent(p, pending, q)
        x == ExecutePaperIntent(i, cycle.at, q, s.ledger.processed)
        l == ApplyPaperExecution(s.ledger, i, x)
        acknowledged ==
            IF Verdict(s.ledger, i, x) = "APPLIED"
            THEN AcknowledgeExitFill(exit, pending, p, l.positions[n]) ELSE exit
    IN  IF x.state = "DEFERRED"
        THEN [s EXCEPT !.managed[p.id] = [exit |-> exit, pending |-> pending]]
        ELSE [s EXCEPT
                !.ledger = l,
                !.managed =
                    IF l.positions[n].state = "CLOSED"
                    THEN [id \in DOMAIN @ \ {p.id} |-> @[id]]
                    ELSE [@ EXCEPT ![p.id] = Settled(acknowledged, pending)]]

\* _mark_from_fresh_assessment
MarkFresh(s, n, fresh, at) ==
    IF fresh # None /\ fresh.price # None /\ MayMark(s.ledger, n, at)
    THEN [s EXCEPT !.ledger = MarkPaperPosition(@, n, fresh.price, at)]
    ELSE s

WorkExit(s, n, cycle) ==
    LET p == s.ledger.positions[n]
        m == s.managed[p.id]
        o == cycle.observations[p.id]
        fresh == IF o = None THEN None ELSE AssessExit(p, m.exit, o, cycle.at)
        exit == IF o = None THEN m.exit ELSE fresh.state
        pending == IF o = None THEN m.pending ELSE Reconciled(m.pending, fresh)
        worked ==
            IF pending # None /\ ExitQuoteUsable(pending, cycle.quotes[p.mint], cycle.at)
            THEN SellPending(s, n, exit, pending, cycle)
            ELSE [s EXCEPT !.managed[p.id] = [exit |-> exit, pending |-> pending]]
    IN  MarkFresh(worked, n, fresh, cycle.at)

\* Of the positions that were open when the cycle began, in their order.
WorkExits(s, before, cycle) ==
    LET worked[n \in 0..Len(before.positions)] ==
            IF n = 0 THEN s
            ELSE IF before.positions[n].state = "OPEN"
                 THEN WorkExit(worked[n - 1], n, cycle) ELSE worked[n - 1]
    IN  worked[Len(before.positions)]

-----------------------------------------------------------------------------

Completed(s, at) ==
    [ledger |-> s.ledger, managed |-> s.managed, entry |-> s.entry, lastCycle |-> at]

RunPaperCycle(s, cycle) ==
    LET working == [ledger |-> s.ledger, managed |-> s.managed,
                    entry |-> s.entry, slotUsed |-> FALSE]
        entered == WorkCandidates(WorkPendingEntry(working, cycle), s.ledger, cycle)
    IN  IF cycle.at < s.lastCycle THEN s
        ELSE Completed(WorkExits(entered, s.ledger, cycle), cycle.at)

Stamped(kind, mint, at) ==
    [mint |-> mint, observed |-> at - kind.age, ref |-> kind.ref,
     price |-> kind.price, avail |-> kind.avail, state |-> kind.state]

CycleInput(at, candidates, kinds, observations) ==
    [at |-> at, candidates |-> candidates, observations |-> observations,
     quotes |-> [m \in Mints |-> IF kinds[m] = None THEN None
                                 ELSE Stamped(kinds[m], m, at)]]

Init ==
    /\ ledger = CreatePaperLedger(StartingCash, 0)
    /\ managed = <<>>
    /\ entry = None
    /\ lastCycle = 0

Become(next) ==
    /\ ledger' = next.ledger
    /\ managed' = next.managed
    /\ entry' = next.entry
    /\ lastCycle' = next.lastCycle

Cycle(cycle) == Become(RunPaperCycle(State, cycle))

NoQuotes == [m \in Mints |-> None]

\* A cycle may be given a clock that went back: it changes nothing.
Next ==
    \/ \E at \in (lastCycle + MinStep)..Horizon,
          candidates \in CandidateLists,
          kinds \in [Mints -> QuoteKinds \cup {None}],
          observations \in [DOMAIN managed -> Observations \cup {None}] :
              Cycle(CycleInput(at, candidates, kinds, observations))
    \/ /\ lastCycle > 0
       /\ Cycle(CycleInput(lastCycle - 1, <<>>, NoQuotes,
                           [id \in DOMAIN managed |-> None]))

Spec == Init /\ [][Next]_vars

-----------------------------------------------------------------------------
(* Properties.                                                             *)

Position(id) == ledger.positions[Locate(ledger, id)]
OpenIds == IdsOf(ledger, OpenIn(ledger))

\* What the constructors of PaperLoopState, ManagedPaperPosition and ExitState
\* insist on; run_paper_cycle raises, and the campaign stops, when a cycle
\* computes anything else.  Above all, the positions with exit management are
\* exactly those the ledger holds open.
TypeOK ==
    /\ DOMAIN managed = OpenIds
    /\ lastCycle \in 0..Horizon /\ ledger.asOf <= lastCycle
    /\ ledger.cash \in Nat
    /\ entry # None => entry.side = "BUY" /\ entry.asOf <= lastCycle
    /\ \A id \in DOMAIN managed :
        LET exit == managed[id].exit
            pending == managed[id].pending
        IN  /\ exit.opened <= exit.evaluated /\ exit.evaluated <= lastCycle
            /\ exit.done \subseteq DOMAIN TakeProfits
            /\ pending # None =>
                  /\ pending.action \in {"REDUCE", "EXIT"}
                  /\ pending.qty > 0
                  /\ pending.asOf <= exit.evaluated

\* A position is bought once: nothing adds to it, and no entry is left pending
\* for a token that is held.
NeverAveragedIn ==
    /\ \A n \in DOMAIN ledger.positions : ledger.positions[n].buys = 1
    /\ entry # None => OpenAt(ledger, entry.mint) = {}

\* A pending decision still fits the position it was made for, however many
\* cycles passed since: it never sells more than is held, and an exit sells
\* all of it.
PendingFitsPosition ==
    \A id \in DOMAIN managed :
        LET pending == managed[id].pending
        IN  pending # None =>
              /\ pending.qty <= Position(id).qty
              /\ pending.action = "EXIT" => pending.qty = Position(id).qty

\* The limits of the risk policy hold for what is held, although facts are
\* taken before the cycle and an entry may fill cycles after its approval.
\* (The cost basis carries the entry costs, which sizing does not know.)
WithinRiskLimits ==
    LET costs == (TargetNotional * SwapFeeBps) \div 10000 + NetworkFee
    IN  /\ Cardinality(OpenIn(ledger)) <= MaxPositions
        /\ OpenRisk(ledger) <= MaxRisk + costs

\* A position's high-water price is the highest it was ever bought or marked
\* at: the trailing stop measures from there and never from lower.
HighWaterKept ==
    [][\A id \in DOMAIN managed \cap DOMAIN managed' :
          /\ managed'[id].exit.high >= managed[id].exit.high
          /\ Position(id)'.mark # None =>
                managed'[id].exit.high >= Position(id)'.mark]_vars

\* At most one entry is bought in a cycle, whatever was pending and however
\* many candidates are approved.
OneEntryPerCycle ==
    [][Cardinality({n \in DOMAIN ledger'.entries \ DOMAIN ledger.entries :
          ledger'.entries[n].side = "BUY"}) <= 1]_vars

\* The cash after the first k entries of a journal.
Balance(l, k) == StartingCash + Total([n \in 1..k |-> l.entries[n].cash])

\* A decision to exit is not forgotten: as long as the position is open it
\* stays pending until an attempt to execute it is in the journal, or was
\* refused because at that moment the account could not pay for it.
ExitStaysPending ==
    [][\A id \in DOMAIN managed :
          LET pending == managed[id].pending
              attempt(e) == e.side = "SELL" /\ e.position = id
          IN  pending # None /\ pending.action = "EXIT" =>
                \/ id \in DOMAIN managed' /\ managed'[id].pending = pending
                \/ \E n \in DOMAIN ledger'.entries \ DOMAIN ledger.entries :
                        attempt(ledger'.entries[n])
                \/ \E k \in Len(ledger.entries)..Len(ledger'.entries) :
                        Balance(ledger', k) < NetworkFee]_vars

\* A take-profit level is completed only by a sale of at least its share of
\* the position, booked in the same cycle.
TakeProfitEarned ==
    [][\A id \in DOMAIN managed \cap DOMAIN managed' :
          \A k \in managed'[id].exit.done \ managed[id].exit.done :
              Position(id)'.qty <=
                  Position(id).qty - Share(Position(id).qty, TakeProfits[k].reduce)]_vars

-----------------------------------------------------------------------------
(* What the next cycle does, for every state reached.                      *)

\* A quote deep and close enough to sell the whole position, for more than
\* the sale costs.
Sells(q, p) ==
    LET proceeds == p.qty * q.price
    IN  /\ q.state = "EXECUTABLE" /\ q.avail >= proceeds
        /\ (q.ref - q.price) * 10000 <= MaxSlippage * q.ref
        /\ proceeds >= (proceeds * SwapFeeBps) \div 10000 + NetworkFee

\* A pending exit whose token has an executable quote inside its window closes
\* the position in that cycle, whatever the cycle buys or decides besides.
ExitExecutes ==
    \A id \in DOMAIN managed :
      LET pending == managed[id].pending
          p == Position(id)
      IN  pending # None /\ pending.action = "EXIT" =>
          \A at \in {t \in lastCycle..Horizon : t <= pending.asOf + Latency + MaxQuoteLag},
             candidates \in CandidateLists,
             kinds \in [Mints -> QuoteKinds],
             o \in Observations \cup {None} :
               LET cycle == CycleInput(at, candidates, kinds,
                               [j \in DOMAIN managed |-> IF j = id THEN o ELSE None])
                   next == RunPaperCycle(State, cycle)
                   q == cycle.quotes[p.mint]
               IN  Sells(q, p) /\ q.observed >= pending.asOf + Latency =>
                       id \notin DOMAIN next.managed

\* An operator's kill switch forces an exit decision on every position that is
\* observed, even when there is no price, and no HOLD or take-profit of an
\* earlier or the same cycle stands in its way.
KillSwitchForcesExit ==
    \A id \in DOMAIN managed, at \in lastCycle..Horizon,
       o \in {x \in Observations : x.halt} :
        LET cycle == CycleInput(at, <<>>, NoQuotes,
                        [j \in DOMAIN managed |-> IF j = id THEN o ELSE None])
            next == RunPaperCycle(State, cycle)
        IN  /\ id \in DOMAIN next.managed
            /\ next.managed[id].pending # None
            /\ next.managed[id].pending.action = "EXIT"

-----------------------------------------------------------------------------
(* The same, in the groups the runs check.                                 *)

\* Ledger and exit management agree, and pending decisions fit what is held.
LoopConsistent == TypeOK /\ PendingFitsPosition

\* What is held was never averaged into and stays within the risk policy.
ExposureBounded == NeverAveragedIn /\ WithinRiskLimits

\* What an exit remembers between cycles is kept until it is acted on: the
\* high-water mark, the decision to exit, the take-profit levels still open.
ExitMemoryKept == HighWaterKept /\ ExitStaysPending /\ TakeProfitEarned
=============================================================================
