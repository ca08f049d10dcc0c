---------------------------- MODULE PaperLedger -----------------------------
(***************************************************************************)
(* The authoritative paper ledger under any use of its interface.          *)
(*                                                                         *)
(* An execution attempt reads the ledger (which keys are settled), and its *)
(* result is booked later: other results may be booked in between, the same*)
(* intent may have been attempted twice, a result may be booked again or be*)
(* paired with the wrong intent.  The ledger must stay reconciled with its *)
(* journal whatever arrives.  Marks arrive at any time.                    *)
(***************************************************************************)
EXTENDS PaperAccounting, SequencesExt

CONSTANTS
    Intents,       \* the trade intents that may be attempted
    Quotes,        \* the quotes an attempt may be made against
    MarkPrices,    \* the prices a position may be marked to
    StartingCash,  \* starting_cash_usd
    MaxResults,    \* bound: results computed and kept for booking
    Horizon        \* bound: the last instant of the clock

ASSUME InputAssumption ==
    /\ StartingCash \in Nat /\ Horizon \in Nat /\ MaxResults \in Nat
    /\ MarkPrices \subseteq Nat \ {0}
    /\ \A i \in Intents : /\ i.key # None /\ i.side \in Sides
                          /\ i.notional \in Nat \ {0}
                          /\ i.asOf \in Nat
                          /\ i.maxSlippage \in Nat
    /\ \A q \in Quotes : /\ q.state \in QuoteStates
                         /\ q.observed \in Nat
                         /\ q.ref \in Nat \ {0} /\ q.avail \in Nat
                         /\ q.price \in Nat \ {0}

VARIABLES
    ledger,    \* the paper ledger
    results,   \* attempts made: an intent with its execution result
    clock      \* wall clock

vars == <<ledger, results, clock>>

Keys == {i.key : i \in Intents}

Init ==
    /\ ledger = CreatePaperLedger(StartingCash, 0)
    /\ results = {}
    /\ clock = 0

Tick ==
    /\ clock < Horizon
    /\ clock' = clock + 1
    /\ UNCHANGED <<ledger, results>>

\* execute_paper_intent against the keys settled now.
Attempt(i, q) ==
    LET x == ExecutePaperIntent(i, clock, q, ledger.processed)
    IN  /\ results' = results \cup {[intent |-> i, execution |-> x]}
        /\ Cardinality(results') <= MaxResults
        /\ UNCHANGED <<ledger, clock>>

\* apply_paper_execution: the result stays and may be delivered again.
Deliver(i, x) ==
    /\ ledger' = ApplyPaperExecution(ledger, i, x)
    /\ UNCHANGED <<results, clock>>

Forget(r) ==
    /\ results' = results \ {r}
    /\ UNCHANGED <<ledger, clock>>

Mark(n, price) ==
    /\ MayMark(ledger, n, clock)
    /\ ledger' = MarkPaperPosition(ledger, n, price, clock)
    /\ UNCHANGED <<results, clock>>

Next ==
    \/ Tick
    \/ \E i \in Intents, q \in Quotes \cup {None} : Attempt(i, q)
    \/ \E r, s \in results : Deliver(r.intent, s.execution)
    \/ \E r \in results : Forget(r)
    \/ \E n \in DOMAIN ledger.positions, price \in MarkPrices : Mark(n, price)

Spec == Init /\ [][Next]_vars

-----------------------------------------------------------------------------
(* Properties.                                                             *)

\* The sum of what a rule says of each element of a sequence.
SumOver(seq, amount(_)) == Total([n \in DOMAIN seq |-> amount(seq[n])])

\* The same, of the entries linked to a position.
SumLinked(id, amount(_)) ==
    SumOver(ledger.entries, LAMBDA e : IF e.position = id THEN amount(e) ELSE 0)

Signed(e) == IF e.side = "BUY" THEN e.qty ELSE -e.qty

EntryType(e) ==
    /\ e.key \in Keys /\ e.side \in Sides
    /\ e.state \in ExecutionStates \ {"DEFERRED"}
    /\ e.at \in Nat /\ e.at <= ledger.asOf
    /\ e.cost \in Nat /\ e.cash \in Int /\ e.delta \in Int
    /\ IF e.state \in Fills THEN e.qty \in Nat \ {0} /\ e.fill \in Nat \ {0}
                            ELSE e.qty = 0 /\ e.fill = 0

PositionType(p) ==
    /\ p.id \in Keys
    /\ p.state \in {"OPEN", "CLOSED"}
    /\ p.updated \in Nat /\ p.updated <= ledger.asOf
    /\ p.costs \in Nat /\ p.realized \in Int
    /\ p.buys \in Nat \ {0}
    /\ p.mark \in MarkPrices \cup {None}
    /\ IF p.state = "OPEN" THEN p.qty \in Nat \ {0} /\ p.basis \in Nat \ {0}
                           ELSE p.qty = 0 /\ p.basis = 0 /\ p.mark = None

\* The shapes the constructors of PaperLedger, PaperPosition and
\* PaperLedgerEntry insist on: an operation that broke one would raise.
TypeOK ==
    /\ ledger.cash \in Nat /\ ledger.costs \in Nat /\ ledger.realized \in Int
    /\ ledger.asOf \in 0..clock /\ clock \in 0..Horizon
    /\ \A n \in DOMAIN ledger.entries : EntryType(ledger.entries[n])
    /\ \A n \in DOMAIN ledger.positions : PositionType(ledger.positions[n])

\* Cash, realized profit and costs are what the journal says they are
\* (PaperLedger.__post_init__ raises otherwise).
JournalReconciles ==
    /\ ledger.cash = StartingCash + SumOver(ledger.entries, LAMBDA e : e.cash)
    /\ ledger.realized = SumOver(ledger.entries, LAMBDA e : e.delta)
    /\ ledger.costs = SumOver(ledger.entries, LAMBDA e : e.cost)

\* Every position is what the entries linked to it say: what was bought and
\* not sold is what is held, and its profit and costs are theirs.  No entry
\* is linked to a position that does not exist or is of another token.
PositionsReconcile ==
    /\ \A n \in DOMAIN ledger.positions :
         LET p == ledger.positions[n]
         IN  /\ p.qty = SumLinked(p.id, Signed)
             /\ p.realized = SumLinked(p.id, LAMBDA e : e.delta)
             /\ p.costs = SumLinked(p.id, LAMBDA e : e.cost)
    /\ \A n \in DOMAIN ledger.entries :
         ledger.entries[n].position # None =>
             \E m \in DOMAIN ledger.positions :
                 /\ ledger.positions[m].id = ledger.entries[n].position
                 /\ ledger.positions[m].mint = ledger.entries[n].mint

\* Money is conserved: what was not spent on positions still open, nor
\* realized as a gain or loss, is the cash.
MoneyConserved ==
    ledger.cash + SumOver(ledger.positions, LAMBDA p : p.basis)
        = StartingCash + ledger.realized

\* The books reconcile: totals, positions and money say what the journal says.
BooksReconcile == JournalReconciles /\ PositionsReconcile /\ MoneyConserved

\* An intent is settled at most once, however often its results are delivered,
\* and the keys that refuse a repetition are those of the journal.
SettledOnce ==
    /\ \A m, n \in DOMAIN ledger.entries :
           ledger.entries[m].key = ledger.entries[n].key => m = n
    /\ ledger.processed =
           {ledger.entries[n].key : n \in DOMAIN ledger.entries}

\* There is never more than one open position of a token, nor two positions
\* with one identity.
OneOpenPerMint ==
    \A m, n \in DOMAIN ledger.positions :
        LET p == ledger.positions[m]
            r == ledger.positions[n]
        IN  \/ m = n
            \/ /\ p.id # r.id
               /\ p.mint # r.mint \/ p.state = "CLOSED" \/ r.state = "CLOSED"

\* A ledger its constructor accepts: shapes and amounts, each intent settled
\* once, one open position of a token (paper/ledger_models.py).
LedgerSound == TypeOK /\ SettledOnce /\ OneOpenPerMint

\* History is never rewritten: the journal only grows, and a closed position
\* never changes again, whatever is booked on its token later.
HistoryKept ==
    [][/\ IsPrefix(ledger.entries, ledger.entries')
       /\ \A n \in DOMAIN ledger.positions :
            ledger.positions[n].state = "CLOSED" =>
                ledger'.positions[n] = ledger.positions[n]]_vars

\* The ledger's totals move only with the entry that is appended, and by that
\* entry's amounts; time never runs backwards in the journal.
TotalsMoveWithJournal ==
    [][\/ /\ ledger'.entries = ledger.entries
          /\ ledger'.cash = ledger.cash
          /\ ledger'.realized = ledger.realized
          /\ ledger'.costs = ledger.costs
       \/ \E e \in {ledger'.entries[Len(ledger'.entries)]} :
          /\ ledger'.entries = Append(ledger.entries, e)
          /\ ledger'.cash = ledger.cash + e.cash
          /\ ledger'.realized = ledger.realized + e.delta
          /\ ledger'.costs = ledger.costs + e.cost
          /\ e.at >= ledger.asOf]_vars

\* The ledger is a paper account: settled keys, balance and gain are its own,
\* and what is invested is what the balance and the gain do not explain
\* (MoneyConserved says it is the cost of the open positions).
Account ==
    INSTANCE PaperAccount WITH
        settled <- ledger.processed,
        balance <- ledger.cash,
        invested <- StartingCash + ledger.realized - ledger.cash,
        gain <- ledger.realized

ImplementsAccount == Account!Spec
=============================================================================
