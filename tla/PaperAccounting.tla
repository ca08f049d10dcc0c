--------------------------- MODULE PaperAccounting --------------------------
(***************************************************************************)
(* The paper ledger as a value and the operations that take one ledger to  *)
(* the next (shreks_brain/paper/ledger.py): booking an execution result,   *)
(* and marking an open position to a price.  A ledger carries its cash, its*)
(* realized profit, its costs, its positions (closed ones stay) and an     *)
(* append-only journal with one entry per settled intent.                  *)
(*                                                                         *)
(* A position is identified by the key of the BUY that opened it, where    *)
(* the code hashes that key.  The unrealized profit is a function of the   *)
(* mark (UnrealizedOf), where the code stores and re-validates it.         *)
(***************************************************************************)
EXTENDS PaperExecution, Sequences

\* The sum of a sequence of amounts.
Total(amounts) ==
    LET sum[n \in 0..Len(amounts)] ==
            IF n = 0 THEN 0 ELSE sum[n - 1] + amounts[n]
    IN  sum[Len(amounts)]

CreatePaperLedger(start, at) ==
    [cash |-> start, realized |-> 0, costs |-> 0, asOf |-> at,
     positions |-> <<>>, entries |-> <<>>, processed |-> {}]

\* Mutant: a closed position is found again.
OpenAtIgnoringState(l, mint) ==
    {n \in DOMAIN l.positions : l.positions[n].mint = mint}

OpenAt(l, mint) ==
    {n \in DOMAIN l.positions :
        l.positions[n].mint = mint /\ l.positions[n].state = "OPEN"}

FindOpen(l, mint) ==
    CHOOSE n \in OpenAt(l, mint) : \A k \in OpenAt(l, mint) : n <= k

Entry(i, x, position, delta) ==
    [key |-> i.key, position |-> position, mint |-> i.mint, side |-> i.side,
     state |-> x.state, at |-> x.at, qty |-> x.qty, fill |-> x.fill,
     cash |-> x.net, cost |-> x.cost, delta |-> delta]

\* _ledger_after_entry: every total moves with the entry that is appended.
AfterEntry(l, i, x, positions, position, delta) ==
    [cash |-> l.cash + x.net,
     realized |-> l.realized + delta,
     costs |-> l.costs + x.cost,
     asOf |-> x.at,
     positions |-> positions,
     entries |-> Append(l.entries, Entry(i, x, position, delta)),
     processed |-> l.processed \cup {x.key}]

\* A failed attempt is booked on the open position of its token, if any.
BookFailed(l, i, x) ==
    IF OpenAt(l, i.mint) = {}
    THEN AfterEntry(l, i, x, l.positions, None, x.net)
    ELSE LET n == FindOpen(l, i.mint)
             p == l.positions[n]
             charged == [p EXCEPT !.realized = @ + x.net,
                                  !.costs = @ + x.cost,
                                  !.updated = x.at]
         IN  AfterEntry(l, i, x,
                 IF x.net # 0 \/ x.cost # 0
                 THEN [l.positions EXCEPT ![n] = charged] ELSE l.positions,
                 p.id, x.net)

NewPosition(i, x) ==
    [id |-> i.key, mint |-> i.mint, state |-> "OPEN", qty |-> x.qty,
     entry |-> x.price, basis |-> x.fill + x.cost, realized |-> 0,
     costs |-> x.cost, updated |-> x.at, mark |-> None, buys |-> 1]

\* Mutant: costs of an addition are left out of the cost basis.
IncreasedWithoutCosts(p, x) ==
    [p EXCEPT !.qty = @ + x.qty, !.basis = @ + x.fill, !.costs = @ + x.cost,
              !.updated = x.at, !.mark = None, !.buys = @ + 1]

Increased(p, x) ==
    [p EXCEPT !.qty = @ + x.qty,
              !.entry = (p.qty * p.entry + x.fill * Unit) \div (p.qty + x.qty),
              !.basis = @ + x.fill + x.cost,
              !.costs = @ + x.cost,
              !.updated = x.at,
              !.mark = None,
              !.buys = @ + 1]

\* Mutant: entry costs are realized at once although the basis keeps them.
BookBuyRealizingCosts(l, i, x) ==
    IF OpenAt(l, i.mint) = {}
    THEN AfterEntry(l, i, x, Append(l.positions, NewPosition(i, x)), i.key, -x.cost)
    ELSE LET n == FindOpen(l, i.mint)
         IN  AfterEntry(l, i, x, [l.positions EXCEPT ![n] = Increased(@, x)],
                        l.positions[n].id, -x.cost)

BookBuy(l, i, x) ==
    IF OpenAt(l, i.mint) = {}
    THEN AfterEntry(l, i, x, Append(l.positions, NewPosition(i, x)), i.key, 0)
    ELSE LET n == FindOpen(l, i.mint)
         IN  AfterEntry(l, i, x,
                 [l.positions EXCEPT ![n] = Increased(@, x)],
                 l.positions[n].id, 0)

\* The share of the cost basis a sale of q atoms releases.
ReleasedBasis(p, q) ==
    IF q = p.qty THEN p.basis ELSE (p.basis * q) \div p.qty

Reduced(p, x) ==
    LET released == ReleasedBasis(p, x.qty)
    IN  [p EXCEPT !.state = IF x.qty = p.qty THEN "CLOSED" ELSE "OPEN",
                  !.qty = @ - x.qty,
                  !.basis = @ - released,
                  !.realized = @ + (x.net - released),
                  !.costs = @ + x.cost,
                  !.updated = x.at,
                  !.mark = None]

BookSell(l, i, x) ==
    LET n == FindOpen(l, i.mint)
        p == l.positions[n]
    IN  AfterEntry(l, i, x, [l.positions EXCEPT ![n] = Reduced(p, x)],
                   p.id, x.net - ReleasedBasis(p, x.qty))

Mismatched(i, x) ==
    \/ i.key # x.key \/ i.mint # x.mint \/ i.side # x.side
    \/ i.notional # x.notional

\* Mutant: a settled intent is not refused.
RefusedUnlessSettled(l, i, x) == Mismatched(i, x) \/ x.at < l.asOf

Refused(l, i, x) ==
    \/ Mismatched(i, x)
    \/ i.key \in l.processed
    \/ x.at < l.asOf

Unaffordable(l, x) == l.cash + x.net < 0

Oversold(l, i, x) ==
    /\ x.state \in Fills /\ i.side = "SELL"
    /\ \/ OpenAt(l, i.mint) = {}
       \/ x.qty > l.positions[FindOpen(l, i.mint)].qty

\* What apply_paper_execution answers, in the order the code decides it.
Verdict(l, i, x) ==
    IF Refused(l, i, x) THEN "REJECTED"
    ELSE IF x.state = "DEFERRED" THEN "NOOP"
    ELSE IF Unaffordable(l, x) \/ Oversold(l, i, x) THEN "REJECTED"
    ELSE "APPLIED"

ApplyPaperExecution(l, i, x) ==
    IF Verdict(l, i, x) # "APPLIED" THEN l
    ELSE IF x.state = "FAILED" THEN BookFailed(l, i, x)
    ELSE IF i.side = "BUY" THEN BookBuy(l, i, x)
    ELSE BookSell(l, i, x)

MayMark(l, n, at) ==
    n \in DOMAIN l.positions /\ l.positions[n].state = "OPEN" /\ at >= l.asOf

MarkPaperPosition(l, n, price, at) ==
    LET marked == [l.positions[n] EXCEPT !.mark = price, !.updated = at]
    IN  [l EXCEPT !.asOf = at, !.positions = [@ EXCEPT ![n] = marked]]

UnrealizedOf(p) == (p.qty * p.mark) \div Unit - p.basis
=============================================================================
