-------------------------- MODULE PaperLedgerProofs -------------------------
(***************************************************************************)
(* Theorems about PaperLedger, for any intents, quotes, policy and bounds, *)
(* and about Alerts, which tells the phone of that ledger's journal.       *)
(*                                                                         *)
(* The ledger.  The inductive invariant is IndInv: the results computed so *)
(* far have the shape ExecutePaperIntent gives them; the ledger has the    *)
(* shape its constructors insist on; its journal settles a key once; and   *)
(* positions are identified by settled keys, so that a position opened by  *)
(* an intent that is not settled is a new one.                             *)
(*                                                                         *)
(* The alerts.  The inductive invariant is AlertInv: besides the property, *)
(* the cursor has passed all that was queued or sent, the queue is ordered *)
(* and not behind what was sent, an event that is still to be sent was     *)
(* sent at most once for each fault, and while a halt that was announced   *)
(* lasts, the file has it among its conditions unless telemetry could not  *)
(* be read.                                                                *)
(***************************************************************************)
EXTENDS PaperLedger, PaperAccountingProofs, Alerts, FiniteSetTheorems

Mints == {i.mint : i \in Intents}

Executions ==
    [key : Keys, mint : Mints, side : Sides, notional : Nat \ {0}, at : Nat,
     state : ExecutionStates, fill : Nat, qty : Nat, price : Nat, cost : Nat,
     net : Int]

Entries ==
    [key : Keys, position : Keys \cup {None}, mint : Mints, side : Sides,
     state : ExecutionStates, at : Nat, qty : Nat, fill : Nat, cash : Int,
     cost : Nat, delta : Int]

Positions ==
    [id : Keys, mint : Mints, state : {"OPEN", "CLOSED"}, qty : Nat, entry : Int,
     basis : Nat, realized : Int, costs : Nat, updated : Nat,
     mark : MarkPrices \cup {None}, buys : Nat \ {0}]

Ledgers ==
    [cash : Nat, realized : Int, costs : Nat, asOf : Nat,
     positions : Seq(Positions), entries : Seq(Entries), processed : SUBSET Keys]

\* A result carries a fill exactly when it says so, and its cash flow is that
\* fill less (or plus) its costs.
ExecutionOK(x) ==
    /\ x \in Executions
    /\ IF x.state \in Fills
       THEN /\ x.fill > 0 /\ x.qty > 0
            /\ x.side = "BUY" => x.net = -(x.fill + x.cost)
       ELSE x.fill = 0 /\ x.qty = 0 /\ x.net = -x.cost

EntryOK(e, now) ==
    /\ e.state # "DEFERRED" /\ e.at <= now
    /\ IF e.state \in Fills THEN e.qty > 0 /\ e.fill > 0
                            ELSE e.qty = 0 /\ e.fill = 0

PositionOK(p, now) ==
    /\ p.updated <= now
    /\ IF p.state = "OPEN" THEN p.qty > 0 /\ p.basis > 0
                           ELSE p.qty = 0 /\ p.basis = 0 /\ p.mark = None

\* The shape of a ledger, without its relation to the other variables.
ShapeOK(l) ==
    /\ l \in Ledgers
    /\ \A n \in 1..Len(l.entries) : EntryOK(l.entries[n], l.asOf)
    /\ \A n \in 1..Len(l.positions) : PositionOK(l.positions[n], l.asOf)

\* The journal settles a key once, and the processed keys are the journal's.
KeysOK(l) ==
    /\ \A m, n \in 1..Len(l.entries) : l.entries[m].key = l.entries[n].key => m = n
    /\ l.processed = {l.entries[n].key : n \in 1..Len(l.entries)}

\* Positions are told apart by settled keys, and one of a token is open.
IdentitiesOK(l) ==
    /\ \A n \in 1..Len(l.positions) : l.positions[n].id \in l.processed
    /\ \A m, n \in 1..Len(l.positions) :
         l.positions[m].id = l.positions[n].id => m = n
    /\ \A m, n \in 1..Len(l.positions) :
         /\ l.positions[m].mint = l.positions[n].mint
         /\ l.positions[m].state = "OPEN" /\ l.positions[n].state = "OPEN"
         => m = n

LedgerOK(l) == ShapeOK(l) /\ KeysOK(l) /\ IdentitiesOK(l)

IndInv ==
    /\ clock \in 0..Horizon
    /\ LedgerOK(ledger) /\ ledger.asOf <= clock
    /\ \A r \in results : /\ r.intent \in Intents
                          /\ ExecutionOK(r.execution)
                          /\ r.execution.at <= clock

\* What booking a result at its time may make of a ledger's positions.
PositionsFollow(l, x, ps) ==
    /\ ps \in Seq(Positions)
    /\ \A n \in 1..Len(ps) : /\ PositionOK(ps[n], x.at)
                             /\ ps[n].id \in l.processed \cup {x.key}
    /\ \A m, n \in 1..Len(ps) : ps[m].id = ps[n].id => m = n
    /\ \A m, n \in 1..Len(ps) :
          /\ ps[m].mint = ps[n].mint
          /\ ps[m].state = "OPEN" /\ ps[n].state = "OPEN"
          => m = n
    /\ Len(l.positions) <= Len(ps)
    /\ \A n \in 1..Len(l.positions) :
          l.positions[n].state = "CLOSED" => ps[n] = l.positions[n]

\* What it may realize: nothing when it invests, all of a failure's costs, and
\* for a sale its proceeds less some part of the investment.
MoneyFollows(x, delta) ==
    /\ delta \in Int
    /\ \/ delta = 0 /\ x.net < 0
       \/ delta = x.net /\ x.net <= 0
       \/ delta <= x.net

\* A result is booked on the position its entry names: on none, on one that is
\* there and becomes p, or on p, which it opens; p has what the entry says.
SignedQty(x) == IF x.side = "BUY" THEN x.qty ELSE -x.qty

BookedOnNone(l, x, ps, id, delta) ==
    id = None /\ ps = l.positions /\ delta = x.net

BookedOn(l, i, x, ps, id, delta, k, p) ==
    /\ ps = [l.positions EXCEPT ![k] = p]
    /\ id = l.positions[k].id /\ id = p.id
    /\ l.positions[k].mint = i.mint /\ p.mint = i.mint
    /\ p.qty = l.positions[k].qty + SignedQty(x)
    /\ p.realized = l.positions[k].realized + delta
    /\ p.costs = l.positions[k].costs + x.cost
    /\ p.basis = l.positions[k].basis + (delta - x.net)

BookedOnNew(l, i, x, ps, id, delta, p) ==
    /\ ps = Append(l.positions, p)
    /\ id = x.key /\ id = p.id /\ p.mint = i.mint
    /\ p.qty = SignedQty(x) /\ p.realized = delta /\ p.costs = x.cost
    /\ p.basis = delta - x.net

BooksFollow(l, i, x, ps, id, delta) ==
    \/ BookedOnNone(l, x, ps, id, delta)
    \/ \E k \in 1..Len(l.positions), p \in Positions : BookedOn(l, i, x, ps, id, delta, k, p)
    \/ \E p \in Positions : BookedOnNew(l, i, x, ps, id, delta, p)

-----------------------------------------------------------------------------
(* Lemmas on the operators.                                                *)

\* A result of an execution attempt has the shape the ledger relies on: a
\* fill has a quantity of at least one atom, whatever the price.
LEMMA ExecutionShape ==
    ASSUME NEW i \in Intents, NEW q \in Quotes \cup {None}, NEW at \in Nat,
           NEW processed
    PROVE  LET x == ExecutePaperIntent(i, at, q, processed)
           IN  ExecutionOK(x) /\ x.at = at
<1> DEFINE x == ExecutePaperIntent(i, at, q, processed)
<1>1. /\ i.key \in Keys /\ i.mint \in Mints /\ i.side \in Sides
      /\ i.notional \in Nat \ {0} /\ NetworkFee \in Nat
  BY InputAssumption, PolicyAssumption DEF Keys, Mints
<1>2. ASSUME NEW s \in {"FAILED", "DEFERRED"}, NEW fee \in Nat
      PROVE  ExecutionOK(Terminal(i, at, s, fee)) /\ Terminal(i, at, s, fee).at = at
  BY <1>1, <1>2 DEF Terminal, Outcome, ExecutionOK, Executions, ExecutionStates, Fills
<1>3. ASSUME q \in Quotes, Fillable(i, q)
      PROVE  ExecutionOK(Filled(i, at, q)) /\ Filled(i, at, q).at = at
  <2> DEFINE fill == FillNotional(i, q)
             cost == (fill * SwapFeeBps) \div 10000 + NetworkFee
             qty == Quantity(fill, q.price)
  <2>1. q.avail \in Nat /\ q.price \in Nat \ {0}
    BY <1>3, InputAssumption
  <2>2. fill \in Nat \ {0}
    BY <1>1, <1>3, <2>1 DEF Fillable, FillNotional
  <2>3. Filled(i, at, q) = Outcome(i, at, IF fill < i.notional THEN "PARTIAL" ELSE "FILLED",
                                   fill, qty, q.price, cost,
                                   IF i.side = "BUY" THEN -(fill + cost) ELSE fill - cost)
    BY DEF Filled
  <2> HIDE DEF fill
  <2>4. qty \in Nat \ {0} /\ cost \in Nat
    BY <2>1, <2>2, QuantityPositive, CostIsNat
  <2> HIDE DEF cost, qty
  <2> QED
    BY <1>1, <2>1, <2>2, <2>3, <2>4
    DEF Outcome, ExecutionOK, Executions, ExecutionStates, Fills
<1>4. CASE q = None
  BY <1>1, <1>2, <1>4 DEF ExecutePaperIntent, InWindow
<1>5. CASE q \in Quotes
  BY <1>1, <1>2, <1>3, <1>5 DEF ExecutePaperIntent
<1> QED BY SMTT(30), <1>4, <1>5

\* The types of a position's fields.
LEMMA PositionFields ==
    ASSUME NEW p \in Positions
    PROVE  /\ p.id \in Keys /\ p.mint \in Mints /\ p.qty \in Nat /\ p.entry \in Int
           /\ p.basis \in Nat /\ p.realized \in Int /\ p.costs \in Nat
           /\ p.mark \in MarkPrices \cup {None} /\ p.buys \in Nat \ {0}
           /\ p.state \in {"OPEN", "CLOSED"}
BY DEF Positions

\* What is in order at one time is in order later.
LEMMA PositionOKLater ==
    ASSUME NEW p \in Positions, NEW t \in Nat, NEW u \in Nat, t <= u, PositionOK(p, t)
    PROVE  PositionOK(p, u)
<1>1. p.updated \in Nat
  BY DEF Positions
<1> QED BY <1>1 DEF PositionOK

\* The open position a booking finds is one: there is at most one per token.
LEMMA FindOpenIsOpen ==
    ASSUME NEW l, LedgerOK(l), NEW mint, OpenAt(l, mint) # {}
    PROVE  /\ FindOpen(l, mint) \in 1..Len(l.positions)
           /\ l.positions[FindOpen(l, mint)] \in Positions
           /\ l.positions[FindOpen(l, mint)].mint = mint
           /\ l.positions[FindOpen(l, mint)].state = "OPEN"
<1>1. l.positions \in Seq(Positions) /\ DOMAIN l.positions = 1..Len(l.positions)
  BY DEF LedgerOK, ShapeOK, Ledgers
<1>2. PICK n \in OpenAt(l, mint) : TRUE
  OBVIOUS
<1>3. \A k \in OpenAt(l, mint) : k = n
  BY <1>1, <1>2 DEF OpenAt, LedgerOK, IdentitiesOK
<1>4. n \in Nat /\ \A k \in OpenAt(l, mint) : n <= k
  BY <1>1, <1>2, <1>3 DEF OpenAt
<1>5. FindOpen(l, mint) \in OpenAt(l, mint)
  BY <1>2, <1>4 DEF FindOpen
<1> QED BY <1>1, <1>5, ElementOfSeq DEF OpenAt

\* Appending an entry keeps the ledger in order, whatever the positions become,
\* provided those are in order themselves.
LEMMA AfterEntryOK ==
    ASSUME NEW l, LedgerOK(l), NEW i \in Intents, NEW x, ExecutionOK(x),
           ~Refused(l, i, x), x.state # "DEFERRED", ~Unaffordable(l, x),
           NEW positions, PositionsFollow(l, x, positions),
           NEW id \in Keys \cup {None}, NEW delta \in Int
    PROVE  LedgerOK(AfterEntry(l, i, x, positions, id, delta))
<1> DEFINE e == Entry(i, x, id, delta)
           ll == AfterEntry(l, i, x, positions, id, delta)
<1>1. /\ i.key = x.key /\ i.mint = x.mint /\ i.side = x.side
      /\ x.key \notin l.processed /\ x.at >= l.asOf
  BY SMTT(30) DEF Refused, Mismatched, ExecutionOK, Executions, LedgerOK, ShapeOK, Ledgers
<1>2. e \in Entries /\ EntryOK(e, x.at) /\ e.key = x.key
  BY <1>1 DEF Entry, Entries, EntryOK, ExecutionOK, Executions, ExecutionStates
<1> HIDE DEF e
<1>3. l.entries \in Seq(Entries) /\ l.asOf \in Nat
  BY DEF LedgerOK, ShapeOK, Ledgers
<1>4. /\ Append(l.entries, e) \in Seq(Entries)
      /\ Len(Append(l.entries, e)) = Len(l.entries) + 1
      /\ Len(l.entries) \in Nat
      /\ \A n \in 1..Len(l.entries) : Append(l.entries, e)[n] = l.entries[n]
      /\ Append(l.entries, e)[Len(l.entries) + 1] = e
  BY <1>2, <1>3
<1>5. ll = [cash |-> l.cash + x.net, realized |-> l.realized + delta,
            costs |-> l.costs + x.cost, asOf |-> x.at, positions |-> positions,
            entries |-> Append(l.entries, e),
            processed |-> l.processed \cup {x.key}]
  BY DEF AfterEntry, e
<1> HIDE DEF ll
<1>6. ll \in Ledgers
  <2>1. /\ l.cash \in Nat /\ l.realized \in Int /\ l.costs \in Nat
        /\ l.processed \in SUBSET Keys
    BY DEF Ledgers, LedgerOK, ShapeOK
  <2>2. x.key \in Keys /\ x.net \in Int /\ x.cost \in Nat /\ x.at \in Nat
    BY DEF ExecutionOK, Executions
  <2>3. l.cash + x.net \in Nat
    BY <2>1, <2>2 DEF Unaffordable
  <2>4. /\ l.realized + delta \in Int /\ l.costs + x.cost \in Nat
        /\ l.processed \cup {x.key} \in SUBSET Keys
    BY <2>1, <2>2
  <2> QED BY <1>4, <1>5, <2>2, <2>3, <2>4 DEF Ledgers, PositionsFollow
<1>7. \A n \in 1..Len(ll.entries) : EntryOK(ll.entries[n], ll.asOf)
  <2> SUFFICES ASSUME NEW n \in 1..Len(ll.entries)
               PROVE  EntryOK(ll.entries[n], x.at)
    BY <1>5
  <2>1. CASE n \in 1..Len(l.entries)
    <3>1. EntryOK(l.entries[n], l.asOf) /\ l.entries[n] \in Entries
      BY <1>3, <2>1, ElementOfSeq DEF LedgerOK, ShapeOK
    <3>2. x.at \in Nat /\ l.entries[n].at \in Nat
      BY <3>1 DEF Entries, ExecutionOK, Executions
    <3> QED BY SMTT(30), <1>1, <1>3, <1>4, <1>5, <2>1, <3>1, <3>2 DEF EntryOK
  <2>2. CASE n = Len(l.entries) + 1
    BY <1>2, <1>4, <1>5, <2>2
  <2> QED BY <1>4, <1>5, <2>1, <2>2
<1>8. ShapeOK(ll)
  BY <1>5, <1>6, <1>7 DEF ShapeOK, PositionsFollow
<1>9. KeysOK(ll)
  <2>1. \A n \in 1..Len(l.entries) : l.entries[n].key \in l.processed
    BY DEF LedgerOK, KeysOK
  <2>2. \A m, n \in 1..Len(ll.entries) : ll.entries[m].key = ll.entries[n].key => m = n
    BY <1>1, <1>2, <1>4, <1>5, <2>1 DEF LedgerOK, KeysOK
  <2>3. ll.processed = {ll.entries[n].key : n \in 1..Len(ll.entries)}
    <3>1. l.processed = {l.entries[n].key : n \in 1..Len(l.entries)}
      BY DEF LedgerOK, KeysOK
    <3>2. ll.processed \subseteq {ll.entries[n].key : n \in 1..Len(ll.entries)}
      <4> SUFFICES ASSUME NEW key \in ll.processed
                   PROVE  \E n \in 1..Len(ll.entries) : ll.entries[n].key = key
        BY Zenon
      <4> QED BY <1>2, <1>4, <1>5, <3>1
    <3>3. {ll.entries[n].key : n \in 1..Len(ll.entries)} \subseteq ll.processed
      <4> SUFFICES ASSUME NEW n \in 1..Len(ll.entries)
                   PROVE  ll.entries[n].key \in ll.processed
        BY Zenon
      <4> QED BY <1>2, <1>4, <1>5, <2>1
    <3> QED BY <3>2, <3>3, Zenon
  <2> QED BY <2>2, <2>3 DEF KeysOK
<1>10. IdentitiesOK(ll)
  BY ZenonT(40), <1>5 DEF IdentitiesOK, PositionsFollow
<1> QED BY <1>8, <1>9, <1>10 DEF LedgerOK, ll

\* Replacing the open position of a token by a later version of itself keeps
\* the positions in order.
LEMMA ReplacedPositionsOK ==
    ASSUME NEW l, LedgerOK(l), NEW x, ExecutionOK(x), x.at >= l.asOf,
           NEW k \in 1..Len(l.positions), l.positions[k].state = "OPEN",
           NEW p \in Positions, PositionOK(p, x.at),
           p.id = l.positions[k].id, p.mint = l.positions[k].mint
    PROVE  PositionsFollow(l, x, [l.positions EXCEPT ![k] = p])
<1> DEFINE ps == [l.positions EXCEPT ![k] = p]
<1>1. l.positions \in Seq(Positions) /\ l.asOf \in Nat /\ x.at \in Nat
  BY DEF LedgerOK, ShapeOK, Ledgers, ExecutionOK, Executions
<1>2. /\ ps \in Seq(Positions) /\ Len(ps) = Len(l.positions)
      /\ \A n \in 1..Len(ps) : ps[n] = IF n = k THEN p ELSE l.positions[n]
  BY <1>1, ExceptSeq
<1> HIDE DEF ps
<1>3. \A n \in 1..Len(ps) : PositionOK(ps[n], x.at)
  <2> SUFFICES ASSUME NEW n \in 1..Len(l.positions), n # k
               PROVE  PositionOK(l.positions[n], x.at)
    BY <1>2
  <2>1. PositionOK(l.positions[n], l.asOf) /\ l.positions[n] \in Positions
    BY <1>1, ElementOfSeq DEF LedgerOK, ShapeOK
  <2> QED BY <1>1, <2>1, PositionOKLater
<1>4. \A n \in 1..Len(ps) : ps[n].id \in l.processed
  BY <1>2 DEF LedgerOK, IdentitiesOK
<1>5. \A m, n \in 1..Len(ps) : ps[m].id = ps[n].id => m = n
  BY <1>2 DEF LedgerOK, IdentitiesOK
<1>6. \A m, n \in 1..Len(ps) :
        /\ ps[m].mint = ps[n].mint
        /\ ps[m].state = "OPEN" /\ ps[n].state = "OPEN"
        => m = n
  BY <1>2 DEF LedgerOK, IdentitiesOK
<1>7. \A n \in 1..Len(l.positions) :
        l.positions[n].state = "CLOSED" => ps[n] = l.positions[n]
  BY <1>2
<1>8. Len(l.positions) <= Len(ps)
  BY <1>1, <1>2
<1> QED BY <1>2, <1>3, <1>4, <1>5, <1>6, <1>7, <1>8 DEF ps, PositionsFollow

\* So does leaving the positions alone, and adding one that is identified by
\* the key being settled when its token has no open position.
LEMMA SamePositionsOK ==
    ASSUME NEW l, LedgerOK(l), NEW x, ExecutionOK(x), x.at >= l.asOf
    PROVE  PositionsFollow(l, x, l.positions)
<1>1. l.positions \in Seq(Positions) /\ l.asOf \in Nat /\ x.at \in Nat
  BY DEF LedgerOK, ShapeOK, Ledgers, ExecutionOK, Executions
<1>2. ASSUME NEW n \in 1..Len(l.positions) PROVE PositionOK(l.positions[n], x.at)
  <2>1. PositionOK(l.positions[n], l.asOf) /\ l.positions[n] \in Positions
    BY <1>1, ElementOfSeq DEF LedgerOK, ShapeOK
  <2> QED BY <1>1, <2>1, PositionOKLater
<1>3. Len(l.positions) \in Nat
  BY <1>1, LenProperties
<1> QED BY <1>1, <1>2, <1>3 DEF PositionsFollow, LedgerOK, IdentitiesOK

LEMMA AddedPositionOK ==
    ASSUME NEW l, LedgerOK(l), NEW x, ExecutionOK(x), x.at >= l.asOf,
           x.key \notin l.processed,
           NEW p \in Positions, PositionOK(p, x.at), p.id = x.key,
           OpenAt(l, p.mint) = {}
    PROVE  PositionsFollow(l, x, Append(l.positions, p))
<1> DEFINE ps == Append(l.positions, p)
<1>1. l.positions \in Seq(Positions) /\ DOMAIN l.positions = 1..Len(l.positions)
  BY DEF LedgerOK, ShapeOK, Ledgers
<1>2. /\ ps \in Seq(Positions)
      /\ Len(ps) = Len(l.positions) + 1 /\ Len(l.positions) \in Nat
      /\ \A n \in 1..Len(l.positions) : ps[n] = l.positions[n]
      /\ ps[Len(l.positions) + 1] = p
  BY <1>1
<1> HIDE DEF ps
<1>3. PositionsFollow(l, x, l.positions)
  BY SamePositionsOK
<1>4. \A n \in 1..Len(ps) : PositionOK(ps[n], x.at) /\ ps[n].id \in l.processed \cup {x.key}
  BY <1>2, <1>3, SMTT(30) DEF PositionsFollow
<1>5. \A n \in 1..Len(l.positions) : l.positions[n].id # p.id
  BY DEF LedgerOK, IdentitiesOK
<1>0. /\ \A m, n \in 1..Len(l.positions) :
            l.positions[m].id = l.positions[n].id => m = n
      /\ \A m, n \in 1..Len(l.positions) :
            /\ l.positions[m].mint = l.positions[n].mint
            /\ l.positions[m].state = "OPEN" /\ l.positions[n].state = "OPEN"
            => m = n
  BY DEF LedgerOK, IdentitiesOK
<1>c. \A n \in 1..Len(ps) : n \in 1..Len(l.positions) \/ n = Len(l.positions) + 1
  BY <1>2
<1>6. \A m, n \in 1..Len(ps) : ps[m].id = ps[n].id => m = n
  <2> SUFFICES ASSUME NEW m \in 1..Len(ps), NEW n \in 1..Len(ps), ps[m].id = ps[n].id
               PROVE  m = n
    OBVIOUS
  <2>1. CASE m \in 1..Len(l.positions) /\ n \in 1..Len(l.positions)
    <3>1. ps[m] = l.positions[m] /\ ps[n] = l.positions[n]
      BY <1>2, <2>1
    <3> QED BY <1>0, <2>1, <3>1
  <2>2. CASE m = Len(l.positions) + 1 /\ n \in 1..Len(l.positions)
    BY <1>2, <1>5, <2>2
  <2>3. CASE n = Len(l.positions) + 1 /\ m \in 1..Len(l.positions)
    BY <1>2, <1>5, <2>3
  <2> QED BY <1>c, <2>1, <2>2, <2>3
<1>7. \A n \in 1..Len(l.positions) :
        l.positions[n].mint = p.mint => l.positions[n].state # "OPEN"
  BY <1>1 DEF OpenAt
<1>8. \A m, n \in 1..Len(ps) :
        /\ ps[m].mint = ps[n].mint
        /\ ps[m].state = "OPEN" /\ ps[n].state = "OPEN"
        => m = n
  <2> SUFFICES ASSUME NEW m \in 1..Len(ps), NEW n \in 1..Len(ps),
                      ps[m].mint = ps[n].mint,
                      ps[m].state = "OPEN", ps[n].state = "OPEN"
               PROVE  m = n
    OBVIOUS
  <2>1. CASE m \in 1..Len(l.positions) /\ n \in 1..Len(l.positions)
    <3>1. ps[m] = l.positions[m] /\ ps[n] = l.positions[n]
      BY <1>2, <2>1
    <3> QED BY <1>0, <2>1, <3>1
  <2>2. CASE m = Len(l.positions) + 1 /\ n \in 1..Len(l.positions)
    BY <1>2, <1>7, <2>2
  <2>3. CASE n = Len(l.positions) + 1 /\ m \in 1..Len(l.positions)
    BY <1>2, <1>7, <2>3
  <2> QED BY <1>c, <2>1, <2>2, <2>3
<1>9. /\ ps \in Seq(Positions)
      /\ Len(l.positions) <= Len(ps)
      /\ \A n \in 1..Len(l.positions) :
            l.positions[n].state = "CLOSED" => ps[n] = l.positions[n]
  BY <1>2
<1>10. PositionsFollow(l, x, ps)
  BY <1>4, <1>6, <1>8, <1>9, Zenon DEF PositionsFollow
<1> QED BY <1>10 DEF ps

-----------------------------------------------------------------------------
(* Booking a result.                                                       *)

\* What a booking makes of a ledger: some entry appended, with positions and an
\* amount realized that follow from the result.
BookedAs(l, i, x, ll) ==
    \E positions : \E id \in Keys \cup {None}, delta \in Int :
        /\ PositionsFollow(l, x, positions)
        /\ MoneyFollows(x, delta)
        /\ BooksFollow(l, i, x, positions, id, delta)
        /\ ll = AfterEntry(l, i, x, positions, id, delta)

LEMMA BookFailedOK ==
    ASSUME NEW l, LedgerOK(l), NEW i \in Intents, NEW x, ExecutionOK(x),
           ~Refused(l, i, x), x.state = "FAILED"
    PROVE  BookedAs(l, i, x, BookFailed(l, i, x))
<1>1. x.at >= l.asOf /\ x.net \in Int /\ x.cost \in Nat /\ x.net = -x.cost /\ x.at \in Nat
  BY DEF Refused, ExecutionOK, Executions, Fills, LedgerOK, ShapeOK, Ledgers
<1>2. MoneyFollows(x, x.net)
  BY <1>1 DEF MoneyFollows
<1>3. CASE OpenAt(l, i.mint) = {}
  <2>1. BooksFollow(l, i, x, l.positions, None, x.net)
    BY DEF BooksFollow, BookedOnNone
  <2> QED BY <1>1, <1>2, <1>3, <2>1, SamePositionsOK DEF BookFailed, BookedAs
<1>4. CASE OpenAt(l, i.mint) # {}
  <2> DEFINE n == FindOpen(l, i.mint)
             p == l.positions[n]
             charged == [p EXCEPT !.realized = @ + x.net,
                                  !.costs = @ + x.cost,
                                  !.updated = x.at]
             ps == [l.positions EXCEPT ![n] = charged]
  <2>1. n \in 1..Len(l.positions) /\ p \in Positions /\ p.mint = i.mint /\ p.state = "OPEN"
    BY <1>4, FindOpenIsOpen
  <2>2. PositionOK(p, l.asOf)
    BY <2>1 DEF LedgerOK, ShapeOK
  <2>3. /\ charged \in Positions /\ PositionOK(charged, x.at)
        /\ charged.id = p.id /\ charged.mint = p.mint /\ charged.qty = p.qty
        /\ charged.basis = p.basis
        /\ charged.realized = p.realized + x.net /\ charged.costs = p.costs + x.cost
    <3> HIDE DEF p
    <3> DEFINE realized == p.realized + x.net
               costs == p.costs + x.cost
    <3>1. realized \in Int /\ costs \in Nat
      <4>1. p.realized \in Int /\ p.costs \in Nat
        BY <2>1, PositionFields
      <4> QED BY <1>1, <4>1
    <3>2. charged = [p EXCEPT !.realized = realized, !.costs = costs, !.updated = x.at]
      BY Zenon
    <3> HIDE DEF charged, realized, costs
    <3>3. /\ charged \in Positions /\ charged.updated = x.at
          /\ charged.state = p.state /\ charged.qty = p.qty /\ charged.basis = p.basis
          /\ charged.id = p.id /\ charged.mint = p.mint
          /\ charged.realized = realized /\ charged.costs = costs
      BY <1>1, <2>1, <3>1, <3>2 DEF Positions
    <3>4. PositionOK(charged, x.at)
      BY <1>1, <2>1, <2>2, <3>3 DEF PositionOK
    <3> QED BY <3>3, <3>4 DEF realized, costs
  <2>4. PositionsFollow(l, x, ps)
    BY <1>1, <2>1, <2>3, ReplacedPositionsOK
  <2>5. PositionsFollow(l, x, l.positions)
    BY <1>1, SamePositionsOK
  <2>6. p.id \in Keys
    BY <2>1 DEF Positions
  <2>7. BookFailed(l, i, x) =
          AfterEntry(l, i, x, IF x.net # 0 \/ x.cost # 0 THEN ps ELSE l.positions,
                     p.id, x.net)
    BY <1>4 DEF BookFailed
  <2>8. x.qty = 0 /\ p.qty \in Nat /\ p.basis \in Nat /\ p.realized \in Int /\ p.costs \in Nat
    BY <2>1, PositionFields DEF ExecutionOK, Fills
  <2>9. l.positions = [l.positions EXCEPT ![n] = p]
    <3>1. l.positions \in Seq(Positions)
      BY DEF LedgerOK, ShapeOK, Ledgers
    <3>2. /\ [l.positions EXCEPT ![n] = p] \in Seq(Positions)
          /\ Len([l.positions EXCEPT ![n] = p]) = Len(l.positions)
          /\ \A k \in 1..Len(l.positions) : [l.positions EXCEPT ![n] = p][k] = l.positions[k]
      BY <2>1, <3>1, ExceptSeq
    <3> QED BY <3>1, <3>2, SeqEqual
  <2> HIDE DEF charged
  <2>10. BookedOn(l, i, x, ps, p.id, x.net, n, charged)
    <3>1. /\ charged.qty = p.qty + SignedQty(x)
          /\ charged.basis = p.basis + (x.net - x.net)
      BY <1>1, <2>3, <2>8 DEF SignedQty
    <3> QED BY <2>1, <2>3, <3>1, Zenon DEF BookedOn
  <2>11. x.net = 0 /\ x.cost = 0 => BookedOn(l, i, x, l.positions, p.id, x.net, n, p)
    BY <2>1, <2>8, <2>9 DEF BookedOn, SignedQty
  <2>12. /\ BooksFollow(l, i, x, ps, p.id, x.net)
         /\ x.net = 0 /\ x.cost = 0 => BooksFollow(l, i, x, l.positions, p.id, x.net)
    BY <2>1, <2>3, <2>10, <2>11, Zenon DEF BooksFollow
  <2> HIDE DEF ps, p
  <2>13. CASE x.net # 0 \/ x.cost # 0
    BY <1>1, <1>2, <2>4, <2>6, <2>7, <2>12, <2>13 DEF BookedAs
  <2>14. CASE x.net = 0 /\ x.cost = 0
    BY <1>1, <1>2, <2>5, <2>6, <2>7, <2>12, <2>14 DEF BookedAs
  <2> QED BY <2>13, <2>14
<1> QED BY <1>3, <1>4

LEMMA BookBuyOK ==
    ASSUME NEW l, LedgerOK(l), NEW i \in Intents, NEW x, ExecutionOK(x),
           ~Refused(l, i, x), x.state \in Fills, i.side = "BUY"
    PROVE  BookedAs(l, i, x, BookBuy(l, i, x))
<1>1. /\ x.at >= l.asOf /\ x.at \in Nat /\ x.key = i.key /\ x.key \notin l.processed
      /\ x.key \in Keys /\ i.mint \in Mints /\ x.side = "BUY"
      /\ x.net \in Int /\ x.cost \in Nat /\ x.fill \in Nat /\ x.fill > 0
      /\ x.qty \in Nat /\ x.qty > 0 /\ x.price \in Nat /\ x.net = -(x.fill + x.cost)
  BY SMTT(30) DEF Refused, Mismatched, ExecutionOK, Executions, Fills, LedgerOK, ShapeOK, Ledgers, Mints
<1>2. MoneyFollows(x, 0)
  BY <1>1 DEF MoneyFollows
<1>3. CASE OpenAt(l, i.mint) = {}
  <2> DEFINE p == NewPosition(i, x)
  <2>1. p \in Positions /\ PositionOK(p, x.at) /\ p.id = x.key /\ p.mint = i.mint
    BY <1>1 DEF NewPosition, Positions, PositionOK
  <2>2. PositionsFollow(l, x, Append(l.positions, p))
    BY <1>1, <1>3, <2>1, AddedPositionOK
  <2>3. BookedOnNew(l, i, x, Append(l.positions, p), i.key, 0, p)
    BY <1>1 DEF NewPosition, BookedOnNew, SignedQty
  <2>4. BooksFollow(l, i, x, Append(l.positions, p), i.key, 0)
    BY <2>1, <2>3, Zenon DEF BooksFollow
  <2> HIDE DEF p
  <2>5. BookBuy(l, i, x) = AfterEntry(l, i, x, Append(l.positions, p), i.key, 0)
    BY <1>3 DEF BookBuy, p
  <2> QED BY <1>1, <1>2, <2>2, <2>4, <2>5 DEF BookedAs
<1>4. CASE OpenAt(l, i.mint) # {}
  <2> DEFINE n == FindOpen(l, i.mint)
             p == l.positions[n]
             r == Increased(p, x)
  <2>1. n \in 1..Len(l.positions) /\ p \in Positions /\ p.mint = i.mint /\ p.state = "OPEN"
    BY <1>4, FindOpenIsOpen
  <2>2. PositionOK(p, l.asOf)
    BY <2>1 DEF LedgerOK, ShapeOK
  <2>3. /\ p.qty \in Nat /\ p.basis \in Nat /\ p.costs \in Nat /\ p.buys \in Nat
        /\ p.qty > 0 /\ p.basis > 0 /\ p.entry \in Int /\ p.id \in Keys
    BY <2>1, <2>2 DEF Positions, PositionOK
  <2>4. (p.qty * p.entry + x.fill * Unit) \div (p.qty + x.qty) \in Int
    <3>1. p.qty * p.entry + x.fill * Unit \in Int /\ p.qty + x.qty \in Nat \ {0}
      BY <1>1, <2>3, PolicyAssumption
    <3> QED BY SMTT(30), <3>1
  <2>5. /\ r \in Positions /\ PositionOK(r, x.at) /\ r.id = p.id /\ r.mint = p.mint
        /\ r.qty = p.qty + x.qty /\ r.basis = p.basis + x.fill + x.cost
        /\ r.costs = p.costs + x.cost /\ r.realized = p.realized
    <3> HIDE DEF p
    <3> DEFINE qty == p.qty + x.qty
               entry == (p.qty * p.entry + x.fill * Unit) \div qty
               basis == p.basis + x.fill + x.cost
               costs == p.costs + x.cost
               buys == p.buys + 1
    <3>1. /\ qty \in Nat /\ qty > 0 /\ basis \in Nat /\ basis > 0
          /\ costs \in Nat /\ buys \in Nat \ {0} /\ entry \in Int
      BY <1>1, <2>3, <2>4
    <3>2. r = [p EXCEPT !.qty = qty, !.entry = entry, !.basis = basis, !.costs = costs,
                        !.updated = x.at, !.mark = None, !.buys = buys]
      BY Zenon DEF Increased
    <3> HIDE DEF r, qty, entry, basis, costs, buys
    <3>3. /\ r \in Positions /\ r.updated = x.at /\ r.state = p.state
          /\ r.qty = qty /\ r.basis = basis /\ r.id = p.id /\ r.mint = p.mint
          /\ r.costs = costs /\ r.realized = p.realized
      BY <1>1, <2>1, <3>1, <3>2 DEF Positions
    <3>4. PositionOK(r, x.at)
      BY SMTT(30), <1>1, <2>1, <3>1, <3>3 DEF PositionOK
    <3> QED BY <3>3, <3>4 DEF qty, basis, costs
  <2>6. PositionsFollow(l, x, [l.positions EXCEPT ![n] = r])
    BY <1>1, <2>1, <2>5, ReplacedPositionsOK
  <2>7. BookBuy(l, i, x) = AfterEntry(l, i, x, [l.positions EXCEPT ![n] = r], p.id, 0)
    BY <1>4, <2>1 DEF BookBuy
  <2>8. p.realized \in Int
    BY <2>1, PositionFields
  <2> HIDE DEF r
  <2>9. BookedOn(l, i, x, [l.positions EXCEPT ![n] = r], p.id, 0, n, r)
    <3>1. /\ r.qty = p.qty + SignedQty(x)
          /\ r.basis = p.basis + (0 - x.net)
          /\ r.realized = p.realized + 0
      BY <1>1, <2>3, <2>5, <2>8 DEF SignedQty
    <3> QED BY <2>1, <2>5, <3>1, Zenon DEF BookedOn
  <2>10. BooksFollow(l, i, x, [l.positions EXCEPT ![n] = r], p.id, 0)
    BY <2>1, <2>5, <2>9, Zenon DEF BooksFollow
  <2> QED BY <1>2, <2>3, <2>6, <2>7, <2>10 DEF BookedAs
<1> QED BY <1>3, <1>4

LEMMA BookSellOK ==
    ASSUME NEW l, LedgerOK(l), NEW i \in Intents, NEW x, ExecutionOK(x),
           ~Refused(l, i, x), x.state \in Fills, i.side = "SELL", ~Oversold(l, i, x)
    PROVE  BookedAs(l, i, x, BookSell(l, i, x))
<1> DEFINE n == FindOpen(l, i.mint)
           p == l.positions[n]
           r == Reduced(p, x)
           released == ReleasedBasis(p, x.qty)
<1>1. /\ x.at >= l.asOf /\ x.at \in Nat
      /\ x.net \in Int /\ x.cost \in Nat
      /\ x.qty \in Nat /\ x.qty > 0 /\ x.side # "BUY"
  BY SMTT(30) DEF Refused, Mismatched, ExecutionOK, Executions, Fills, LedgerOK, ShapeOK, Ledgers
<1>2. OpenAt(l, i.mint) # {} /\ ~(x.qty > p.qty)
  BY DEF Oversold
<1>3. n \in 1..Len(l.positions) /\ p \in Positions /\ p.mint = i.mint /\ p.state = "OPEN"
  BY <1>2, FindOpenIsOpen
<1>4. PositionOK(p, l.asOf)
  BY <1>3 DEF LedgerOK, ShapeOK
<1>5. /\ p.qty \in Nat /\ p.basis \in Nat /\ p.basis > 0 /\ p.id \in Keys
      /\ p.realized \in Int /\ p.costs \in Nat /\ x.qty \in 1..p.qty
  <2>1. /\ p.qty \in Nat /\ p.basis \in Nat /\ p.id \in Keys
        /\ p.realized \in Int /\ p.costs \in Nat
    BY <1>3 DEF Positions
  <2>2. p.basis > 0
    BY <1>3, <1>4 DEF PositionOK
  <2>3. x.qty \in 1..p.qty
    <3> HIDE DEF p
    <3> QED BY <1>1, <1>2, <2>1
  <2> QED BY <2>1, <2>2, <2>3
<1>6. /\ released \in 0..p.basis
      /\ x.qty = p.qty => released = p.basis
      /\ x.qty < p.qty => released < p.basis
  BY SMTT(30), <1>3, <1>5, ReleasedBasisBounds
<1>7. /\ r \in Positions /\ PositionOK(r, x.at) /\ r.id = p.id /\ r.mint = p.mint
      /\ r.qty = p.qty - x.qty /\ r.basis = p.basis - released
      /\ r.realized = p.realized + (x.net - released) /\ r.costs = p.costs + x.cost
  <2> HIDE DEF p, released
  <2> DEFINE state == IF x.qty = p.qty THEN "CLOSED" ELSE "OPEN"
             qty == p.qty - x.qty
             basis == p.basis - released
             realized == p.realized + (x.net - released)
             costs == p.costs + x.cost
  <2>1. /\ qty \in Nat /\ basis \in Nat /\ realized \in Int /\ costs \in Nat
        /\ state \in {"OPEN", "CLOSED"}
        /\ state = "CLOSED" => qty = 0 /\ basis = 0
        /\ state = "OPEN" => qty > 0 /\ basis > 0
    BY <1>1, <1>5, <1>6
  <2>2. r = [p EXCEPT !.state = state, !.qty = qty, !.basis = basis,
                      !.realized = realized, !.costs = costs,
                      !.updated = x.at, !.mark = None]
    BY Zenon DEF Reduced, released
  <2> HIDE DEF r, state, qty, basis, realized, costs
  <2>3. /\ r \in Positions /\ r.updated = x.at /\ r.state = state /\ r.mark = None
        /\ r.qty = qty /\ r.basis = basis /\ r.id = p.id /\ r.mint = p.mint
        /\ r.realized = realized /\ r.costs = costs
    BY <1>1, <1>3, <2>1, <2>2 DEF Positions
  <2>4. PositionOK(r, x.at)
    BY <1>1, <2>1, <2>3 DEF PositionOK
  <2> QED BY <2>3, <2>4 DEF qty, basis, realized, costs
<1>8. PositionsFollow(l, x, [l.positions EXCEPT ![n] = r])
  BY <1>1, <1>3, <1>7, ReplacedPositionsOK
<1>9. MoneyFollows(x, x.net - released) /\ x.net - released \in Int
  BY <1>1, <1>5, <1>6 DEF MoneyFollows
<1>10. BookSell(l, i, x) =
         AfterEntry(l, i, x, [l.positions EXCEPT ![n] = r], p.id, x.net - released)
  BY <1>3 DEF BookSell
<1>11. BookedOn(l, i, x, [l.positions EXCEPT ![n] = r], p.id, x.net - released, n, r)
  <2>1. x.net - released - x.net = -released
    BY <1>1, <1>5, <1>6
  <2> HIDE DEF r, released
  <2> QED BY <1>1, <1>3, <1>5, <1>6, <1>7, <2>1 DEF BookedOn, SignedQty
<1>12. BooksFollow(l, i, x, [l.positions EXCEPT ![n] = r], p.id, x.net - released)
  <2> HIDE DEF r, released
  <2> QED BY <1>3, <1>7, <1>11, Zenon DEF BooksFollow
<1> HIDE DEF r, released
<1> QED BY <1>5, <1>8, <1>9, <1>10, <1>12 DEF BookedAs

\* Applying a result either leaves the ledger alone or books it in order.
LEMMA ApplyOK ==
    ASSUME NEW l, LedgerOK(l), NEW i \in Intents, NEW x, ExecutionOK(x)
    PROVE  LET ll == ApplyPaperExecution(l, i, x)
           IN  \/ ll = l
               \/ /\ ~Refused(l, i, x) /\ ~Unaffordable(l, x)
                  /\ BookedAs(l, i, x, ll) /\ LedgerOK(ll) /\ ll.asOf = x.at
<1> DEFINE ll == ApplyPaperExecution(l, i, x)
<1> SUFFICES ASSUME Verdict(l, i, x) = "APPLIED"
             PROVE  /\ ~Refused(l, i, x) /\ ~Unaffordable(l, x)
                    /\ BookedAs(l, i, x, ll) /\ LedgerOK(ll) /\ ll.asOf = x.at
  BY DEF ApplyPaperExecution
<1>1. /\ ~Refused(l, i, x) /\ x.state # "DEFERRED"
      /\ ~Unaffordable(l, x) /\ ~Oversold(l, i, x)
  BY DEF Verdict
<1>2. x.state = "FAILED" \/ x.state \in Fills
  BY <1>1 DEF ExecutionOK, Executions, ExecutionStates, Fills
<1>3. i.side = "BUY" \/ i.side = "SELL"
  BY InputAssumption DEF Sides
<1>4. BookedAs(l, i, x, ll)
  <2>1. CASE x.state = "FAILED"
    <3>1. ll = BookFailed(l, i, x)
      BY <2>1 DEF ApplyPaperExecution
    <3> QED BY <1>1, <2>1, <3>1, BookFailedOK
  <2>2. CASE x.state \in Fills /\ i.side = "BUY"
    <3>1. ll = BookBuy(l, i, x)
      BY <2>2 DEF ApplyPaperExecution, Fills
    <3> QED BY <1>1, <2>2, <3>1, BookBuyOK
  <2>3. CASE x.state \in Fills /\ i.side = "SELL"
    <3>1. ll = BookSell(l, i, x)
      BY <2>3 DEF ApplyPaperExecution, Fills
    <3> QED BY <1>1, <2>3, <3>1, BookSellOK
  <2> QED BY <1>2, <1>3, <2>1, <2>2, <2>3
<1> HIDE DEF ll
<1>5. PICK positions : \E id \in Keys \cup {None}, delta \in Int :
        /\ PositionsFollow(l, x, positions)
        /\ MoneyFollows(x, delta)
        /\ BooksFollow(l, i, x, positions, id, delta)
        /\ ll = AfterEntry(l, i, x, positions, id, delta)
  BY <1>4, Zenon DEF BookedAs
<1>6. PICK id \in Keys \cup {None}, delta \in Int :
        /\ PositionsFollow(l, x, positions)
        /\ ll = AfterEntry(l, i, x, positions, id, delta)
  BY <1>5, Zenon
<1>7. LedgerOK(ll) /\ ll.asOf = x.at
  <2>1. LedgerOK(ll)
    BY <1>1, <1>6, AfterEntryOK
  <2>2. ll.asOf = x.at
    BY <1>6 DEF AfterEntry
  <2> QED BY <2>1, <2>2
<1> QED BY <1>1, <1>4, <1>7 DEF ll

\* Marking a position changes that position's mark and the ledger's time only.
LEMMA MarkOK ==
    ASSUME NEW l, LedgerOK(l), NEW n, NEW price \in MarkPrices, NEW at \in Nat,
           MayMark(l, n, at)
    PROVE  LET ll == MarkPaperPosition(l, n, price, at)
           IN  /\ LedgerOK(ll) /\ ll.asOf = at
               /\ ll.entries = l.entries /\ ll.cash = l.cash /\ ll.costs = l.costs
               /\ ll.realized = l.realized /\ ll.processed = l.processed
               /\ Len(l.positions) <= Len(ll.positions)
               /\ \A k \in 1..Len(l.positions) :
                     l.positions[k].state = "CLOSED" => ll.positions[k] = l.positions[k]
<1> DEFINE ll == MarkPaperPosition(l, n, price, at)
           r == [l.positions[n] EXCEPT !.mark = price, !.updated = at]
           ps == [l.positions EXCEPT ![n] = r]
<1>1. /\ l.positions \in Seq(Positions) /\ l.entries \in Seq(Entries) /\ l.asOf \in Nat
      /\ l \in Ledgers
  BY DEF LedgerOK, ShapeOK, Ledgers
<1>2. /\ n \in 1..Len(l.positions) /\ l.positions[n] \in Positions
      /\ l.positions[n].state = "OPEN" /\ at >= l.asOf
  BY <1>1 DEF MayMark
<1>3. ll = [l EXCEPT !.asOf = at, !.positions = ps]
  BY Zenon DEF MarkPaperPosition
<1>4. r \in Positions /\ PositionOK(r, at) /\ r.id = l.positions[n].id
      /\ r.mint = l.positions[n].mint /\ r.state = "OPEN"
  <2>1. PositionOK(l.positions[n], l.asOf)
    BY <1>2 DEF LedgerOK, ShapeOK
  <2> DEFINE p == l.positions[n]
  <2>2. r = [p EXCEPT !.mark = price, !.updated = at]
    OBVIOUS
  <2> HIDE DEF p, r
  <2>3. /\ r \in Positions /\ r.updated = at /\ r.state = p.state /\ r.qty = p.qty
        /\ r.basis = p.basis /\ r.id = p.id /\ r.mint = p.mint
    BY <1>2, <2>2 DEF Positions, p
  <2>4. PositionOK(r, at)
    BY <1>2, <2>1, <2>3 DEF PositionOK, p
  <2> QED BY <1>2, <2>3, <2>4 DEF p
<1> HIDE DEF r
<1>5. /\ ps \in Seq(Positions) /\ Len(ps) = Len(l.positions) /\ Len(l.positions) \in Nat
      /\ \A k \in 1..Len(ps) : ps[k] = IF k = n THEN r ELSE l.positions[k]
  BY <1>1, <1>2, <1>4, ExceptSeq, LenProperties
<1> HIDE DEF ps
<1>6. /\ ll.asOf = at /\ ll.positions = ps /\ ll.entries = l.entries /\ ll.cash = l.cash
      /\ ll.costs = l.costs /\ ll.realized = l.realized /\ ll.processed = l.processed
      /\ ll \in Ledgers
  BY <1>1, <1>3, <1>5 DEF Ledgers
<1> HIDE DEF ll
<1>7. \A k \in 1..Len(ps) : PositionOK(ps[k], at)
  <2> SUFFICES ASSUME NEW k \in 1..Len(l.positions), k # n
               PROVE  PositionOK(l.positions[k], at)
    BY <1>4, <1>5
  <2>1. PositionOK(l.positions[k], l.asOf) /\ l.positions[k] \in Positions
    BY <1>1, ElementOfSeq DEF LedgerOK, ShapeOK
  <2> QED BY <1>1, <1>2, <2>1, PositionOKLater
<1>8. \A k \in 1..Len(l.entries) : EntryOK(l.entries[k], at)
  <2> TAKE k \in 1..Len(l.entries)
  <2>1. EntryOK(l.entries[k], l.asOf) /\ l.entries[k] \in Entries
    BY <1>1, ElementOfSeq DEF LedgerOK, ShapeOK
  <2>2. l.entries[k].at \in Nat
    BY <2>1 DEF Entries
  <2> QED BY <1>1, <1>2, <2>1, <2>2 DEF EntryOK
<1>9. ShapeOK(ll)
  BY <1>6, <1>7, <1>8 DEF ShapeOK
<1>10. KeysOK(ll)
  BY <1>6 DEF KeysOK, LedgerOK
<1>11. IdentitiesOK(ll)
  BY <1>2, <1>4, <1>5, <1>6, SMTT(30) DEF IdentitiesOK, LedgerOK
<1>12. /\ Len(l.positions) <= Len(ll.positions)
       /\ \A k \in 1..Len(l.positions) :
             l.positions[k].state = "CLOSED" => ll.positions[k] = l.positions[k]
  BY <1>2, <1>5, <1>6
<1> QED BY <1>6, <1>9, <1>10, <1>11, <1>12 DEF LedgerOK, ll

-----------------------------------------------------------------------------
(* The inductive invariant.                                                *)

LEMMA InitIndInv == Init => IndInv
<1> SUFFICES ASSUME Init PROVE IndInv
  OBVIOUS
<1>1. ledger = [cash |-> StartingCash, realized |-> 0, costs |-> 0, asOf |-> 0,
                positions |-> <<>>, entries |-> <<>>, processed |-> {}]
  BY DEF Init, CreatePaperLedger
<1>2. ledger \in Ledgers
  BY <1>1, InputAssumption DEF Ledgers
<1>3. ShapeOK(ledger)
  BY <1>1, <1>2 DEF ShapeOK
<1>4. KeysOK(ledger) /\ IdentitiesOK(ledger)
  BY <1>1 DEF KeysOK, IdentitiesOK
<1> QED BY <1>1, <1>3, <1>4, InputAssumption DEF Init, IndInv, LedgerOK

LEMMA NextIndInv == IndInv /\ [Next]_vars => IndInv'
<1> SUFFICES ASSUME IndInv, [Next]_vars PROVE IndInv'
  OBVIOUS
<1>0. clock \in Nat /\ Horizon \in Nat /\ ledger.asOf \in Nat
  BY InputAssumption DEF IndInv, LedgerOK, ShapeOK, Ledgers
<1>r. \A r \in results : r.execution.at \in Nat
  BY DEF IndInv, ExecutionOK, Executions
<1>1. CASE Tick
  BY <1>0, <1>1, <1>r DEF Tick, IndInv
<1>2. ASSUME NEW i \in Intents, NEW q \in Quotes \cup {None}, Attempt(i, q)
      PROVE  IndInv'
  <2> DEFINE x == ExecutePaperIntent(i, clock, q, ledger.processed)
  <2>1. ExecutionOK(x) /\ x.at = clock
    BY <1>0, ExecutionShape
  <2>2. results' = results \cup {[intent |-> i, execution |-> x]} /\ UNCHANGED <<ledger, clock>>
    BY <1>2 DEF Attempt
  <2> HIDE DEF x
  <2> QED BY <1>0, <2>1, <2>2 DEF IndInv
<1>3. ASSUME NEW r \in results, NEW s \in results, Deliver(r.intent, s.execution)
      PROVE  IndInv'
  <2> DEFINE ll == ApplyPaperExecution(ledger, r.intent, s.execution)
  <2>1. /\ ledger' = ll /\ UNCHANGED <<results, clock>>
        /\ r.intent \in Intents /\ ExecutionOK(s.execution) /\ s.execution.at <= clock
        /\ LedgerOK(ledger)
    BY <1>3 DEF Deliver, IndInv
  <2>2. ll = ledger \/ (LedgerOK(ll) /\ ll.asOf = s.execution.at)
    BY <2>1, ApplyOK
  <2> HIDE DEF ll
  <2> QED BY <2>1, <2>2 DEF IndInv
<1>4. ASSUME NEW r \in results, Forget(r) PROVE IndInv'
  BY <1>4 DEF Forget, IndInv
<1>5. ASSUME NEW n \in DOMAIN ledger.positions, NEW price \in MarkPrices, Mark(n, price)
      PROVE  IndInv'
  <2> DEFINE ll == MarkPaperPosition(ledger, n, price, clock)
  <2>1. ledger' = ll /\ UNCHANGED <<results, clock>> /\ MayMark(ledger, n, clock)
        /\ LedgerOK(ledger)
    BY <1>5 DEF Mark, IndInv
  <2>2. LedgerOK(ll) /\ ll.asOf = clock
    BY <1>0, <2>1, MarkOK
  <2> HIDE DEF ll
  <2> QED BY <1>0, <2>1, <2>2 DEF IndInv
<1>6. CASE UNCHANGED vars
  BY <1>6 DEF vars, IndInv
<1> QED BY <1>1, <1>2, <1>3, <1>4, <1>5, <1>6 DEF Next

LEMMA Inductive == Spec => []IndInv
BY InitIndInv, NextIndInv, PTL DEF Spec

-----------------------------------------------------------------------------
(* Theorems.                                                               *)

\* No operation breaks what the constructors of the ledger, its positions and
\* its entries insist on: cash is never negative, an open position has atoms
\* and a cost basis, a closed one has neither, nothing is dated in the future.
THEOREM TypeCorrect == Spec => []TypeOK
<1>1. IndInv => TypeOK
  <2> SUFFICES ASSUME IndInv PROVE TypeOK
    OBVIOUS
  <2>1. ledger \in Ledgers /\ ledger.asOf <= clock /\ clock \in 0..Horizon
    BY DEF IndInv, LedgerOK, ShapeOK
  <2>2. /\ ledger.cash \in Nat /\ ledger.costs \in Nat /\ ledger.realized \in Int
        /\ ledger.asOf \in 0..clock
    BY <2>1, InputAssumption DEF Ledgers
  <2>3. ASSUME NEW n \in DOMAIN ledger.entries PROVE EntryType(ledger.entries[n])
    <3>1. n \in 1..Len(ledger.entries) /\ ledger.entries[n] \in Entries
      BY <2>1, <2>3, ElementOfSeq DEF Ledgers
    <3>2. EntryOK(ledger.entries[n], ledger.asOf)
      BY <3>1 DEF IndInv, LedgerOK, ShapeOK
    <3> QED BY SMTT(30), <3>1, <3>2 DEF Entries, EntryOK, EntryType
  <2>4. ASSUME NEW n \in DOMAIN ledger.positions PROVE PositionType(ledger.positions[n])
    <3> DEFINE p == ledger.positions[n]
    <3>1. n \in 1..Len(ledger.positions) /\ p \in Positions
      BY <2>1, <2>4, ElementOfSeq DEF Ledgers
    <3>2. PositionOK(p, ledger.asOf)
      BY <3>1 DEF IndInv, LedgerOK, ShapeOK
    <3> HIDE DEF p
    <3>3. p.state \in {"OPEN", "CLOSED"} /\ p.updated \in Nat
      BY <3>1 DEF Positions
    <3>4. PositionType(p)
      BY <3>1, <3>2, <3>3, PositionFields DEF PositionOK, PositionType
    <3> QED BY <3>4 DEF p
  <2> QED BY <2>1, <2>2, <2>3, <2>4 DEF TypeOK
<1> QED BY <1>1, Inductive, PTL

\* An intent is settled at most once, however often and in whatever order the
\* results of its attempts are delivered.
THEOREM SettlesOnce == Spec => []SettledOnce
<1>1. IndInv => SettledOnce
  <2> SUFFICES ASSUME IndInv PROVE SettledOnce
    OBVIOUS
  <2>1. DOMAIN ledger.entries = 1..Len(ledger.entries)
    BY DEF IndInv, LedgerOK, ShapeOK, Ledgers
  <2> QED BY <2>1 DEF IndInv, LedgerOK, KeysOK, SettledOnce
<1> QED BY <1>1, Inductive, PTL

\* There is never more than one open position of a token, and no two positions
\* share an identity.
THEOREM OneOpen == Spec => []OneOpenPerMint
<1>1. IndInv => OneOpenPerMint
  <2> SUFFICES ASSUME IndInv,
                      NEW m \in DOMAIN ledger.positions,
                      NEW n \in DOMAIN ledger.positions, m # n
               PROVE  /\ ledger.positions[m].id # ledger.positions[n].id
                      /\ \/ ledger.positions[m].mint # ledger.positions[n].mint
                         \/ ledger.positions[m].state = "CLOSED"
                         \/ ledger.positions[n].state = "CLOSED"
    BY DEF OneOpenPerMint
  <2>1. ledger.positions \in Seq(Positions)
    BY DEF IndInv, LedgerOK, ShapeOK, Ledgers
  <2>2. m \in 1..Len(ledger.positions) /\ n \in 1..Len(ledger.positions)
    BY <2>1
  <2>3. ledger.positions[m] \in Positions /\ ledger.positions[n] \in Positions
    BY <2>1, <2>2, ElementOfSeq
  <2>4. /\ ledger.positions[m].state \in {"OPEN", "CLOSED"}
        /\ ledger.positions[n].state \in {"OPEN", "CLOSED"}
    BY <2>3, PositionFields
  <2> QED BY <2>2, <2>4 DEF IndInv, LedgerOK, IdentitiesOK
<1> QED BY <1>1, Inductive, PTL

\* Every step either leaves the accounts alone or books one result.
LEMMA StepBooks ==
    ASSUME IndInv, [Next]_vars
    PROVE  \/ /\ ledger'.entries = ledger.entries /\ ledger'.cash = ledger.cash
              /\ ledger'.realized = ledger.realized /\ ledger'.costs = ledger.costs
              /\ ledger'.processed = ledger.processed
              /\ Len(ledger.positions) <= Len(ledger'.positions)
              /\ \A k \in 1..Len(ledger.positions) :
                    ledger.positions[k].state = "CLOSED" =>
                        ledger'.positions[k] = ledger.positions[k]
           \/ \E i \in Intents, x \in Executions :
                 /\ ExecutionOK(x) /\ ~Refused(ledger, i, x) /\ ~Unaffordable(ledger, x)
                 /\ BookedAs(ledger, i, x, ledger')
<1>1. LedgerOK(ledger) /\ clock \in Nat
  BY InputAssumption DEF IndInv
<1>2. Len(ledger.positions) \in Nat
  BY <1>1, LenProperties DEF LedgerOK, ShapeOK, Ledgers
<1>3. CASE ledger' = ledger
  BY <1>2, <1>3
<1>4. ASSUME NEW r \in results, NEW s \in results, Deliver(r.intent, s.execution),
             ledger' # ledger
      PROVE  \E i \in Intents, x \in Executions :
                 /\ ExecutionOK(x) /\ ~Refused(ledger, i, x) /\ ~Unaffordable(ledger, x)
                 /\ BookedAs(ledger, i, x, ledger')
  <2> DEFINE i == r.intent
             x == s.execution
  <2>1. i \in Intents /\ ExecutionOK(x) /\ x \in Executions
    BY DEF IndInv, ExecutionOK
  <2>2. ledger' = ApplyPaperExecution(ledger, i, x)
    BY <1>4 DEF Deliver
  <2>3. /\ ~Refused(ledger, i, x) /\ ~Unaffordable(ledger, x)
        /\ BookedAs(ledger, i, x, ledger')
    BY <1>1, <1>4, <2>1, <2>2, ApplyOK
  <2> QED BY <2>1, <2>3
<1>5. ASSUME NEW n \in DOMAIN ledger.positions, NEW price \in MarkPrices, Mark(n, price)
      PROVE  /\ ledger'.entries = ledger.entries /\ ledger'.cash = ledger.cash
             /\ ledger'.realized = ledger.realized /\ ledger'.costs = ledger.costs
             /\ ledger'.processed = ledger.processed
             /\ Len(ledger.positions) <= Len(ledger'.positions)
             /\ \A k \in 1..Len(ledger.positions) :
                   ledger.positions[k].state = "CLOSED" =>
                       ledger'.positions[k] = ledger.positions[k]
  <2>1. MayMark(ledger, n, clock) /\ ledger' = MarkPaperPosition(ledger, n, price, clock)
    BY <1>5 DEF Mark
  <2> QED BY <1>1, <2>1, MarkOK
<1>6. CASE UNCHANGED vars \/ Tick \/ (\E r \in results : Forget(r))
           \/ (\E i \in Intents, q \in Quotes \cup {None} : Attempt(i, q))
  BY <1>3, <1>6 DEF vars, Tick, Forget, Attempt
<1>7. CASE \E r, s \in results : Deliver(r.intent, s.execution)
  BY <1>3, <1>4, <1>7
<1>8. CASE \E n \in DOMAIN ledger.positions, price \in MarkPrices : Mark(n, price)
  BY <1>5, <1>8
<1> QED BY <1>6, <1>7, <1>8 DEF Next

\* What a booking leaves of the ledger, field by field.
LEMMA BookingFields ==
    ASSUME LedgerOK(ledger), NEW i \in Intents, NEW x \in Executions, ExecutionOK(x),
           ~Refused(ledger, i, x), BookedAs(ledger, i, x, ledger')
    PROVE  \E e \in Entries :
             /\ ledger'.entries = Append(ledger.entries, e)
             /\ ledger'.cash = ledger.cash + x.net /\ e.cash = x.net
             /\ ledger'.realized = ledger.realized + e.delta
             /\ ledger'.costs = ledger.costs + e.cost
             /\ ledger'.processed = ledger.processed \cup {x.key}
             /\ e.at >= ledger.asOf
             /\ MoneyFollows(x, e.delta)
             /\ PositionsFollow(ledger, x, ledger'.positions)
<1>1. PICK positions : \E id \in Keys \cup {None}, delta \in Int :
        /\ PositionsFollow(ledger, x, positions)
        /\ MoneyFollows(x, delta)
        /\ BooksFollow(ledger, i, x, positions, id, delta)
        /\ ledger' = AfterEntry(ledger, i, x, positions, id, delta)
  BY Zenon DEF BookedAs
<1>2. PICK id \in Keys \cup {None}, delta \in Int :
        /\ PositionsFollow(ledger, x, positions)
        /\ MoneyFollows(x, delta)
        /\ BooksFollow(ledger, i, x, positions, id, delta)
        /\ ledger' = AfterEntry(ledger, i, x, positions, id, delta)
  BY <1>1, Zenon
<1> DEFINE e == Entry(i, x, id, delta)
<1>3. /\ e.cash = x.net /\ e.delta = delta /\ e.cost = x.cost /\ e.at = x.at
      /\ e \in Entries /\ x.at >= ledger.asOf
  <2>1. i.key \in Keys /\ i.mint \in Mints /\ i.side \in Sides
    BY InputAssumption DEF Keys, Mints
  <2>2. /\ x.state \in ExecutionStates /\ x.at \in Nat /\ x.qty \in Nat /\ x.fill \in Nat
        /\ x.net \in Int /\ x.cost \in Nat
    BY DEF Executions
  <2>3. e \in Entries
    BY <2>1, <2>2 DEF Entry, Entries
  <2>4. x.at >= ledger.asOf
    BY SMTT(30), <2>2 DEF Refused, LedgerOK, ShapeOK, Ledgers
  <2>5. e.cash = x.net /\ e.delta = delta /\ e.cost = x.cost /\ e.at = x.at
    BY DEF Entry
  <2> QED BY <2>3, <2>4, <2>5
<1>4. /\ ledger'.entries = Append(ledger.entries, e)
      /\ ledger'.cash = ledger.cash + x.net
      /\ ledger'.realized = ledger.realized + delta
      /\ ledger'.costs = ledger.costs + x.cost
      /\ ledger'.processed = ledger.processed \cup {x.key}
      /\ ledger'.positions = positions
  BY <1>2 DEF AfterEntry
<1> HIDE DEF e
<1> QED BY <1>2, <1>3, <1>4

\* The ledger's totals move only with the entry appended, by its amounts, and
\* entries are dated in order.
THEOREM TotalsFollowJournal == Spec => TotalsMoveWithJournal
<1> DEFINE Quiet == /\ ledger'.entries = ledger.entries
                    /\ ledger'.cash = ledger.cash
                    /\ ledger'.realized = ledger.realized
                    /\ ledger'.costs = ledger.costs
           Booked == \E e \in {ledger'.entries[Len(ledger'.entries)]} :
                       /\ ledger'.entries = Append(ledger.entries, e)
                       /\ ledger'.cash = ledger.cash + e.cash
                       /\ ledger'.realized = ledger.realized + e.delta
                       /\ ledger'.costs = ledger.costs + e.cost
                       /\ e.at >= ledger.asOf
<1>1. IndInv /\ [Next]_vars => [Quiet \/ Booked]_vars
  <2> SUFFICES ASSUME IndInv, [Next]_vars, ~Quiet PROVE Booked
    OBVIOUS
  <2>1. PICK i \in Intents, x \in Executions :
          /\ ExecutionOK(x) /\ ~Refused(ledger, i, x)
          /\ BookedAs(ledger, i, x, ledger')
    BY StepBooks
  <2>2. LedgerOK(ledger) /\ ledger.entries \in Seq(Entries)
    BY DEF IndInv, LedgerOK, ShapeOK, Ledgers
  <2>3. PICK e \in Entries :
          /\ ledger'.entries = Append(ledger.entries, e)
          /\ ledger'.cash = ledger.cash + x.net /\ e.cash = x.net
          /\ ledger'.realized = ledger.realized + e.delta
          /\ ledger'.costs = ledger.costs + e.cost
          /\ e.at >= ledger.asOf
    BY <2>1, <2>2, BookingFields
  <2>4. ledger'.entries[Len(ledger'.entries)] = e
    BY <2>2, <2>3
  <2> QED BY <2>3, <2>4
<1> QED BY <1>1, Inductive, PTL DEF Spec, TotalsMoveWithJournal

\* The journal only grows, and a closed position never changes again.
THEOREM HistoryIsKept == Spec => HistoryKept
<1> DEFINE Retained ==
               /\ IsPrefix(ledger.entries, ledger.entries')
               /\ \A n \in DOMAIN ledger.positions :
                     ledger.positions[n].state = "CLOSED" =>
                         ledger'.positions[n] = ledger.positions[n]
<1>1. IndInv /\ [Next]_vars => [Retained]_vars
  <2> SUFFICES ASSUME IndInv, [Next]_vars PROVE Retained
    OBVIOUS
  <2>1. /\ LedgerOK(ledger) /\ ledger.entries \in Seq(Entries)
        /\ DOMAIN ledger.positions = 1..Len(ledger.positions)
    BY DEF IndInv, LedgerOK, ShapeOK, Ledgers
  <2>2. CASE /\ ledger'.entries = ledger.entries
             /\ \A k \in 1..Len(ledger.positions) :
                  ledger.positions[k].state = "CLOSED" =>
                      ledger'.positions[k] = ledger.positions[k]
    BY <2>1, <2>2 DEF IsPrefix
  <2>3. ASSUME NEW i \in Intents, NEW x \in Executions, ExecutionOK(x),
               ~Refused(ledger, i, x), BookedAs(ledger, i, x, ledger')
        PROVE  Retained
    <3>1. PICK e \in Entries : /\ ledger'.entries = Append(ledger.entries, e)
                              /\ PositionsFollow(ledger, x, ledger'.positions)
      BY <2>1, <2>3, BookingFields
    <3>2. IsPrefix(ledger.entries, ledger.entries')
      BY <2>1, <3>1 DEF IsPrefix
    <3> QED BY <2>1, <3>1, <3>2 DEF PositionsFollow
  <2> QED BY <2>2, <2>3, StepBooks
<1> QED BY <1>1, Inductive, PTL DEF Spec, HistoryKept

\* Every ledger that bookings and marks lead to is one its constructor accepts.
THEOREM LedgerIsSound == Spec => []LedgerSound
<1>1. TypeOK /\ SettledOnce /\ OneOpenPerMint => LedgerSound
  BY DEF LedgerSound
<1> QED BY <1>1, TypeCorrect, SettlesOnce, OneOpen, PTL

\* The ledger implements the paper account: each step of the ledger settles one
\* key by investing, liquidating or losing money, or is invisible to it.
THEOREM ImplementsPaperAccount == Spec => ImplementsAccount
<1> DEFINE invested == StartingCash + ledger.realized - ledger.cash
<1>1. Init => Account!Init
  BY InputAssumption DEF Init, CreatePaperLedger, Account!Init
<1>2. IndInv /\ [Next]_vars => [Account!Next]_(Account!accountVars)
  <2> SUFFICES ASSUME IndInv, [Next]_vars
               PROVE  Account!Next \/ UNCHANGED Account!accountVars
    OBVIOUS
  <2>1. LedgerOK(ledger) /\ ledger.cash \in Nat /\ ledger.realized \in Int
        /\ StartingCash \in Nat
    BY InputAssumption DEF IndInv, LedgerOK, ShapeOK, Ledgers
  <2>2. CASE /\ ledger'.cash = ledger.cash /\ ledger'.realized = ledger.realized
             /\ ledger'.processed = ledger.processed
    BY <2>2 DEF Account!accountVars
  <2>3. ASSUME NEW i \in Intents, NEW x \in Executions, ExecutionOK(x),
               ~Refused(ledger, i, x), ~Unaffordable(ledger, x),
               BookedAs(ledger, i, x, ledger')
        PROVE  Account!Next
    <3>1. PICK e \in Entries :
            /\ ledger'.cash = ledger.cash + x.net
            /\ ledger'.realized = ledger.realized + e.delta
            /\ ledger'.processed = ledger.processed \cup {x.key}
            /\ MoneyFollows(x, e.delta)
      BY <2>1, <2>3, BookingFields
    <3>2. x.key \in Keys /\ x.key \notin ledger.processed /\ x.net \in Int
      BY <2>3 DEF Executions, Refused, Mismatched
    <3>3. e.delta \in Int
      BY <3>1 DEF MoneyFollows
    <3>4. ledger'.cash \in Nat /\ ledger'.realized \in Int /\ invested' \in Int
      BY <2>1, <2>3, <3>1, <3>2, <3>3 DEF Unaffordable
    <3>5. Account!Invest \/ Account!Liquidate \/ Account!Lose
      BY <2>1, <3>1, <3>2, <3>3
      DEF MoneyFollows, Account!Invest, Account!Liquidate, Account!Lose
    <3>6. Account!Settle(x.key)
      BY <3>1, <3>2, <3>4, <3>5 DEF Account!Settle
    <3> QED BY <3>2, <3>6 DEF Account!Next
  <2> QED BY <2>2, <2>3, StepBooks
<1> QED BY <1>1, <1>2, Inductive, PTL DEF Spec, ImplementsAccount, Account!Spec

-----------------------------------------------------------------------------
(* The books.                                                              *)

\* What is summed over the journal, and over the positions.
CashOf == [e \in Entries |-> e.cash]
DeltaOf == [e \in Entries |-> e.delta]
CostOf == [e \in Entries |-> e.cost]
LinkedQty(id) == [e \in Entries |-> IF e.position = id THEN Signed(e) ELSE 0]
LinkedDelta(id) == [e \in Entries |-> IF e.position = id THEN e.delta ELSE 0]
LinkedCost(id) == [e \in Entries |-> IF e.position = id THEN e.cost ELSE 0]
BasisOf == [p \in Positions |-> p.basis]

JournalOK(l) ==
    /\ l.cash = StartingCash + Summed(CashOf, l.entries)
    /\ l.realized = Summed(DeltaOf, l.entries)
    /\ l.costs = Summed(CostOf, l.entries)

PositionBooked(p, entries) ==
    /\ p.qty = Summed(LinkedQty(p.id), entries)
    /\ p.realized = Summed(LinkedDelta(p.id), entries)
    /\ p.costs = Summed(LinkedCost(p.id), entries)

PositionsBooked(l) ==
    \A n \in 1..Len(l.positions) : PositionBooked(l.positions[n], l.entries)

LinkOK(e, positions) ==
    e.position # None =>
        \E m \in 1..Len(positions) :
            positions[m].id = e.position /\ positions[m].mint = e.mint

LinksOK(l) == \A n \in 1..Len(l.entries) : LinkOK(l.entries[n], l.positions)

InvestedOK(l) == l.cash + Summed(BasisOf, l.positions) = StartingCash + l.realized

BooksOK(l) == JournalOK(l) /\ PositionsBooked(l) /\ LinksOK(l) /\ InvestedOK(l)

\* Each of the amounts is a number.
LEMMA AmountTypes ==
    /\ CashOf \in [Entries -> Int] /\ DeltaOf \in [Entries -> Int]
    /\ CostOf \in [Entries -> Int] /\ BasisOf \in [Positions -> Int]
    /\ \A id : /\ LinkedQty(id) \in [Entries -> Int]
               /\ LinkedDelta(id) \in [Entries -> Int]
               /\ LinkedCost(id) \in [Entries -> Int]
<1>1. \A e \in Entries : /\ e.cash \in Int /\ e.delta \in Int /\ e.cost \in Int
                         /\ e.qty \in Int
  BY DEF Entries
<1>2. \A e \in Entries : Signed(e) \in Int
  BY <1>1 DEF Signed
<1>3. \A p \in Positions : p.basis \in Int
  BY DEF Positions
<1>4. CashOf \in [Entries -> Int] /\ DeltaOf \in [Entries -> Int] /\ CostOf \in [Entries -> Int]
  BY <1>1 DEF CashOf, DeltaOf, CostOf
<1>5. BasisOf \in [Positions -> Int]
  BY <1>3 DEF BasisOf
<1>6. ASSUME NEW id
      PROVE  /\ LinkedQty(id) \in [Entries -> Int]
             /\ LinkedDelta(id) \in [Entries -> Int]
             /\ LinkedCost(id) \in [Entries -> Int]
  <2>1. LinkedQty(id) \in [Entries -> Int]
    BY <1>2 DEF LinkedQty
  <2>2. LinkedDelta(id) \in [Entries -> Int]
    BY <1>1 DEF LinkedDelta
  <2>3. LinkedCost(id) \in [Entries -> Int]
    BY <1>1 DEF LinkedCost
  <2> QED BY <2>1, <2>2, <2>3
<1> QED BY <1>4, <1>5, <1>6

\* An entry linked elsewhere changes nothing of what a position booked; one
\* linked to it adds its own amounts.
LEMMA LinkedAppended ==
    ASSUME NEW entries \in Seq(Entries), NEW e \in Entries, NEW id
    PROVE  /\ Summed(LinkedQty(id), Append(entries, e)) =
                Summed(LinkedQty(id), entries) + (IF e.position = id THEN Signed(e) ELSE 0)
           /\ Summed(LinkedDelta(id), Append(entries, e)) =
                Summed(LinkedDelta(id), entries) + (IF e.position = id THEN e.delta ELSE 0)
           /\ Summed(LinkedCost(id), Append(entries, e)) =
                Summed(LinkedCost(id), entries) + (IF e.position = id THEN e.cost ELSE 0)
<1>1. /\ LinkedQty(id) \in [Entries -> Int] /\ LinkedDelta(id) \in [Entries -> Int]
      /\ LinkedCost(id) \in [Entries -> Int]
  BY AmountTypes
<1>2. /\ LinkedQty(id)[e] = IF e.position = id THEN Signed(e) ELSE 0
      /\ LinkedDelta(id)[e] = IF e.position = id THEN e.delta ELSE 0
      /\ LinkedCost(id)[e] = IF e.position = id THEN e.cost ELSE 0
  BY DEF LinkedQty, LinkedDelta, LinkedCost
<1>3. Summed(LinkedQty(id), Append(entries, e)) =
        Summed(LinkedQty(id), entries) + LinkedQty(id)[e]
  BY <1>1, SummedAppended
<1>4. Summed(LinkedDelta(id), Append(entries, e)) =
        Summed(LinkedDelta(id), entries) + LinkedDelta(id)[e]
  BY <1>1, SummedAppended
<1>5. Summed(LinkedCost(id), Append(entries, e)) =
        Summed(LinkedCost(id), entries) + LinkedCost(id)[e]
  BY <1>1, SummedAppended
<1> QED BY <1>2, <1>3, <1>4, <1>5, Zenon

\* What nothing is linked to has booked nothing.
LEMMA LinkedToNothing ==
    ASSUME NEW entries \in Seq(Entries), NEW id,
           \A n \in 1..Len(entries) : entries[n].position # id
    PROVE  /\ Summed(LinkedQty(id), entries) = 0
           /\ Summed(LinkedDelta(id), entries) = 0
           /\ Summed(LinkedCost(id), entries) = 0
<1>1. \A n \in 1..Len(entries) : entries[n] \in Entries
  BY ElementOfSeq
<1>2. \A n \in 1..Len(entries) : /\ LinkedQty(id)[entries[n]] = 0
                                 /\ LinkedDelta(id)[entries[n]] = 0
                                 /\ LinkedCost(id)[entries[n]] = 0
  BY <1>1 DEF LinkedQty, LinkedDelta, LinkedCost
<1> QED BY <1>2, AmountTypes, SummedZero

\* What a position booked after an entry it is not linked to, and after one it is.
LEMMA BookedElsewhere ==
    ASSUME NEW entries \in Seq(Entries), NEW e \in Entries, NEW p \in Positions,
           PositionBooked(p, entries), e.position # p.id
    PROVE  PositionBooked(p, Append(entries, e))
<1>1. p.qty \in Nat /\ p.realized \in Int /\ p.costs \in Nat
  BY PositionFields
<1>2. /\ Summed(LinkedQty(p.id), Append(entries, e)) = Summed(LinkedQty(p.id), entries) + 0
      /\ Summed(LinkedDelta(p.id), Append(entries, e)) = Summed(LinkedDelta(p.id), entries) + 0
      /\ Summed(LinkedCost(p.id), Append(entries, e)) = Summed(LinkedCost(p.id), entries) + 0
  BY LinkedAppended
<1> QED BY <1>1, <1>2 DEF PositionBooked

LEMMA BookedHere ==
    ASSUME NEW entries \in Seq(Entries), NEW e \in Entries, NEW p, NEW q,
           PositionBooked(p, entries), e.position = p.id, q.id = p.id,
           q.qty = p.qty + Signed(e), q.realized = p.realized + e.delta,
           q.costs = p.costs + e.cost
    PROVE  PositionBooked(q, Append(entries, e))
<1>1. /\ Summed(LinkedQty(p.id), Append(entries, e)) =
            Summed(LinkedQty(p.id), entries) + Signed(e)
      /\ Summed(LinkedDelta(p.id), Append(entries, e)) =
            Summed(LinkedDelta(p.id), entries) + e.delta
      /\ Summed(LinkedCost(p.id), Append(entries, e)) =
            Summed(LinkedCost(p.id), entries) + e.cost
  BY LinkedAppended
<1> QED BY <1>1 DEF PositionBooked

\* One position replaced moves the invested sum by the difference.
LEMMA BasisReplaced ==
    ASSUME NEW old \in Seq(Positions), NEW new \in Seq(Positions), Len(new) = Len(old),
           NEW k \in 1..Len(old), \A n \in 1..Len(old) : n # k => new[n] = old[n]
    PROVE  Summed(BasisOf, new) = Summed(BasisOf, old) + (BasisOf[new[k]] - BasisOf[old[k]])
<1>1. BasisOf \in [Positions -> Int]
  BY AmountTypes
<1>2. Replaced(Positions, BasisOf, old, new, k)
  BY Zenon, <1>1 DEF Replaced
<1> QED BY SMTT(30), <1>2, SummedReplaced

\* A link that held holds when positions keep their identities and tokens.
LEMMA LinkKept ==
    ASSUME NEW e, NEW ps, NEW qs, LinkOK(e, ps), Len(ps) \in Nat, Len(qs) \in Nat,
           Len(ps) <= Len(qs),
           \A n \in 1..Len(ps) : qs[n].id = ps[n].id /\ qs[n].mint = ps[n].mint
    PROVE  LinkOK(e, qs)
BY DEF LinkOK

\* Appending an entry keeps the books when the positions follow it.
LEMMA AfterEntryBooks ==
    ASSUME NEW l, LedgerOK(l), BooksOK(l), NEW i \in Intents, NEW x, ExecutionOK(x),
           ~Refused(l, i, x), NEW ps, PositionsFollow(l, x, ps),
           NEW id \in Keys \cup {None}, NEW delta \in Int,
           BooksFollow(l, i, x, ps, id, delta)
    PROVE  BooksOK(AfterEntry(l, i, x, ps, id, delta))
<1> DEFINE e == Entry(i, x, id, delta)
           ll == AfterEntry(l, i, x, ps, id, delta)
<1>1. /\ i.key = x.key /\ i.mint = x.mint /\ i.side = x.side
      /\ x.key \notin l.processed /\ x.key \in Keys
      /\ x.net \in Int /\ x.cost \in Nat /\ x.qty \in Nat
  BY DEF Refused, Mismatched, ExecutionOK, Executions
<1>2. e \in Entries
  BY <1>1 DEF Entry, Entries, ExecutionOK, Executions, ExecutionStates
<1>3. /\ e.cash = x.net /\ e.delta = delta /\ e.cost = x.cost /\ e.position = id
      /\ e.mint = i.mint /\ Signed(e) = SignedQty(x)
  BY <1>1 DEF Entry, Signed, SignedQty
<1> HIDE DEF e
<1>4. /\ l.entries \in Seq(Entries) /\ l.positions \in Seq(Positions)
      /\ Len(l.positions) \in Nat /\ Len(l.entries) \in Nat
      /\ l.cash \in Nat /\ l.realized \in Int /\ l.costs \in Nat
  BY LenProperties DEF LedgerOK, ShapeOK, Ledgers
<1>5. /\ ll.cash = l.cash + x.net /\ ll.realized = l.realized + delta
      /\ ll.costs = l.costs + x.cost /\ ll.positions = ps
      /\ ll.entries = Append(l.entries, e)
  BY DEF AfterEntry, e
<1> HIDE DEF ll
<1>6. JournalOK(ll)
  <2>1. Summed(CashOf, ll.entries) = Summed(CashOf, l.entries) + CashOf[e]
    BY ZenonT(40), <1>2, <1>4, <1>5, AmountTypes, SummedAppended
  <2>2. Summed(DeltaOf, ll.entries) = Summed(DeltaOf, l.entries) + DeltaOf[e]
    BY ZenonT(40), <1>2, <1>4, <1>5, AmountTypes, SummedAppended
  <2>3. Summed(CostOf, ll.entries) = Summed(CostOf, l.entries) + CostOf[e]
    BY ZenonT(40), <1>2, <1>4, <1>5, AmountTypes, SummedAppended
  <2>4. CashOf[e] = x.net /\ DeltaOf[e] = delta /\ CostOf[e] = x.cost
    BY <1>2, <1>3 DEF CashOf, DeltaOf, CostOf
  <2>5. /\ Summed(CashOf, l.entries) \in Int /\ Summed(DeltaOf, l.entries) \in Int
        /\ Summed(CostOf, l.entries) \in Int
    BY <1>4, AmountTypes, SummedType
  <2> QED BY SMTT(30), <1>1, <1>4, <1>5, <2>1, <2>2, <2>3, <2>4, <2>5, InputAssumption DEF BooksOK, JournalOK
<1>7. \A n \in 1..Len(l.positions) : /\ l.positions[n] \in Positions
                                     /\ l.positions[n].id \in l.processed
                                     /\ PositionBooked(l.positions[n], l.entries)
  BY <1>4, ElementOfSeq DEF LedgerOK, IdentitiesOK, BooksOK, PositionsBooked
<1>8. \A n \in 1..Len(l.entries) :
        l.entries[n].position = None \/ l.entries[n].position \in l.processed
  BY <1>7 DEF BooksOK, LinksOK, LinkOK
<1>9. \A n \in 1..Len(l.entries) : Append(l.entries, e)[n] = l.entries[n]
  BY <1>2, <1>4
<1>10. /\ Append(l.entries, e)[Len(l.entries) + 1] = e
       /\ Len(Append(l.entries, e)) = Len(l.entries) + 1
  BY <1>2, <1>4
<1>11. \A p \in Positions : BasisOf[p] = p.basis /\ p.basis \in Nat
  BY DEF BasisOf, Positions
<1>12. Summed(BasisOf, l.positions) \in Int
  BY <1>4, AmountTypes, SummedType
<1>13. l.cash + Summed(BasisOf, l.positions) = StartingCash + l.realized
  BY DEF BooksOK, InvestedOK
<1>14. \A n \in 1..Len(l.entries) : LinkOK(l.entries[n], l.positions)
  BY DEF BooksOK, LinksOK
\* the last entry's link suffices when earlier positions keep their identity
<1>15. ASSUME Len(ps) \in Nat, Len(l.positions) <= Len(ps), LinkOK(e, ps),
              \A n \in 1..Len(l.positions) : /\ ps[n].id = l.positions[n].id
                                             /\ ps[n].mint = l.positions[n].mint
       PROVE  LinksOK(ll)
  <2>1. \A n \in 1..Len(l.entries) : LinkOK(l.entries[n], ps)
    BY <1>4, <1>14, <1>15, LinkKept
  <2>2. ASSUME NEW n \in 1..Len(ll.entries) PROVE LinkOK(ll.entries[n], ll.positions)
    <3>1. CASE n \in 1..Len(l.entries)
      BY <1>5, <1>9, <2>1, <3>1
    <3>2. CASE n = Len(l.entries) + 1
      BY <1>5, <1>10, <1>15, <3>2
    <3> QED BY <1>4, <1>5, <1>10, <3>1, <3>2
  <2> QED BY <2>2 DEF LinksOK
<1>s. ASSUME Summed(BasisOf, ps) = Summed(BasisOf, l.positions) + (delta - x.net)
      PROVE  InvestedOK(ll)
  <2> DEFINE old == Summed(BasisOf, l.positions)
             new == Summed(BasisOf, ps)
  <2>1. StartingCash \in Nat /\ l.cash \in Nat /\ l.realized \in Int /\ old \in Int
        /\ delta \in Int /\ x.net \in Int
    BY <1>1, <1>4, <1>12, InputAssumption
  <2>2. l.cash + old = StartingCash + l.realized /\ new = old + (delta - x.net)
    BY <1>13, <1>s
  <2> HIDE DEF old, new
  <2>3. (l.cash + x.net) + new = StartingCash + (l.realized + delta)
    BY <2>1, <2>2
  <2> QED BY <1>5, <2>3 DEF InvestedOK, new
<1>16. ASSUME BookedOnNone(l, x, ps, id, delta) PROVE BooksOK(ll)
  <2>1. id = None /\ ps = l.positions /\ delta = x.net
    BY <1>16 DEF BookedOnNone
  <2>2. \A n \in 1..Len(l.positions) : e.position # l.positions[n].id
    BY <1>3, <1>7, <2>1, PositionFields, InputAssumption DEF Keys
  <2>3. PositionsBooked(ll)
    <3> SUFFICES ASSUME NEW n \in 1..Len(l.positions)
                 PROVE  PositionBooked(l.positions[n], Append(l.entries, e))
      BY <1>5, <2>1 DEF PositionsBooked
    <3> QED BY <1>2, <1>4, <1>7, <2>2, BookedElsewhere
  <2>4. LinkOK(e, ps)
    BY <1>3, <2>1 DEF LinkOK
  <2>5. LinksOK(ll)
    BY <1>4, <1>15, <2>1, <2>4
  <2>6. InvestedOK(ll)
    BY <1>1, <1>12, <1>s, <2>1
  <2> QED BY <1>6, <2>3, <2>5, <2>6 DEF BooksOK
<1>17. ASSUME NEW k \in 1..Len(l.positions), NEW p \in Positions,
              BookedOn(l, i, x, ps, id, delta, k, p)
       PROVE  BooksOK(ll)
  <2>1. /\ ps = [l.positions EXCEPT ![k] = p]
        /\ id = l.positions[k].id /\ id = p.id
        /\ l.positions[k].mint = i.mint /\ p.mint = i.mint
        /\ p.qty = l.positions[k].qty + SignedQty(x)
        /\ p.realized = l.positions[k].realized + delta
        /\ p.costs = l.positions[k].costs + x.cost
        /\ p.basis = l.positions[k].basis + (delta - x.net)
    BY <1>17 DEF BookedOn
  <2>2. /\ ps \in Seq(Positions) /\ Len(ps) = Len(l.positions)
        /\ \A n \in 1..Len(l.positions) : ps[n] = IF n = k THEN p ELSE l.positions[n]
    BY <1>4, <2>1, ExceptSeq
  <2>3. PositionsBooked(ll)
    <3> SUFFICES ASSUME NEW n \in 1..Len(l.positions)
                 PROVE  PositionBooked(ps[n], Append(l.entries, e))
      BY <1>5, <2>2 DEF PositionsBooked
    <3>1. CASE n = k
      <4>1. PositionBooked(p, Append(l.entries, e))
        BY <1>2, <1>3, <1>4, <1>7, <2>1, BookedHere
      <4> QED BY <2>2, <3>1, <4>1
    <3>2. CASE n # k
      <4>1. l.positions[n].id # id
        BY <2>1, <3>2 DEF LedgerOK, IdentitiesOK
      <4>2. PositionBooked(l.positions[n], Append(l.entries, e))
        BY <1>2, <1>3, <1>4, <1>7, <4>1, BookedElsewhere
      <4> QED BY <2>2, <3>2, <4>2
    <3> QED BY <3>1, <3>2
  <2>4. \A n \in 1..Len(l.positions) : /\ ps[n].id = l.positions[n].id
                                       /\ ps[n].mint = l.positions[n].mint
    BY <2>1, <2>2
  <2>5. LinkOK(e, ps)
    BY <1>3, <2>1, <2>2 DEF LinkOK
  <2>6. LinksOK(ll)
    BY <1>4, <1>15, <2>2, <2>4, <2>5
  <2>7. Summed(BasisOf, ps) = Summed(BasisOf, l.positions)
                                + (BasisOf[p] - BasisOf[l.positions[k]])
    <3> DEFINE old == l.positions
    <3>1. /\ old \in Seq(Positions) /\ k \in 1..Len(old) /\ Len(ps) = Len(old)
          /\ ps \in Seq(Positions)
          /\ \A n \in 1..Len(old) : n # k => ps[n] = old[n]
      BY <1>4, <2>2
    <3>p. ps[k] = p
      BY <2>2
    <3> HIDE DEF old
    <3>3. Summed(BasisOf, ps) = Summed(BasisOf, old) + (BasisOf[ps[k]] - BasisOf[old[k]])
      BY Zenon, <3>1, BasisReplaced
    <3> QED BY <3>3, <3>p DEF old
  <2>8. InvestedOK(ll)
    <3>1. BasisOf[p] - BasisOf[l.positions[k]] = delta - x.net
      BY SMTT(30), <1>1, <1>7, <1>11, <2>1
    <3> QED BY <1>s, <2>7, <3>1
  <2> QED BY <1>6, <2>3, <2>6, <2>8 DEF BooksOK
<1>18. ASSUME NEW p \in Positions, BookedOnNew(l, i, x, ps, id, delta, p)
       PROVE  BooksOK(ll)
  <2>1. /\ ps = Append(l.positions, p)
        /\ id = x.key /\ id = p.id /\ p.mint = i.mint
        /\ p.qty = SignedQty(x) /\ p.realized = delta /\ p.costs = x.cost
        /\ p.basis = delta - x.net
    BY <1>18 DEF BookedOnNew
  <2>2. /\ ps \in Seq(Positions) /\ Len(ps) = Len(l.positions) + 1
        /\ \A n \in 1..Len(l.positions) : ps[n] = l.positions[n]
        /\ ps[Len(l.positions) + 1] = p
    BY <1>4, <2>1
  <2>3. PositionBooked(p, Append(l.entries, e))
    <3>1. \A n \in 1..Len(l.entries) : l.entries[n].position # p.id
      BY <1>1, <1>8, <2>1, InputAssumption DEF Keys
    <3>2. /\ Summed(LinkedQty(p.id), l.entries) = 0
          /\ Summed(LinkedDelta(p.id), l.entries) = 0
          /\ Summed(LinkedCost(p.id), l.entries) = 0
      BY <1>4, <3>1, LinkedToNothing
    <3>3. /\ Summed(LinkedQty(p.id), Append(l.entries, e)) = 0 + Signed(e)
          /\ Summed(LinkedDelta(p.id), Append(l.entries, e)) = 0 + e.delta
          /\ Summed(LinkedCost(p.id), Append(l.entries, e)) = 0 + e.cost
      BY <1>2, <1>3, <1>4, <2>1, <3>2, LinkedAppended
    <3>4. SignedQty(x) \in Int
      BY <1>1 DEF SignedQty
    <3> QED BY <1>1, <1>3, <2>1, <3>3, <3>4 DEF PositionBooked
  <2>4. PositionsBooked(ll)
    <3> SUFFICES ASSUME NEW n \in 1..(Len(l.positions) + 1)
                 PROVE  PositionBooked(ps[n], Append(l.entries, e))
      BY <1>5, <2>2 DEF PositionsBooked
    <3>1. CASE n = Len(l.positions) + 1
      BY <2>2, <2>3, <3>1
    <3>2. CASE n \in 1..Len(l.positions)
      <4>1. e.position # l.positions[n].id
        BY <1>1, <1>3, <1>7, <2>1, <3>2
      <4>2. PositionBooked(l.positions[n], Append(l.entries, e))
        BY <1>2, <1>4, <1>7, <3>2, <4>1, BookedElsewhere
      <4> QED BY <2>2, <3>2, <4>2
    <3> QED BY <1>4, <3>1, <3>2
  <2>5. LinkOK(e, ps)
    BY SMTT(30), <1>3, <1>4, <2>1, <2>2 DEF LinkOK
  <2>6. LinksOK(ll)
    BY SMTT(30), <1>4, <1>15, <2>2, <2>5
  <2>7. Summed(BasisOf, ps) = Summed(BasisOf, l.positions) + BasisOf[p]
    BY ZenonT(40), <1>4, <2>1, AmountTypes, SummedAppended
  <2>8. InvestedOK(ll)
    BY <1>11, <1>s, <2>1, <2>7
  <2> QED BY <1>6, <2>4, <2>6, <2>8 DEF BooksOK
<1> QED BY <1>16, <1>17, <1>18 DEF BooksFollow, ll

\* Marking a position books nothing.
LEMMA MarkBooks ==
    ASSUME NEW l, LedgerOK(l), BooksOK(l), NEW n, NEW price \in MarkPrices,
           NEW at \in Nat, MayMark(l, n, at)
    PROVE  BooksOK(MarkPaperPosition(l, n, price, at))
<1> DEFINE ll == MarkPaperPosition(l, n, price, at)
           p == l.positions[n]
           r == [p EXCEPT !.mark = price, !.updated = at]
<1>1. /\ l.positions \in Seq(Positions) /\ Len(l.positions) \in Nat
      /\ n \in 1..Len(l.positions) /\ p \in Positions
  BY LenProperties, ElementOfSeq DEF LedgerOK, ShapeOK, Ledgers, MayMark
<1>2. /\ r \in Positions /\ r.id = p.id /\ r.mint = p.mint /\ r.qty = p.qty
      /\ r.basis = p.basis /\ r.realized = p.realized /\ r.costs = p.costs
  <2> HIDE DEF p
  <2> QED BY <1>1 DEF Positions
<1>3. /\ ll.positions = [l.positions EXCEPT ![n] = r] /\ ll.entries = l.entries
      /\ ll.cash = l.cash /\ ll.realized = l.realized /\ ll.costs = l.costs
  <2>1. DOMAIN l = {"cash", "realized", "costs", "asOf", "positions", "entries", "processed"}
    BY DEF LedgerOK, ShapeOK, Ledgers
  <2> QED BY <2>1 DEF MarkPaperPosition
<1> HIDE DEF ll, r
<1>4. /\ ll.positions \in Seq(Positions) /\ Len(ll.positions) = Len(l.positions)
      /\ \A k \in 1..Len(l.positions) :
            ll.positions[k] = IF k = n THEN r ELSE l.positions[k]
  BY <1>1, <1>2, <1>3, ExceptSeq
<1>5. JournalOK(ll)
  BY <1>3 DEF BooksOK, JournalOK
<1>6. PositionsBooked(ll)
  BY <1>1, <1>2, <1>3, <1>4 DEF BooksOK, PositionsBooked, PositionBooked
<1>7. LinksOK(ll)
  <2>1. \A k \in 1..Len(l.positions) : /\ ll.positions[k].id = l.positions[k].id
                                       /\ ll.positions[k].mint = l.positions[k].mint
    BY <1>2, <1>4
  <2>2. \A k \in 1..Len(l.entries) : LinkOK(l.entries[k], l.positions)
    BY DEF BooksOK, LinksOK
  <2>3. \A k \in 1..Len(l.entries) : LinkOK(l.entries[k], ll.positions)
    BY SMTT(30), <1>1, <1>4, <2>1, <2>2, LinkKept
  <2> QED BY <1>3, <2>3 DEF LinksOK
<1>8. InvestedOK(ll)
  <2>1. Summed(BasisOf, ll.positions) =
          Summed(BasisOf, l.positions) + (BasisOf[r] - BasisOf[p])
    <3> DEFINE old == l.positions
               new == ll.positions
    <3>1. /\ old \in Seq(Positions) /\ new \in Seq(Positions) /\ n \in 1..Len(old)
          /\ Len(new) = Len(old) /\ new[n] = r /\ old[n] = p
          /\ \A k \in 1..Len(old) : k # n => new[k] = old[k]
      BY <1>1, <1>4
    <3> HIDE DEF old, new, p
    <3>3. Summed(BasisOf, new) = Summed(BasisOf, old) + (BasisOf[new[n]] - BasisOf[old[n]])
      BY Zenon, <3>1, BasisReplaced
    <3> QED BY <3>1, <3>3 DEF old, new
  <2>2. BasisOf[r] = BasisOf[p] /\ BasisOf[p] \in Int
    BY <1>1, <1>2, AmountTypes DEF BasisOf
  <2>3. Summed(BasisOf, l.positions) \in Int
    BY <1>1, AmountTypes, SummedType
  <2> QED BY <1>3, <2>1, <2>2, <2>3 DEF BooksOK, InvestedOK
<1> QED BY <1>5, <1>6, <1>7, <1>8 DEF BooksOK, ll

LEMMA InitBooks == Init => BooksOK(ledger)
<1> SUFFICES ASSUME Init PROVE BooksOK(ledger)
  OBVIOUS
<1>1. /\ ledger.cash = StartingCash /\ ledger.realized = 0 /\ ledger.costs = 0
      /\ ledger.positions = <<>> /\ ledger.entries = <<>>
  BY DEF Init, CreatePaperLedger
<1>2. StartingCash \in Nat
  BY InputAssumption
<1>3. /\ Summed(CashOf, <<>>) = 0 /\ Summed(DeltaOf, <<>>) = 0 /\ Summed(CostOf, <<>>) = 0
      /\ Summed(BasisOf, <<>>) = 0
  BY AmountTypes, SummedEmpty
<1> QED
  BY <1>1, <1>2, <1>3 DEF BooksOK, JournalOK, PositionsBooked, LinksOK, InvestedOK

LEMMA NextBooks == IndInv /\ BooksOK(ledger) /\ [Next]_vars => BooksOK(ledger)'
<1> SUFFICES ASSUME IndInv, BooksOK(ledger), [Next]_vars PROVE BooksOK(ledger')
  BY DEF BooksOK, JournalOK, PositionsBooked, PositionBooked, LinksOK, LinkOK, InvestedOK
<1>0. LedgerOK(ledger) /\ clock \in Nat
  BY InputAssumption DEF IndInv
<1>1. CASE ledger' = ledger
  BY <1>1
<1>2. ASSUME NEW r \in results, NEW s \in results, Deliver(r.intent, s.execution),
             ledger' # ledger
      PROVE  BooksOK(ledger')
  <2> DEFINE i == r.intent
             x == s.execution
  <2>1. i \in Intents /\ ExecutionOK(x)
    BY DEF IndInv
  <2>2. ledger' = ApplyPaperExecution(ledger, i, x)
    BY <1>2 DEF Deliver
  <2>3. ~Refused(ledger, i, x) /\ BookedAs(ledger, i, x, ledger')
    BY <1>0, <1>2, <2>1, <2>2, ApplyOK
  <2> HIDE DEF i, x
  <2>4. PICK positions : \E id \in Keys \cup {None}, delta \in Int :
          /\ PositionsFollow(ledger, x, positions)
          /\ MoneyFollows(x, delta)
          /\ BooksFollow(ledger, i, x, positions, id, delta)
          /\ ledger' = AfterEntry(ledger, i, x, positions, id, delta)
    BY <2>3, Zenon DEF BookedAs
  <2>5. PICK id \in Keys \cup {None}, delta \in Int :
          /\ PositionsFollow(ledger, x, positions)
          /\ BooksFollow(ledger, i, x, positions, id, delta)
          /\ ledger' = AfterEntry(ledger, i, x, positions, id, delta)
    BY <2>4, Zenon
  <2> QED BY <1>0, <2>1, <2>3, <2>5, AfterEntryBooks
<1>3. ASSUME NEW n \in DOMAIN ledger.positions, NEW price \in MarkPrices, Mark(n, price)
      PROVE  BooksOK(ledger')
  BY <1>0, <1>3, MarkBooks DEF Mark
<1>4. CASE UNCHANGED vars \/ Tick \/ (\E r \in results : Forget(r))
           \/ (\E i \in Intents, q \in Quotes \cup {None} : Attempt(i, q))
  BY <1>1, <1>4 DEF vars, Tick, Forget, Attempt
<1>5. CASE \E r, s \in results : Deliver(r.intent, s.execution)
  BY <1>1, <1>2, <1>5
<1>6. CASE \E n \in DOMAIN ledger.positions, price \in MarkPrices : Mark(n, price)
  BY <1>3, <1>6
<1> QED BY <1>4, <1>5, <1>6 DEF Next

\* The books reconcile, whatever is attempted and delivered, and in whatever
\* order: cash, profit and costs are the journal's; a position holds what was
\* bought and not sold by the entries linked to it, at their profit and costs;
\* every link is to a position of the entry's token; and what was neither
\* invested nor gained or lost is the cash.
THEOREM BooksAreReconciled == Spec => []BooksReconcile
<1>1. IndInv /\ BooksOK(ledger) => BooksReconcile
  <2> SUFFICES ASSUME IndInv, BooksOK(ledger) PROVE BooksReconcile
    OBVIOUS
  <2> DEFINE es == ledger.entries
             ps == ledger.positions
  <2>1. /\ es \in Seq(Entries) /\ DOMAIN es = 1..Len(es)
        /\ ps \in Seq(Positions) /\ DOMAIN ps = 1..Len(ps)
    BY DEF IndInv, LedgerOK, ShapeOK, Ledgers
  <2>2. /\ \A n \in 1..Len(es) : es[n] \in Entries
        /\ \A n \in 1..Len(ps) : ps[n] \in Positions
    BY <2>1, ElementOfSeq
  <2> HIDE DEF es, ps
  <2>3. JournalReconciles
    <3>1. SumOver(es, LAMBDA e : e.cash) = Summed(CashOf, es)
      <4>1. [n \in DOMAIN es |-> es[n].cash] = [n \in 1..Len(es) |-> CashOf[es[n]]]
        BY <2>1, <2>2 DEF CashOf
      <4> QED BY <4>1, Zenon DEF SumOver, Summed
    <3>2. SumOver(es, LAMBDA e : e.delta) = Summed(DeltaOf, es)
      <4>1. [n \in DOMAIN es |-> es[n].delta] = [n \in 1..Len(es) |-> DeltaOf[es[n]]]
        BY <2>1, <2>2 DEF DeltaOf
      <4> QED BY <4>1, Zenon DEF SumOver, Summed
    <3>3. SumOver(es, LAMBDA e : e.cost) = Summed(CostOf, es)
      <4>1. [n \in DOMAIN es |-> es[n].cost] = [n \in 1..Len(es) |-> CostOf[es[n]]]
        BY <2>1, <2>2 DEF CostOf
      <4> QED BY <4>1, Zenon DEF SumOver, Summed
    <3> QED BY <3>1, <3>2, <3>3, Zenon DEF BooksOK, JournalOK, JournalReconciles, es
  <2>4. PositionsReconcile
    <3>1. ASSUME NEW n \in 1..Len(ps)
          PROVE  LET p == ps[n]
                 IN  /\ p.qty = SumLinked(p.id, Signed)
                     /\ p.realized = SumLinked(p.id, LAMBDA e : e.delta)
                     /\ p.costs = SumLinked(p.id, LAMBDA e : e.cost)
      <4> DEFINE id == ps[n].id
      <4>1. SumLinked(id, Signed) = Summed(LinkedQty(id), es)
        <5>1. [k \in DOMAIN es |-> IF es[k].position = id THEN Signed(es[k]) ELSE 0] =
                [k \in 1..Len(es) |-> LinkedQty(id)[es[k]]]
          BY <2>1, <2>2 DEF LinkedQty
        <5> QED BY <5>1, Zenon DEF SumLinked, SumOver, Summed, es
      <4>2. SumLinked(id, LAMBDA e : e.delta) = Summed(LinkedDelta(id), es)
        <5>1. [k \in DOMAIN es |-> IF es[k].position = id THEN es[k].delta ELSE 0] =
                [k \in 1..Len(es) |-> LinkedDelta(id)[es[k]]]
          BY <2>1, <2>2 DEF LinkedDelta
        <5> QED BY <5>1, Zenon DEF SumLinked, SumOver, Summed, es
      <4>3. SumLinked(id, LAMBDA e : e.cost) = Summed(LinkedCost(id), es)
        <5>1. [k \in DOMAIN es |-> IF es[k].position = id THEN es[k].cost ELSE 0] =
                [k \in 1..Len(es) |-> LinkedCost(id)[es[k]]]
          BY <2>1, <2>2 DEF LinkedCost
        <5> QED BY <5>1, Zenon DEF SumLinked, SumOver, Summed, es
      <4>4. PositionBooked(ps[n], es)
        BY DEF BooksOK, PositionsBooked, es, ps
      <4> QED BY <4>1, <4>2, <4>3, <4>4, Zenon DEF PositionBooked
    <3>2. \A n \in 1..Len(es) : LinkOK(es[n], ps)
      BY DEF BooksOK, LinksOK, es, ps
    <3>3. \A n \in DOMAIN es :
            es[n].position # None =>
               \E m \in DOMAIN ps : ps[m].id = es[n].position /\ ps[m].mint = es[n].mint
      BY <2>1, <3>2 DEF LinkOK
    <3> QED BY <2>1, <3>1, <3>3, Zenon DEF PositionsReconcile, es, ps
  <2>5. MoneyConserved
    <3>1. SumOver(ps, LAMBDA p : p.basis) = Summed(BasisOf, ps)
      <4>1. [n \in DOMAIN ps |-> ps[n].basis] = [n \in 1..Len(ps) |-> BasisOf[ps[n]]]
        BY <2>1, <2>2 DEF BasisOf
      <4> QED BY <4>1, Zenon DEF SumOver, Summed
    <3> QED BY <3>1, Zenon DEF BooksOK, InvestedOK, MoneyConserved, ps
  <2> QED BY <2>3, <2>4, <2>5 DEF BooksReconcile
<1>2. Spec => [](IndInv /\ BooksOK(ledger))
  <2>1. Spec => []BooksOK(ledger)
    BY InitBooks, NextBooks, Inductive, PTL DEF Spec
  <2> QED BY <2>1, Inductive, PTL
<1> QED BY <1>1, <1>2, PTL

-----------------------------------------------------------------------------
(* The alerts: what the phone is told of the journal.  First what the      *)
(* detector's filters and lists return.                                    *)

\* f is the function of what is kept of the first members of s.
Keeps(f, s, S) ==
    f = [n \in 0..Len(s) |->
            IF n = 0 THEN <<>>
            ELSE IF s[n] \in S THEN Append(f[n - 1], s[n]) ELSE f[n - 1]]

\* Every sequence has such a function.
LEMMA KeepsExist ==
    ASSUME NEW s, NEW S, Len(s) \in Nat
    PROVE  \E f : Keeps(f, s, S)
<1> DEFINE Step(u, n) == IF s[n] \in S THEN Append(u, s[n]) ELSE u
           UpTo(f, N) == f = [n \in 0..N |-> IF n = 0 THEN <<>> ELSE Step(f[n - 1], n)]
           T == {N \in Nat : \E f : UpTo(f, N)}
<1>1. 0 \in T
  <2> DEFINE f == [n \in 0..0 |-> <<>>]
  <2>1. UpTo(f, 0)
    OBVIOUS
  <2> QED BY <2>1
<1>2. ASSUME NEW N \in Nat, N \in T PROVE N + 1 \in T
  <2>1. PICK f : UpTo(f, N)
    BY <1>2
  <2> DEFINE g == [n \in 0..(N + 1) |-> IF n = N + 1 THEN Step(f[N], N + 1) ELSE f[n]]
  <2> HIDE DEF Step
  <2>2. ASSUME NEW n \in 0..(N + 1)
        PROVE  g[n] = IF n = 0 THEN <<>> ELSE Step(g[n - 1], n)
    <3>1. CASE n = N + 1
      <4>1. /\ g[n] = Step(f[N], N + 1) /\ n # 0 /\ n - 1 = N
            /\ N \in 0..(N + 1) /\ N # N + 1
        BY <3>1
      <4>2. g[n - 1] = f[N]
        BY <4>1
      <4> QED BY <3>1, <4>1, <4>2
    <3>2. CASE n \in 0..N
      <4>1. g[n] = f[n] /\ n # N + 1
        BY <3>2
      <4>2. f[n] = IF n = 0 THEN <<>> ELSE Step(f[n - 1], n)
        BY <2>1, <3>2
      <4>3. n # 0 => g[n - 1] = f[n - 1]
        BY <3>2
      <4> QED BY <4>1, <4>2, <4>3
    <3> QED BY <3>1, <3>2
  <2>3. UpTo(g, N + 1)
    <3>1. g = [n \in 0..(N + 1) |-> g[n]]
      OBVIOUS
    <3> HIDE DEF g
    <3> QED BY <2>2, <3>1
  <2> HIDE DEF UpTo, g
  <2> QED BY <2>3
<1> HIDE DEF T
<1>3. Len(s) \in T
  BY <1>1, <1>2, Induction
<1> QED BY <1>3 DEF T, Keeps

\* u is what S leaves of the first n members of s, in their order.
LeftOf(u, s, S, n) ==
    /\ \A m \in 1..n : s[m] \in S => \E i \in 1..Len(u) : u[i] = s[m]
    /\ \E at \in [1..Len(u) -> 1..n] :
          /\ \A i \in 1..Len(u) : u[i] = s[at[i]] /\ u[i] \in S
          /\ \A i, j \in 1..Len(u) : i < j => at[i] < at[j]

\* One member more.
LEMMA LeftOfMore ==
    ASSUME NEW E, NEW s \in Seq(E), NEW S, NEW u \in Seq(E), NEW v \in Seq(E),
           NEW n \in Nat, n + 1 <= Len(s), LeftOf(u, s, S, n),
           v = IF s[n + 1] \in S THEN Append(u, s[n + 1]) ELSE u
    PROVE  LeftOf(v, s, S, n + 1)
<1>1. PICK at \in [1..Len(u) -> 1..n] :
         /\ \A i \in 1..Len(u) : u[i] = s[at[i]] /\ u[i] \in S
         /\ \A i, j \in 1..Len(u) : i < j => at[i] < at[j]
  BY DEF LeftOf
<1>2. \A m \in 1..n : s[m] \in S => \E i \in 1..Len(u) : u[i] = s[m]
  BY DEF LeftOf
<1>3. /\ Len(u) \in Nat /\ n + 1 \in 1..Len(s) /\ s[n + 1] \in E
      /\ \A m \in 1..(n + 1) : m \in 1..n \/ m = n + 1
  OBVIOUS
<1>6. \A i \in 1..Len(u) : at[i] \in 1..n /\ at[i] \in 1..(n + 1)
  BY <1>1
<1>4. CASE s[n + 1] \notin S
  <2>1. v = u /\ at \in [1..Len(v) -> 1..(n + 1)]
    BY <1>1, <1>4, <1>6
  <2>2. \A m \in 1..(n + 1) : s[m] \in S => \E i \in 1..Len(v) : v[i] = s[m]
    BY <1>2, <1>3, <1>4, <2>1
  <2>3. \A i, j \in 1..Len(v) : i < j => at[i] < at[j]
    BY <1>1, <2>1
  <2>4. \A i \in 1..Len(v) : v[i] = s[at[i]] /\ v[i] \in S
    BY <1>1, <2>1
  <2> QED BY <2>1, <2>2, <2>3, <2>4 DEF LeftOf
<1>5. CASE s[n + 1] \in S
  <2>1. /\ Len(v) = Len(u) + 1 /\ v[Len(u) + 1] = s[n + 1]
        /\ \A i \in 1..Len(u) : v[i] = u[i]
    <3>1. v = Append(u, s[n + 1])
      BY <1>5
    <3> QED BY <1>3, <3>1, AppendProperties
  <2> DEFINE to == [i \in 1..(Len(u) + 1) |-> IF i = Len(u) + 1 THEN n + 1 ELSE at[i]]
  <2>2. \A i \in 1..(Len(u) + 1) : i \in 1..Len(u) \/ i = Len(u) + 1
    BY <1>3
  <2>3. /\ \A i \in 1..Len(u) : to[i] = at[i] /\ i # Len(u) + 1
        /\ to[Len(u) + 1] = n + 1
    BY <1>3
  <2>4. to \in [1..Len(v) -> 1..(n + 1)]
    BY <1>3, <1>6, <2>1, <2>2
  <2> HIDE DEF to
  <2>5. \A i \in 1..Len(v) : v[i] = s[to[i]] /\ v[i] \in S
    BY <1>1, <1>5, <2>1, <2>2, <2>3
  <2>6. ASSUME NEW i \in 1..Len(v), NEW j \in 1..Len(v), i < j
        PROVE  to[i] < to[j]
    <3>1. i \in 1..Len(u)
      BY <1>3, <2>1, <2>6
    <3>2. CASE j = Len(u) + 1
      BY <1>3, <1>6, <2>3, <3>1, <3>2
    <3>3. CASE j \in 1..Len(u)
      BY <1>1, <2>3, <2>6, <3>1, <3>3
    <3> QED BY <2>1, <2>2, <3>2, <3>3
  <2>7. ASSUME NEW m \in 1..(n + 1), s[m] \in S
        PROVE  \E i \in 1..Len(v) : v[i] = s[m]
    <3>1. CASE m = n + 1
      BY <1>3, <2>1, <3>1
    <3>2. CASE m \in 1..n
      <4>1. PICK i \in 1..Len(u) : u[i] = s[m]
        BY <1>2, <2>7, <3>2
      <4>2. i \in 1..Len(v)
        BY <1>3, <2>1
      <4> QED BY <2>1, <4>1, <4>2
    <3> QED BY <1>3, <3>1, <3>2
  <2> QED BY <2>4, <2>5, <2>6, <2>7 DEF LeftOf
<1> QED BY <1>4, <1>5

\* Kept keeps the members of S, each where it stands.
LEMMA KeptShape ==
    ASSUME NEW E, NEW s \in Seq(E), NEW S
    PROVE  Kept(s, S) \in Seq(E) /\ LeftOf(Kept(s, S), s, S, Len(s))
<1>1. Len(s) \in Nat /\ \A n \in 1..Len(s) : s[n] \in E
  OBVIOUS
<1> DEFINE f == CHOOSE g : Keeps(g, s, S)
<1>2. Keeps(f, s, S)
  BY <1>1, KeepsExist
<1>3. Kept(s, S) = f[Len(s)]
  BY DEF Kept, Keeps
<1> HIDE DEF f
<1>4. \A m \in 0..Len(s) :
         f[m] = IF m = 0 THEN <<>>
                ELSE IF s[m] \in S THEN Append(f[m - 1], s[m]) ELSE f[m - 1]
  BY <1>2, Zenon DEF Keeps
<1>5. f[0] = <<>>
  BY <1>1, <1>4
<1> DEFINE T == {n \in Nat : n <= Len(s) => f[n] \in Seq(E) /\ LeftOf(f[n], s, S, n)}
<1>6. 0 \in T
  <2>1. <<>> \in Seq(E) /\ Len(<<>>) = 0 /\ 1..0 = {}
    OBVIOUS
  <2>2. [i \in 1..0 |-> 1] \in [1..0 -> 1..0]
    BY <2>1
  <2>3. LeftOf(<<>>, s, S, 0)
    BY <2>1, <2>2 DEF LeftOf
  <2> QED BY <1>5, <2>1, <2>3
<1>7. ASSUME NEW n \in Nat, n \in T PROVE n + 1 \in T
  <2> SUFFICES ASSUME n + 1 <= Len(s)
               PROVE  f[n + 1] \in Seq(E) /\ LeftOf(f[n + 1], s, S, n + 1)
    OBVIOUS
  <2>1. /\ n + 1 \in 0..Len(s) /\ n + 1 # 0 /\ (n + 1) - 1 = n
        /\ f[n] \in Seq(E) /\ LeftOf(f[n], s, S, n) /\ s[n + 1] \in E
    BY <1>1, <1>7
  <2>2. f[n + 1] = IF s[n + 1] \in S THEN Append(f[n], s[n + 1]) ELSE f[n]
    <3> HIDE DEF T
    <3> QED BY <1>4, <2>1, Zenon
  <2>3. f[n + 1] \in Seq(E)
    BY <2>1, <2>2
  <2> HIDE DEF T
  <2> QED BY <2>1, <2>2, <2>3, LeftOfMore
<1> HIDE DEF T
<1>8. Len(s) \in T
  BY <1>1, <1>6, <1>7, Induction
<1> QED BY <1>3, <1>8, <1>1 DEF T

\* Distinct events, those of the journal in the order of the journal.
Lists(s) ==
    /\ s \in Seq(Events)
    /\ \A i, j \in 1..Len(s) : s[i] = s[j] => i = j
    /\ \A i, j \in 1..Len(s) :
          i < j /\ IsLedger(s[i]) /\ IsLedger(s[j]) => s[i][2] <= s[j][2]

\* No journal event of S is behind one of T.
NotBehind(S, T) ==
    \A e \in S, d \in T : IsLedger(e) /\ IsLedger(d) => e[2] <= d[2]

\* The parts of an event, by its kind.
LEMMA EventShape ==
    /\ \A e \in Events : IsLedger(e) => e[2] \in 1..MaxEntries
    /\ \A n \in 1..MaxEntries :
          \A c \in {"POSITION_OPENED", "POSITION_CLOSED", "EXECUTION_DEGRADED"} :
              <<"ledger", n, c>> \in Events
    /\ \A c \in Conditions : ConditionEvent(c) \in Events /\ ~IsLedger(ConditionEvent(c))
    /\ \A n \in 0..MaxChanges, p \in Proofs :
          <<"proof", n, p>> \in Events /\ ~IsLedger(<<"proof", n, p>>)
    /\ <<"startup", 0, "ALERTING_STARTED">> \in Events
    /\ ~IsLedger(<<"startup", 0, "ALERTING_STARTED">>)
BY DEF Events, IsLedger, ConditionEvent

\* The members of a sequence are what stands somewhere in it.
LEMMA MembersOf ==
    ASSUME NEW E, NEW s \in Seq(E)
    PROVE  /\ \A e : e \in ToSet(s) <=> \E i \in 1..Len(s) : e = s[i]
           /\ \A i \in 1..Len(s) : s[i] \in ToSet(s)
           /\ ToSet(s) \subseteq E
BY DEF ToSet

\* Where the members of two sequences stand in the joined one.
LEMMA Joined ==
    ASSUME NEW E, NEW s \in Seq(E), NEW t \in Seq(E)
    PROVE  /\ s \o t \in Seq(E) /\ Len(s \o t) = Len(s) + Len(t)
           /\ \A n \in 1..Len(s) : n \in 1..Len(s \o t) /\ (s \o t)[n] = s[n]
           /\ \A n \in 1..Len(t) :
                 n + Len(s) \in 1..Len(s \o t) /\ (s \o t)[n + Len(s)] = t[n]
           /\ \A n \in 1..Len(s \o t) : n \notin 1..Len(s) =>
                 n - Len(s) \in 1..Len(t) /\ (s \o t)[n] = t[n - Len(s)]
OBVIOUS

LEMMA JoinedMembers ==
    ASSUME NEW E, NEW s \in Seq(E), NEW t \in Seq(E)
    PROVE  ToSet(s \o t) = ToSet(s) \cup ToSet(t)
<1> DEFINE u == s \o t
<1>1. /\ u \in Seq(E)
      /\ \A n \in 1..Len(s) : n \in 1..Len(u) /\ u[n] = s[n]
      /\ \A n \in 1..Len(t) : n + Len(s) \in 1..Len(u) /\ u[n + Len(s)] = t[n]
      /\ \A n \in 1..Len(u) : n \notin 1..Len(s) =>
            n - Len(s) \in 1..Len(t) /\ u[n] = t[n - Len(s)]
  BY Joined
<1> HIDE DEF u
<1>2. /\ \A e : e \in ToSet(u) <=> \E i \in 1..Len(u) : e = u[i]
      /\ \A e : e \in ToSet(s) <=> \E i \in 1..Len(s) : e = s[i]
      /\ \A e : e \in ToSet(t) <=> \E i \in 1..Len(t) : e = t[i]
  BY <1>1, MembersOf
<1>3. ASSUME NEW e \in ToSet(u) PROVE e \in ToSet(s) \cup ToSet(t)
  <2>1. PICK n \in 1..Len(u) : e = u[n]
    BY <1>2
  <2>2. CASE n \in 1..Len(s)
    BY <1>1, <1>2, <2>1, <2>2
  <2>3. CASE n \notin 1..Len(s)
    BY <1>1, <1>2, <2>1, <2>3
  <2> QED BY <2>2, <2>3
<1>4. ASSUME NEW e \in ToSet(s) PROVE e \in ToSet(u)
  <2>1. PICK n \in 1..Len(s) : e = s[n]
    BY <1>2
  <2> QED BY <1>1, <1>2, <2>1
<1>5. ASSUME NEW e \in ToSet(t) PROVE e \in ToSet(u)
  <2>1. PICK n \in 1..Len(t) : e = t[n]
    BY <1>2
  <2> QED BY <1>1, <1>2, <2>1
<1>6. ToSet(u) = ToSet(s) \cup ToSet(t)
  BY <1>3, <1>4, <1>5
<1> QED BY <1>6 DEF u

\* Two lists without a common event, the journal's events of the first not
\* behind the second's, are one list.
LEMMA JoinedLists ==
    ASSUME NEW s, NEW t, Lists(s), Lists(t),
           ToSet(s) \cap ToSet(t) = {}, NotBehind(ToSet(s), ToSet(t))
    PROVE  Lists(s \o t) /\ ToSet(s \o t) = ToSet(s) \cup ToSet(t)
<1> DEFINE u == s \o t
<1>1. /\ s \in Seq(Events) /\ t \in Seq(Events)
      /\ Len(s) \in Nat /\ Len(t) \in Nat
  BY DEF Lists
<1>2. /\ u \in Seq(Events)
      /\ \A n \in 1..Len(s) : u[n] = s[n]
      /\ \A n \in 1..Len(u) : n \notin 1..Len(s) =>
            n - Len(s) \in 1..Len(t) /\ u[n] = t[n - Len(s)]
  BY <1>1, Joined
<1> HIDE DEF u
<1>3. /\ \A n \in 1..Len(s) : s[n] \in ToSet(s)
      /\ \A n \in 1..Len(t) : t[n] \in ToSet(t)
  BY <1>1, MembersOf
<1>4. ASSUME NEW i \in 1..Len(u), NEW j \in 1..Len(u), i < j
      PROVE  /\ u[i] # u[j]
             /\ IsLedger(u[i]) /\ IsLedger(u[j]) => u[i][2] <= u[j][2]
  <2>1. CASE i \in 1..Len(s) /\ j \in 1..Len(s)
    <3>1. u[i] = s[i] /\ u[j] = s[j]
      BY <1>2, <2>1
    <3> QED BY <1>4, <2>1, <3>1 DEF Lists
  <2>2. CASE i \in 1..Len(s) /\ j \notin 1..Len(s)
    <3>1. u[i] \in ToSet(s) /\ u[j] \in ToSet(t)
      BY <1>2, <1>3, <2>2
    <3> QED BY <3>1 DEF NotBehind
  <2>3. CASE i \notin 1..Len(s) /\ j \notin 1..Len(s)
    <3> DEFINE k == i - Len(s)
               l == j - Len(s)
    <3>1. /\ k \in 1..Len(t) /\ l \in 1..Len(t)
          /\ u[i] = t[k] /\ u[j] = t[l]
      BY <1>2, <2>3
    <3>2. k < l
      BY <1>1, <1>4
    <3> HIDE DEF k, l
    <3> QED BY <3>1, <3>2 DEF Lists
  <2>4. i \notin 1..Len(s) => j \notin 1..Len(s)
    BY <1>1, <1>4
  <2> QED BY <2>1, <2>2, <2>3, <2>4
<1>5. ASSUME NEW i \in 1..Len(u), NEW j \in 1..Len(u), u[i] = u[j]
      PROVE  i = j
  <2>1. i < j \/ j < i \/ i = j
    BY <1>2
  <2> QED BY <1>4, <1>5, <2>1
<1>6. Lists(u)
  BY <1>2, <1>4, <1>5 DEF Lists
<1>7. ToSet(s \o t) = ToSet(s) \cup ToSet(t)
  BY <1>1, JoinedMembers
<1> QED BY <1>6, <1>7 DEF u

LEMMA EmptyLists == Lists(<<>>) /\ ToSet(<<>>) = {}
BY DEF Lists, ToSet

LEMMA OneLists ==
    ASSUME NEW e \in Events
    PROVE  Lists(<<e>>) /\ ToSet(<<e>>) = {e}
BY DEF Lists, ToSet

LEMMA KeptMembers ==
    ASSUME NEW E, NEW s \in Seq(E), NEW S
    PROVE  ToSet(Kept(s, S)) = ToSet(s) \cap S
<1> DEFINE u == Kept(s, S)
<1>1. u \in Seq(E) /\ LeftOf(u, s, S, Len(s))
  BY KeptShape
<1> HIDE DEF u
<1>2. /\ \A e : e \in ToSet(u) <=> \E i \in 1..Len(u) : e = u[i]
      /\ \A e : e \in ToSet(s) <=> \E i \in 1..Len(s) : e = s[i]
  BY <1>1, MembersOf
<1>3. \A i \in 1..Len(u) : u[i] \in S /\ \E m \in 1..Len(s) : u[i] = s[m]
  BY <1>1 DEF LeftOf
<1>4. \A m \in 1..Len(s) : s[m] \in S => \E i \in 1..Len(u) : u[i] = s[m]
  BY <1>1 DEF LeftOf
<1>5. ToSet(u) = ToSet(s) \cap S
  BY <1>2, <1>3, <1>4
<1> QED BY <1>5 DEF u

\* A filtered list is a list.
LEMMA KeptLists ==
    ASSUME NEW s, NEW S, Lists(s)
    PROVE  Lists(Kept(s, S)) /\ ToSet(Kept(s, S)) = ToSet(s) \cap S
<1> DEFINE u == Kept(s, S)
<1>1. /\ s \in Seq(Events)
      /\ \A i, j \in 1..Len(s) : s[i] = s[j] => i = j
      /\ \A i, j \in 1..Len(s) :
            i < j /\ IsLedger(s[i]) /\ IsLedger(s[j]) => s[i][2] <= s[j][2]
  BY DEF Lists
<1>2. u \in Seq(Events) /\ LeftOf(u, s, S, Len(s))
  BY <1>1, KeptShape
<1> HIDE DEF u
<1>3. PICK at \in [1..Len(u) -> 1..Len(s)] :
         /\ \A i \in 1..Len(u) : u[i] = s[at[i]]
         /\ \A i, j \in 1..Len(u) : i < j => at[i] < at[j]
  BY <1>2 DEF LeftOf
<1>4. \A i \in 1..Len(u) : at[i] \in 1..Len(s)
  BY <1>3
<1>5. ASSUME NEW i \in 1..Len(u), NEW j \in 1..Len(u), i < j
      PROVE  /\ u[i] # u[j]
             /\ IsLedger(u[i]) /\ IsLedger(u[j]) => u[i][2] <= u[j][2]
  <2>1. at[i] < at[j] /\ at[i] # at[j] /\ u[i] = s[at[i]] /\ u[j] = s[at[j]]
    BY <1>3, <1>4, <1>5
  <2> QED BY <1>1, <1>4, <2>1
<1>6. ASSUME NEW i \in 1..Len(u), NEW j \in 1..Len(u), u[i] = u[j]
      PROVE  i = j
  <2>1. i < j \/ j < i \/ i = j
    BY <1>2
  <2> QED BY <1>5, <1>6, <2>1
<1>7. Lists(u)
  BY <1>2, <1>5, <1>6 DEF Lists
<1>8. ToSet(Kept(s, S)) = ToSet(s) \cap S
  BY <1>1, KeptMembers
<1> QED BY <1>7, <1>8 DEF u

\* What is new among the active conditions.
NewConditions(active) ==
    {c \in active : IF file.initialized THEN c \notin file.active ELSE c \in Critical}

\* Every new condition gives its event, once.
LEMMA ConditionsListed ==
    ASSUME NEW active \in SUBSET Conditions
    PROVE  /\ Lists(ConditionEvents(active))
           /\ ToSet(ConditionEvents(active)) =
                 {ConditionEvent(c) : c \in NewConditions(active)}
<1> DEFINE new == NewConditions(active)
           listed == Kept(ListedConditions, new)
           events == [i \in DOMAIN listed |-> ConditionEvent(listed[i])]
           all == ListedConditions
<1>1. /\ ConditionEvents(active) = events
      /\ new \in SUBSET Conditions
  BY DEF ConditionEvents, NewConditions
<1>2. /\ all \in Seq(Conditions)
      /\ \A i, j \in 1..Len(all) : all[i] = all[j] => i = j
      /\ \A c \in Conditions : \E i \in 1..Len(all) : c = all[i]
  <2>1. Len(all) = 5 /\ 1..5 = {1, 2, 3, 4, 5}
    BY DEF ListedConditions
  <2>2. all \in Seq(Conditions)
    BY DEF ListedConditions, Conditions, Critical, Halt, Stale
  <2>3. \A i, j \in {1, 2, 3, 4, 5} : all[i] = all[j] => i = j
    BY DEF ListedConditions, Halt, Stale
  <2>4. \A c \in Conditions : \E i \in {1, 2, 3, 4, 5} : c = all[i]
    <3>1. /\ all[1] = "CORE_RUNTIME_STOPPED"
          /\ all[2] = "TELEMETRY_SOURCE_UNAVAILABLE"
          /\ all[3] = Stale /\ all[4] = "PAPER_SOURCE_UNAVAILABLE" /\ all[5] = Halt
      BY DEF ListedConditions
    <3> HIDE DEF all
    <3> QED BY <3>1 DEF Conditions, Critical
  <2> HIDE DEF all
  <2> QED BY <2>1, <2>2, <2>3, <2>4
<1> HIDE DEF all, new
<1>3. /\ listed \in Seq(Conditions) /\ LeftOf(listed, all, new, Len(all))
      /\ ToSet(listed) = ToSet(all) \cap new
  BY <1>2, KeptShape, KeptMembers DEF all
<1> HIDE DEF listed
<1>4. PICK at \in [1..Len(listed) -> 1..Len(all)] :
         /\ \A i \in 1..Len(listed) : listed[i] = all[at[i]]
         /\ \A i, j \in 1..Len(listed) : i < j => at[i] < at[j]
  BY <1>3 DEF LeftOf
<1>5. ASSUME NEW i \in 1..Len(listed), NEW j \in 1..Len(listed), listed[i] = listed[j]
      PROVE  i = j
  <2>1. at[i] \in 1..Len(all) /\ at[j] \in 1..Len(all)
    BY <1>4
  <2>2. all[at[i]] = all[at[j]]
    BY <1>4, <1>5
  <2>3. at[i] = at[j]
    BY <1>2, <2>1, <2>2, Zenon
  <2>4. at[i] \in Int /\ at[j] \in Int
    BY <2>1
  <2>5. i < j \/ j < i \/ i = j
    BY <1>3
  <2> QED BY <1>4, <2>3, <2>4, <2>5
<1>6. /\ Len(listed) \in Nat /\ DOMAIN listed = 1..Len(listed)
      /\ \A i \in 1..Len(listed) : listed[i] \in Conditions
  BY <1>3
<1>7. /\ events \in Seq(Events) /\ Len(events) = Len(listed)
      /\ \A i \in 1..Len(events) : events[i] = ConditionEvent(listed[i])
  BY <1>6, EventShape
<1> HIDE DEF events
<1>8. \A c, d : ConditionEvent(c) = ConditionEvent(d) => c = d
  BY DEF ConditionEvent
<1>9. Lists(events)
  <2>1. ASSUME NEW i \in 1..Len(events), NEW j \in 1..Len(events), events[i] = events[j]
        PROVE  i = j
    BY <1>5, <1>7, <1>8, <2>1
  <2>2. \A i \in 1..Len(events) : ~IsLedger(events[i])
    BY <1>6, <1>7, EventShape
  <2> QED BY <1>7, <2>1, <2>2 DEF Lists
<1>10. ToSet(listed) = new
  <2>1. \A e : e \in ToSet(all) <=> \E i \in 1..Len(all) : e = all[i]
    BY <1>2, MembersOf
  <2>2. ToSet(all) \subseteq Conditions
    BY <1>2, MembersOf
  <2>3. ToSet(all) = Conditions
    BY <1>2, <2>1, <2>2, Zenon
  <2> QED BY <1>1, <1>3, <2>3
<1>11. ToSet(events) = {ConditionEvent(c) : c \in new}
  <2>1. \A e : e \in ToSet(events) <=> \E i \in 1..Len(events) : e = events[i]
    BY <1>7, MembersOf
  <2>2. \A c : c \in new <=> \E i \in 1..Len(listed) : c = listed[i]
    BY <1>3, <1>10, MembersOf
  <2> QED BY <1>7, <2>1, <2>2
<1> QED BY <1>1, <1>9, <1>11 DEF new

\* What an entry gives: events of its own number.
LEMMA EntryLists ==
    ASSUME NEW n \in 1..MaxEntries
    PROVE  /\ Lists(EntryEvents(n))
           /\ \A e \in ToSet(EntryEvents(n)) : IsLedger(e) /\ e[2] = n
<1> DEFINE a == <<"ledger", n, "POSITION_OPENED">>
           b == <<"ledger", n, "POSITION_CLOSED">>
           c == <<"ledger", n, "EXECUTION_DEGRADED">>
<1>1. /\ a \in Events /\ b \in Events /\ c \in Events
      /\ IsLedger(a) /\ IsLedger(b) /\ IsLedger(c)
      /\ a[2] = n /\ b[2] = n /\ c[2] = n /\ a # c /\ n <= n
  BY EventShape DEF IsLedger
<1>2. EntryEvents(n) \in {<<>>, <<a>>, <<b>>, <<c>>, <<a, c>>}
  BY DEF EntryEvents
<1> HIDE DEF a, b, c
<1>3. CASE EntryEvents(n) = <<>>
  BY <1>3, EmptyLists
<1>4. CASE EntryEvents(n) = <<a, c>>
  <2>1. Lists(<<a, c>>)
    BY <1>1 DEF Lists
  <2>2. ToSet(<<a, c>>) = {a, c}
    BY DEF ToSet
  <2> QED BY <1>1, <1>4, <2>1, <2>2
<1>5. CASE EntryEvents(n) \in {<<a>>, <<b>>, <<c>>}
  BY <1>1, <1>5, OneLists
<1> QED BY <1>2, <1>3, <1>4, <1>5

\* f is the function of what the first entries behind the cursor tell.
Tells(f) ==
    f = [n \in 0..Len(journal) |->
            IF n <= file.ledger THEN <<>> ELSE f[n - 1] \o EntryEvents(n)]

\* There is such a function.
LEMMA TellsExist ==
    ASSUME Len(journal) \in Nat, file.ledger \in Nat
    PROVE  \E f : Tells(f)
<1> DEFINE UpTo(f, N) ==
               f = [n \in 0..N |-> IF n <= file.ledger THEN <<>>
                                   ELSE f[n - 1] \o EntryEvents(n)]
           T == {N \in Nat : \E f : UpTo(f, N)}
<1>1. 0 \in T
  <2> DEFINE f == [n \in 0..0 |-> <<>>]
  <2>1. UpTo(f, 0)
    OBVIOUS
  <2> QED BY <2>1
<1>2. ASSUME NEW N \in Nat, N \in T PROVE N + 1 \in T
  <2>1. PICK f : UpTo(f, N)
    BY <1>2
  <2> DEFINE Step(u, n) == IF n <= file.ledger THEN <<>> ELSE u \o EntryEvents(n)
             g == [n \in 0..(N + 1) |-> IF n = N + 1 THEN Step(f[N], N + 1) ELSE f[n]]
  <2>2. ASSUME NEW n \in 0..(N + 1)
        PROVE  g[n] = IF n <= file.ledger THEN <<>> ELSE g[n - 1] \o EntryEvents(n)
    <3>1. CASE n = N + 1
      <4>1. /\ g[n] = Step(f[N], N + 1) /\ n - 1 = N
            /\ N \in 0..(N + 1) /\ N # N + 1
        BY <3>1
      <4>2. g[n - 1] = f[N]
        BY <4>1
      <4> HIDE DEF g
      <4> QED BY <3>1, <4>1, <4>2
    <3>2. CASE n \in 0..N
      <4>1. g[n] = f[n] /\ n # N + 1
        BY <3>2
      <4>2. f[n] = IF n <= file.ledger THEN <<>> ELSE f[n - 1] \o EntryEvents(n)
        BY <2>1, <3>2
      <4>3. ~(n <= file.ledger) => g[n - 1] = f[n - 1]
        BY <3>2
      <4> HIDE DEF g
      <4> QED BY <4>1, <4>2, <4>3
    <3> QED BY <3>1, <3>2
  <2>3. UpTo(g, N + 1)
    <3>1. g = [n \in 0..(N + 1) |-> g[n]]
      OBVIOUS
    <3> HIDE DEF g
    <3> QED BY <2>2, <3>1
  <2> HIDE DEF UpTo, g
  <2> QED BY <2>3
<1> HIDE DEF T
<1>3. Len(journal) \in T
  BY <1>1, <1>2, Induction
<1> QED BY <1>3 DEF T, Tells

\* u tells what the entries between the cursor and n give.
Told(u, n) ==
    /\ Lists(u)
    /\ \A e \in ToSet(u) : IsLedger(e) /\ e[2] \in (file.ledger + 1)..n
    /\ \A m \in (file.ledger + 1)..n : ToSet(EntryEvents(m)) \subseteq ToSet(u)

\* The events of the journal behind the cursor: all of them, in its order.
LEMMA LedgerListed ==
    ASSUME Len(journal) \in 0..MaxEntries, file.ledger \in 0..MaxEntries
    PROVE  /\ Lists(LedgerEvents)
           /\ \A e \in ToSet(LedgerEvents) :
                 IsLedger(e) /\ e[2] \in (file.ledger + 1)..Len(journal)
           /\ file.initialized => Told(LedgerEvents, Len(journal))
<1> DEFINE N == Len(journal)
           f == CHOOSE g : Tells(g)
<1>1. /\ N \in Nat /\ file.ledger \in Nat /\ MaxEntries \in Nat
      /\ N <= MaxEntries
  BY AlertAssumption DEF AlertAssumption
<1>2. Tells(f)
  BY <1>1, TellsExist
<1>3. LedgerEvents = IF file.initialized THEN f[N] ELSE <<>>
  BY DEF LedgerEvents, Tells
<1> HIDE DEF f
<1>4. \A m \in 0..N :
         f[m] = IF m <= file.ledger THEN <<>> ELSE f[m - 1] \o EntryEvents(m)
  BY <1>2, Zenon DEF Tells
<1> DEFINE T == {n \in Nat : n <= N => Told(f[n], n)}
<1>5. ASSUME NEW n \in Nat, n <= file.ledger PROVE Told(<<>>, n)
  <2>1. (file.ledger + 1)..n = {}
    BY <1>1, <1>5
  <2> QED BY <2>1, EmptyLists DEF Told
<1>6. 0 \in T
  <2>1. 0 \in 0..N /\ 0 <= file.ledger
    BY <1>1
  <2> QED BY <1>4, <1>5, <2>1
<1>7. ASSUME NEW n \in Nat, n \in T PROVE n + 1 \in T
  <2> SUFFICES ASSUME n + 1 <= N PROVE Told(f[n + 1], n + 1)
    OBVIOUS
  <2>1. /\ n + 1 \in 0..N /\ (n + 1) - 1 = n /\ n + 1 \in 1..MaxEntries
        /\ Told(f[n], n)
    BY <1>1, <1>7
  <2> HIDE DEF T
  <2>2. f[n + 1] = IF n + 1 <= file.ledger THEN <<>> ELSE f[n] \o EntryEvents(n + 1)
    BY <1>4, <2>1, Zenon
  <2>3. CASE n + 1 <= file.ledger
    BY <1>5, <2>2, <2>3
  <2>4. CASE ~(n + 1 <= file.ledger)
    <3> DEFINE s == f[n]
               t == EntryEvents(n + 1)
    <3>1. /\ Lists(s) /\ Lists(t)
          /\ \A e \in ToSet(s) : IsLedger(e) /\ e[2] \in (file.ledger + 1)..n
          /\ \A e \in ToSet(t) : IsLedger(e) /\ e[2] = n + 1
          /\ \A m \in (file.ledger + 1)..n : ToSet(EntryEvents(m)) \subseteq ToSet(s)
      BY <2>1, EntryLists DEF Told
    <3>2. f[n + 1] = s \o t
      BY <2>2, <2>4
    <3> HIDE DEF s
    <3>3. \A m \in (file.ledger + 1)..(n + 1) : m \in (file.ledger + 1)..n \/ m = n + 1
      BY <1>1
    <3>4. \A m \in (file.ledger + 1)..(n + 1) :
             ToSet(EntryEvents(m)) \subseteq ToSet(s) \cup ToSet(t)
      BY <3>1, <3>3
    <3> HIDE DEF t
    <3>5. /\ ToSet(s) \cap ToSet(t) = {} /\ NotBehind(ToSet(s), ToSet(t))
      BY <1>1, <3>1 DEF NotBehind
    <3>6. Lists(s \o t) /\ ToSet(s \o t) = ToSet(s) \cup ToSet(t)
      BY <3>1, <3>5, JoinedLists
    <3>8. \A e \in ToSet(s) \cup ToSet(t) :
             IsLedger(e) /\ e[2] \in (file.ledger + 1)..(n + 1)
      BY <1>1, <2>4, <3>1
    <3> QED BY <3>2, <3>4, <3>6, <3>8 DEF Told
  <2> QED BY <2>3, <2>4
<1> HIDE DEF T
<1>8. Told(f[N], N)
  <2>1. N \in T
    BY <1>1, <1>6, <1>7, Induction
  <2> QED BY <1>1, <2>1 DEF T
<1> QED BY <1>3, <1>8, EmptyLists DEF Told

-----------------------------------------------------------------------------
(* The invariant of the alerts.                                            *)

Unavailable == "TELEMETRY_SOURCE_UNAVAILABLE"

\* The cursor has passed what was told and nothing else.
CursorOK ==
    /\ Len(journal) <= MaxEntries /\ changes \in 0..MaxChanges /\ faults \in Nat
    /\ file.ledger <= Len(journal)
    /\ ~file.initialized => file = NoFile
    /\ \A e \in ToSet(file.pending) \cup ToSet(sent) : IsLedger(e) => e[2] <= file.ledger

\* What is sent next is not before what was sent, nor behind what is sent later.
QueueOrdered ==
    /\ Lists(file.pending)
    /\ NotBehind(ToSet(sent), ToSet(file.pending))
    /\ pc = "acknowledge" => Head(queue) \in ToSet(sent)

\* A journal event that is to be sent was sent at most once for each fault;
\* one more, and it is acknowledged now or was so before.
ToBeSent(e) ==
    e \in ToSet(file.pending) /\ ~(pc = "acknowledge" /\ e = Head(queue))
CopiesOK ==
    \A e \in Events :
        IsLedger(e) => Copies(e) <= (IF ToBeSent(e) THEN faults ELSE 1 + faults)

\* While a halt lasts that was announced, the file has it among its conditions
\* or telemetry could not be read.
HaltOK ==
    /\ Halt \notin telemetry.conditions => haltEnded
    /\ ~haltEnded =>
          file.initialized /\ file.active \cap {Halt, Unavailable} # {}

AlertInv ==
    /\ AlertTypeOK /\ NothingMissed /\ OrderedDelivery
    /\ CursorOK /\ QueueOrdered /\ CopiesOK /\ HaltOK

NewEvents(seesTelemetry, seesPaper) ==
    StartupEvents \o ConditionEvents(ActiveConditions(seesTelemetry, seesPaper))
    \o (IF seesPaper THEN LedgerEvents ELSE <<>>)
    \o (IF seesTelemetry THEN ProofEvents ELSE <<>>)

\* What one cycle finds to tell: each event once, the journal's in its order.
LEMMA NewEventsList ==
    ASSUME AlertTypeOK, CursorOK,
           NEW seesTelemetry \in BOOLEAN, NEW seesPaper \in BOOLEAN
    PROVE  LET new == NewEvents(seesTelemetry, seesPaper)
           IN  /\ Lists(new)
               /\ \A e \in ToSet(new) : IsLedger(e) =>
                     seesPaper /\ e[2] \in (file.ledger + 1)..Len(journal)
               /\ seesPaper /\ file.initialized =>
                     \A n \in (file.ledger + 1)..Len(journal) :
                         ToSet(EntryEvents(n)) \subseteq ToSet(new)
               /\ ConditionEvent(Halt) \in ToSet(new) =>
                     Halt \in NewConditions(ActiveConditions(seesTelemetry, seesPaper))
<1> DEFINE active == ActiveConditions(seesTelemetry, seesPaper)
           a == StartupEvents
           b == ConditionEvents(active)
           c == IF seesPaper THEN LedgerEvents ELSE <<>>
           d == IF seesTelemetry THEN ProofEvents ELSE <<>>
<1>1. active \in SUBSET Conditions
  BY DEF ActiveConditions, AlertTypeOK, Conditions, Critical
<1>2. Lists(a) /\ \A e \in ToSet(a) : e[1] = "startup"
  BY EmptyLists, OneLists, EventShape DEF StartupEvents
<1>3. /\ Lists(b) /\ \A e \in ToSet(b) : e[1] = "condition"
      /\ ConditionEvent(Halt) \in ToSet(b) => Halt \in NewConditions(active)
  <2>1. \A x, y : ConditionEvent(x) = ConditionEvent(y) => x = y
    BY DEF ConditionEvent
  <2>2. \A x : ConditionEvent(x)[1] = "condition"
    BY DEF ConditionEvent
  <2> HIDE DEF active
  <2> QED BY <1>1, <2>1, <2>2, ConditionsListed
<1>4. /\ Lists(c) /\ \A e \in ToSet(c) : e[1] = "ledger"
      /\ \A e \in ToSet(c) : seesPaper /\ e[2] \in (file.ledger + 1)..Len(journal)
      /\ seesPaper /\ file.initialized =>
            \A n \in (file.ledger + 1)..Len(journal) :
                ToSet(EntryEvents(n)) \subseteq ToSet(c)
  <2>1. Len(journal) \in 0..MaxEntries /\ file.ledger \in 0..MaxEntries
    BY AlertAssumption DEF AlertAssumption, AlertTypeOK, CursorOK
  <2> QED BY <2>1, LedgerListed, EmptyLists DEF IsLedger, Told
<1>5. Lists(d) /\ \A e \in ToSet(d) : e[1] = "proof"
  <2>1. telemetry.at \in 0..MaxChanges /\ telemetry.proof \in Proofs
    BY DEF AlertTypeOK
  <2>2. <<"proof", telemetry.at, telemetry.proof>> \in Events
    BY <2>1, EventShape
  <2> QED BY <2>2, EmptyLists, OneLists DEF ProofEvents
<1>6. ConditionEvent(Halt)[1] = "condition"
  BY DEF ConditionEvent
<1>7. NewEvents(seesTelemetry, seesPaper) = ((a \o b) \o c) \o d
  BY DEF NewEvents
<1> HIDE DEF a, b, c, d, active
<1> DEFINE ab == a \o b
           abc == ab \o c
           abcd == abc \o d
<1>8. Lists(ab) /\ ToSet(ab) = ToSet(a) \cup ToSet(b)
  <2>1. ToSet(a) \cap ToSet(b) = {} /\ NotBehind(ToSet(a), ToSet(b))
    BY <1>2, <1>3 DEF NotBehind, IsLedger
  <2> QED BY <1>2, <1>3, <2>1, JoinedLists
<1> HIDE DEF ab
<1>9. Lists(abc) /\ ToSet(abc) = ToSet(ab) \cup ToSet(c)
  <2>1. ToSet(ab) \cap ToSet(c) = {} /\ NotBehind(ToSet(ab), ToSet(c))
    BY <1>2, <1>3, <1>4, <1>8 DEF NotBehind, IsLedger
  <2> QED BY <1>4, <1>8, <2>1, JoinedLists
<1> HIDE DEF abc
<1>10. Lists(abcd) /\ ToSet(abcd) = ToSet(abc) \cup ToSet(d)
  <2>1. ToSet(abc) \cap ToSet(d) = {} /\ NotBehind(ToSet(abc), ToSet(d))
    BY <1>2, <1>3, <1>4, <1>5, <1>8, <1>9 DEF NotBehind, IsLedger
  <2> QED BY <1>5, <1>9, <2>1, JoinedLists
<1>11. NewEvents(seesTelemetry, seesPaper) = abcd
  BY <1>7 DEF abc, ab
<1> HIDE DEF abcd
<1>12. ToSet(abcd) = ToSet(a) \cup ToSet(b) \cup ToSet(c) \cup ToSet(d)
  BY <1>8, <1>9, <1>10
<1> QED BY <1>2, <1>3, <1>4, <1>5, <1>6, <1>10, <1>11, <1>12 DEF IsLedger, active

\* The file after one cycle: it still has what was pending, and what it has
\* more was read from sources that could be read.
LEMMA DetectedFile ==
    ASSUME AlertTypeOK, CursorOK, Lists(file.pending),
           NEW seesTelemetry \in BOOLEAN, NEW seesPaper \in BOOLEAN,
           NEW next, next = Detected(seesTelemetry, seesPaper)
    PROVE  /\ next.initialized = TRUE
           /\ next.ledger = IF seesPaper THEN Len(journal) ELSE file.ledger
           /\ next.active = ActiveConditions(seesTelemetry, seesPaper)
           /\ next \in [initialized : BOOLEAN, ledger : 0..MaxEntries,
                        proof : Proofs \cup {"NONE"}, active : SUBSET Conditions,
                        pending : Seq(Events)]
           /\ Lists(next.pending)
           /\ ToSet(file.pending) \subseteq ToSet(next.pending)
           /\ \A e \in ToSet(next.pending) \ ToSet(file.pending) : IsLedger(e) =>
                 seesPaper /\ e[2] \in (file.ledger + 1)..Len(journal)
           /\ seesPaper /\ file.initialized =>
                 \A n \in (file.ledger + 1)..Len(journal) :
                     ToSet(EntryEvents(n)) \subseteq ToSet(next.pending)
           /\ ConditionEvent(Halt) \in ToSet(next.pending) \ ToSet(file.pending) =>
                 Halt \in NewConditions(next.active)
<1> DEFINE new == NewEvents(seesTelemetry, seesPaper)
           old == file.pending
           more == Kept(new, ToSet(new) \ ToSet(old))
<1>1. /\ Lists(new)
      /\ \A e \in ToSet(new) : IsLedger(e) =>
            seesPaper /\ e[2] \in (file.ledger + 1)..Len(journal)
      /\ seesPaper /\ file.initialized =>
            \A n \in (file.ledger + 1)..Len(journal) :
                ToSet(EntryEvents(n)) \subseteq ToSet(new)
      /\ ConditionEvent(Halt) \in ToSet(new) =>
            Halt \in NewConditions(ActiveConditions(seesTelemetry, seesPaper))
  BY NewEventsList
<1>2. /\ next.initialized = TRUE
      /\ next.ledger = IF seesPaper THEN Len(journal) ELSE file.ledger
      /\ next.active = ActiveConditions(seesTelemetry, seesPaper)
      /\ next.pending = Queued(old, new)
      /\ next.proof = IF seesTelemetry THEN telemetry.proof ELSE file.proof
      /\ next = [initialized |-> next.initialized, ledger |-> next.ledger,
                 proof |-> next.proof, active |-> next.active, pending |-> next.pending]
  BY DEF Detected, NewEvents
<1>3. Queued(old, new) = old \o more
  BY DEF Queued
<1> HIDE DEF new
<1>4. Lists(more) /\ ToSet(more) = ToSet(new) \ ToSet(old)
  BY <1>1, KeptLists
<1> HIDE DEF more
<1>5. NotBehind(ToSet(old), ToSet(more))
  <2>1. \A e \in ToSet(old) : e \in Events /\ (IsLedger(e) => e[2] \in Nat)
    BY EventShape, MembersOf, AlertAssumption DEF Lists, AlertAssumption
  <2>2. file.ledger \in Nat /\ Len(journal) \in Nat
    BY AlertAssumption DEF AlertTypeOK, AlertAssumption
  <2>3. \A e \in ToSet(old) : IsLedger(e) => e[2] <= file.ledger
    BY DEF CursorOK
  <2>4. \A e \in ToSet(more) : IsLedger(e) => e[2] \in (file.ledger + 1)..Len(journal)
    BY <1>1, <1>4
  <2> QED BY <2>1, <2>2, <2>3, <2>4 DEF NotBehind
<1>6. /\ Lists(next.pending)
      /\ ToSet(next.pending) = ToSet(old) \cup ToSet(more)
  <2>1. Lists(old) /\ ToSet(old) \cap ToSet(more) = {}
    BY <1>4
  <2> HIDE DEF old
  <2>2. Lists(old \o more) /\ ToSet(old \o more) = ToSet(old) \cup ToSet(more)
    BY <1>4, <1>5, <2>1, JoinedLists
  <2> QED BY <1>2, <1>3, <2>2
<1>7. next \in [initialized : BOOLEAN, ledger : 0..MaxEntries,
                proof : Proofs \cup {"NONE"}, active : SUBSET Conditions,
                pending : Seq(Events)]
  <2>1. next.ledger \in 0..MaxEntries
    BY <1>2, AlertAssumption DEF AlertTypeOK, CursorOK, AlertAssumption
  <2>2. next.active \in SUBSET Conditions
    BY <1>2 DEF ActiveConditions, AlertTypeOK, Conditions, Critical
  <2>3. next.proof \in Proofs \cup {"NONE"}
    BY <1>2 DEF AlertTypeOK
  <2>4. next.pending \in Seq(Events)
    BY <1>6 DEF Lists
  <2> QED BY <1>2, <2>1, <2>2, <2>3, <2>4
<1> QED BY <1>1, <1>2, <1>4, <1>6, <1>7

Places(s, e) == {i \in DOMAIN s : s[i] = e}

\* One message more is one copy more of it and of no other.
LEMMA CopiesAppended ==
    ASSUME NEW E, NEW s \in Seq(E), NEW x \in E, NEW e
    PROVE  /\ Cardinality(Places(s, e)) \in Nat
           /\ e \notin ToSet(s) => Cardinality(Places(s, e)) = 0
           /\ Cardinality(Places(Append(s, x), e)) =
                 IF x = e THEN Cardinality(Places(s, e)) + 1
                 ELSE Cardinality(Places(s, e))
<1> DEFINE P == Places(s, e)
           Q == Places(Append(s, x), e)
<1>1. Len(s) \in Nat /\ DOMAIN s = 1..Len(s)
  OBVIOUS
<1>2. IsFiniteSet(P) /\ Cardinality(P) \in Nat
  <2>1. IsFiniteSet(1..Len(s)) /\ P \in SUBSET (1..Len(s))
    BY <1>1, FS_Interval DEF Places
  <2> QED BY <2>1, FS_Subset, FS_CardinalityType
<1>3. e \notin ToSet(s) => P = {}
  BY DEF ToSet, Places
<1>4. Q = IF x = e THEN P \cup {Len(s) + 1} ELSE P
  <2>1. /\ DOMAIN Append(s, x) = 1..(Len(s) + 1)
        /\ \A i \in 1..Len(s) : Append(s, x)[i] = s[i] /\ i \in 1..(Len(s) + 1)
        /\ Append(s, x)[Len(s) + 1] = x
        /\ \A i \in 1..(Len(s) + 1) : i \in 1..Len(s) \/ i = Len(s) + 1
        /\ Len(s) + 1 \in 1..(Len(s) + 1)
    BY <1>1
  <2> QED BY <1>1, <2>1 DEF Places
<1>5. Len(s) + 1 \notin P
  BY <1>1 DEF Places
<1> HIDE DEF P, Q
<1>6. Cardinality(P \cup {Len(s) + 1}) = Cardinality(P) + 1
  BY <1>2, <1>5, FS_AddElement
<1>7. P = {} => Cardinality(P) = 0
  BY FS_EmptySet
<1> QED BY <1>2, <1>3, <1>4, <1>6, <1>7 DEF P, Q

\* What the invariant says of the counters.
LEMMA AlertShape ==
    ASSUME AlertTypeOK, CursorOK
    PROVE  /\ Len(journal) \in 0..MaxEntries /\ faults \in Nat
           /\ file.ledger \in 0..Len(journal)
           /\ MaxEntries \in Nat
           /\ Len(sent) \in Nat /\ sent \in Seq(Events)
BY AlertAssumption DEF AlertTypeOK, CursorOK, AlertAssumption

\* The invariant holds before the first cycle.
LEMMA AlertStart == AlertInit => AlertInv
<1> SUFFICES ASSUME AlertInit PROVE AlertInv
  OBVIOUS
<1>1. /\ file = NoFile /\ file.pending = <<>> /\ file.ledger = 0
      /\ file.initialized = FALSE
      /\ queue = <<>> /\ pc = "idle" /\ sent = <<>> /\ baseline = 0
      /\ haltEnded = TRUE /\ changes = 0 /\ faults = 0
      /\ telemetry = [conditions |-> {}, proof |-> "INSUFFICIENT_EVIDENCE", at |-> 0]
  BY DEF AlertInit, NoFile
<1>2. journal \in Seq(Kinds) /\ Len(journal) \in {0, 1}
  <2>1. CASE journal = <<>>
    BY <2>1
  <2>2. ASSUME NEW kind \in Kinds, journal = <<kind>>
        PROVE  journal \in Seq(Kinds) /\ Len(journal) \in {0, 1}
    BY <2>2
  <2> QED BY <2>1, <2>2 DEF AlertInit
<1>3. AlertTypeOK
  <2>1. file \in [initialized : BOOLEAN, ledger : 0..MaxEntries, proof : Proofs \cup {"NONE"},
                  active : SUBSET Conditions, pending : Seq(Events)]
    BY <1>1, AlertAssumption DEF NoFile, AlertAssumption
  <2>2. IsInjective(file.pending)
    BY <1>1 DEF IsInjective
  <2>3. telemetry \in [conditions : SUBSET {Halt, Stale}, proof : Proofs, at : 0..MaxChanges]
    BY <1>1, AlertAssumption DEF Proofs, AlertAssumption
  <2> QED BY <1>1, <1>2, <2>1, <2>2, <2>3, AlertAssumption DEF AlertTypeOK, AlertAssumption
<1>4. Lists(file.pending) /\ ToSet(file.pending) = {} /\ ToSet(sent) = {}
  BY <1>1, EmptyLists
<1>5. NothingMissed /\ OrderedDelivery
  BY <1>1 DEF NothingMissed, OrderedDelivery
<1>6. CursorOK
  <2>1. Len(journal) <= MaxEntries /\ 0 <= Len(journal) /\ 0 \in 0..MaxChanges
    <3>1. MaxEntries \in Nat \ {0} /\ MaxChanges \in Nat
      BY AlertAssumption DEF AlertAssumption
    <3>2. CASE Len(journal) = 0
      BY <3>1, <3>2
    <3>3. CASE Len(journal) = 1
      BY <3>1, <3>3
    <3> QED BY <1>2, <3>2, <3>3
  <2> QED BY <1>1, <1>4, <2>1 DEF CursorOK
<1>7. QueueOrdered /\ HaltOK
  BY <1>1, <1>4 DEF QueueOrdered, HaltOK, NotBehind
<1>8. CopiesOK
  <2>1. \A e : {i \in DOMAIN sent : sent[i] = e} = {}
    BY <1>1
  <2>2. Cardinality({}) = 0
    BY FS_EmptySet
  <2>3. \A e : Copies(e) = 0
    BY <2>1, <2>2 DEF Copies
  <2> QED BY <1>1, <2>3 DEF CopiesOK
<1> QED BY <1>3, <1>5, <1>6, <1>7, <1>8 DEF AlertInv

\* A step that leaves the file, the messages and the cycle alone.
LEMMA OutsideJobKeeps ==
    ASSUME AlertInv, UNCHANGED <<file, queue, pc, sent, baseline, faults>>,
           journal' \in Seq(Kinds), Len(journal') <= MaxEntries,
           Len(journal) <= Len(journal'),
           \A n \in 1..Len(journal) : journal'[n] = journal[n],
           telemetry' \in [conditions : SUBSET {Halt, Stale}, proof : Proofs,
                           at : 0..MaxChanges],
           haltEnded' \in BOOLEAN, changes' \in 0..MaxChanges, HaltOK'
    PROVE  AlertInv'
<1>1. AlertTypeOK'
  BY DEF AlertTypeOK, AlertInv
<1>2. NothingMissed'
  <2> SUFFICES ASSUME NEW n \in (baseline + 1)..file.ledger
               PROVE  ToSet(EntryEvents(n)') \subseteq ToSet(sent) \cup ToSet(file.pending)
    BY DEF NothingMissed
  <2>1. n \in 1..Len(journal)
    BY AlertShape DEF AlertInv, AlertTypeOK
  <2>2. EntryEvents(n)' = EntryEvents(n)
    BY <2>1 DEF EntryEvents
  <2> QED BY <2>2 DEF AlertInv, NothingMissed
<1>3. OrderedDelivery' /\ QueueOrdered'
  BY DEF AlertInv, OrderedDelivery, QueueOrdered
<1>4. CursorOK'
  <2>1. file.ledger <= Len(journal')
    BY <1>1, AlertShape DEF AlertInv, AlertTypeOK
  <2> QED BY <2>1 DEF AlertInv, CursorOK
<1>5. CopiesOK'
  BY DEF AlertInv, CopiesOK, Copies, ToBeSent
<1> QED BY <1>1, <1>2, <1>3, <1>4, <1>5 DEF AlertInv

\* The world's steps keep the invariant.
LEMMA BookKeeps ==
    ASSUME AlertInv, NEW kind \in Kinds, Book(kind)
    PROVE  AlertInv'
<1>1. journal \in Seq(Kinds) /\ Len(journal) \in Nat
  BY DEF AlertInv, AlertTypeOK
<1>2. /\ journal' \in Seq(Kinds) /\ Len(journal') = Len(journal) + 1
      /\ \A n \in 1..Len(journal) : journal'[n] = journal[n]
      /\ Len(journal') <= MaxEntries
  BY <1>1, AlertAssumption DEF Book, AlertAssumption
<1>3. HaltOK'
  BY DEF Book, HaltOK, AlertInv
<1>4. /\ UNCHANGED <<file, queue, pc, sent, baseline, faults>>
      /\ telemetry' \in [conditions : SUBSET {Halt, Stale}, proof : Proofs,
                         at : 0..MaxChanges]
      /\ haltEnded' \in BOOLEAN /\ changes' \in 0..MaxChanges
  BY DEF Book, AlertInv, AlertTypeOK, CursorOK
<1> QED BY <1>1, <1>2, <1>3, <1>4, OutsideJobKeeps

LEMMA PublishKeeps ==
    ASSUME AlertInv, NEW snapshot \in Snapshots, Publish(snapshot[1], snapshot[2])
    PROVE  AlertInv'
<1>1. /\ journal \in Seq(Kinds) /\ Len(journal) \in Nat /\ Len(journal) <= MaxEntries
      /\ changes \in 0..MaxChanges /\ haltEnded \in BOOLEAN
  BY DEF AlertInv, AlertTypeOK, CursorOK
<1>2. /\ changes' = changes + 1 /\ changes < MaxChanges
      /\ telemetry' = [conditions |-> snapshot[1], proof |-> snapshot[2], at |-> changes']
      /\ haltEnded' = (haltEnded \/ Halt \notin snapshot[1])
      /\ UNCHANGED <<journal, file, queue, pc, sent, baseline, faults>>
  BY DEF Publish
<1>3. snapshot[1] \in SUBSET {Halt, Stale} /\ snapshot[2] \in Proofs
  BY AlertAssumption DEF AlertAssumption, Halt, Stale, Proofs
<1>4. changes' \in 0..MaxChanges
  BY <1>1, <1>2, AlertAssumption DEF AlertAssumption
<1>5. HaltOK'
  BY <1>2 DEF HaltOK, AlertInv
<1> QED BY <1>1, <1>2, <1>3, <1>4, <1>5, OutsideJobKeeps

LEMMA UnitsChangeKeeps ==
    ASSUME AlertInv, UnitsChange
    PROVE  AlertInv'
<1>1. /\ journal \in Seq(Kinds) /\ Len(journal) \in Nat /\ Len(journal) <= MaxEntries
      /\ changes \in 0..MaxChanges
  BY DEF AlertInv, AlertTypeOK, CursorOK
<1>2. changes' \in 0..MaxChanges
  BY <1>1, AlertAssumption DEF UnitsChange, AlertAssumption
<1>3. HaltOK'
  BY DEF UnitsChange, HaltOK, AlertInv
<1>4. /\ UNCHANGED <<journal, file, queue, pc, sent, baseline, faults>>
      /\ telemetry' \in [conditions : SUBSET {Halt, Stale}, proof : Proofs,
                         at : 0..MaxChanges]
      /\ haltEnded' \in BOOLEAN
  BY DEF UnitsChange, AlertInv, AlertTypeOK
<1> QED BY <1>1, <1>2, <1>3, <1>4, OutsideJobKeeps

\* What the type says of the queue while a cycle sends.
LEMMA SendingShape ==
    ASSUME AlertInv, pc # "idle"
    PROVE  /\ queue = file.pending /\ queue # <<>> /\ queue \in Seq(Events)
           /\ Head(queue) = queue[1] /\ Head(queue) \in Events
           /\ Head(queue) \in ToSet(queue)
           /\ Tail(queue) \in Seq(Events) /\ Len(queue) \in Nat \ {0}
           /\ Len(Tail(queue)) = Len(queue) - 1
           /\ \A i \in 1..Len(Tail(queue)) :
                 i + 1 \in 1..Len(queue) /\ Tail(queue)[i] = queue[i + 1]
<1>1. queue = file.pending /\ queue # <<>> /\ queue \in Seq(Events)
  BY DEF AlertInv, AlertTypeOK
<1>2. Len(queue) \in Nat \ {0} /\ Head(queue) = queue[1]
  BY <1>1
<1>3. Head(queue) \in Events /\ Head(queue) \in ToSet(queue)
  BY <1>1, <1>2, MembersOf
<1>4. /\ Tail(queue) \in Seq(Events) /\ Len(Tail(queue)) = Len(queue) - 1
      /\ \A i \in 1..Len(Tail(queue)) :
            i + 1 \in 1..Len(queue) /\ Tail(queue)[i] = queue[i + 1]
  BY <1>1, <1>2
<1> QED BY <1>1, <1>2, <1>3, <1>4

\* The first of the queue is not behind any other of it.
LEMMA HeadFirst ==
    ASSUME AlertInv, pc # "idle", IsLedger(Head(queue)),
           NEW e \in ToSet(file.pending), IsLedger(e)
    PROVE  Head(queue)[2] <= e[2]
<1>1. /\ queue = file.pending /\ queue \in Seq(Events) /\ Len(queue) \in Nat \ {0}
      /\ Head(queue) = queue[1] /\ Head(queue) \in Events
  BY SendingShape
<1>2. Lists(queue)
  BY <1>1 DEF AlertInv, QueueOrdered
<1>3. PICK i \in 1..Len(queue) : e = queue[i]
  BY <1>1, MembersOf
<1>4. CASE i = 1
  BY <1>1, <1>3, <1>4, EventShape, AlertAssumption DEF AlertAssumption
<1>5. CASE 1 < i
  BY <1>1, <1>2, <1>3, <1>5 DEF Lists
<1> QED BY <1>1, <1>3, <1>4, <1>5

\* The head of the queue is on the phone, the queue is as it was.
LEMMA ArrivedKeeps ==
    ASSUME AlertInv, pc = "send", sent' = Append(sent, Head(queue)),
           UNCHANGED <<world, file, baseline, haltEnded>>,
           \/ pc' = "acknowledge" /\ UNCHANGED <<queue, faults>>
           \/ pc' = "idle" /\ queue' = <<>> /\ faults' = faults + 1
    PROVE  AlertInv'
<1> DEFINE h == Head(queue)
<1>1. /\ queue = file.pending /\ queue # <<>> /\ queue \in Seq(Events)
      /\ h \in Events /\ h \in ToSet(file.pending)
  BY SendingShape
<1>2. sent \in Seq(Events) /\ Len(sent) \in Nat /\ faults \in Nat
  BY AlertShape DEF AlertInv
<1> HIDE DEF h
<1>3. /\ sent' \in Seq(Events) /\ Len(sent') = Len(sent) + 1
      /\ sent'[Len(sent) + 1] = h
      /\ \A i \in 1..Len(sent) : sent'[i] = sent[i] /\ sent[i] \in ToSet(sent)
      /\ ToSet(sent') = ToSet(sent) \cup {h}
  <2>1. sent' = Append(sent, h)
    BY DEF h
  <2>2. /\ sent' \in Seq(Events) /\ Len(sent') = Len(sent) + 1
        /\ sent'[Len(sent) + 1] = h
        /\ \A i \in 1..Len(sent) : sent'[i] = sent[i]
    BY <1>1, <1>2, <2>1, AppendProperties
  <2>3. /\ \A e : e \in ToSet(sent') <=> \E i \in 1..Len(sent') : e = sent'[i]
        /\ \A e : e \in ToSet(sent) <=> \E i \in 1..Len(sent) : e = sent[i]
    BY <1>2, <2>2, MembersOf
  <2>4. \A i \in 1..(Len(sent) + 1) : i \in 1..Len(sent) \/ i = Len(sent) + 1
    BY <1>2
  <2>5. /\ \A i \in 1..Len(sent) : i \in 1..(Len(sent) + 1)
        /\ Len(sent) + 1 \in 1..(Len(sent) + 1)
    BY <1>2
  <2>6. ASSUME NEW e PROVE e \in ToSet(sent') <=> e \in ToSet(sent) \/ e = h
    BY <2>2, <2>3, <2>4, <2>5
  <2>7. ToSet(sent') = ToSet(sent) \cup {h}
    BY <2>6
  <2>8. \A i \in 1..Len(sent) : sent[i] \in ToSet(sent)
    BY <2>3
  <2> QED BY <2>2, <2>7, <2>8
<1>4. UNCHANGED <<journal, telemetry, stopped, changes, file, baseline, haltEnded>>
  BY DEF world
<1>5. AlertTypeOK'
  BY <1>1, <1>3, <1>4 DEF AlertInv, AlertTypeOK
<1>6. NothingMissed'
  <2>1. \A n : EntryEvents(n)' = EntryEvents(n)
    BY <1>4 DEF EntryEvents
  <2> QED BY <1>3, <1>4, <2>1 DEF AlertInv, NothingMissed
<1>7. \A e \in ToSet(sent) : IsLedger(e) /\ IsLedger(h) => e[2] <= h[2]
  BY <1>1 DEF AlertInv, QueueOrdered, NotBehind
<1>8. OrderedDelivery'
  <2> SUFFICES ASSUME NEW i \in DOMAIN sent', NEW j \in DOMAIN sent', i < j,
                      IsLedger(sent'[i]), IsLedger(sent'[j])
               PROVE  sent'[i][2] <= sent'[j][2]
    BY DEF OrderedDelivery
  <2>1. /\ DOMAIN sent' = 1..(Len(sent) + 1) /\ DOMAIN sent = 1..Len(sent)
        /\ i \in 1..Len(sent) /\ (j \in 1..Len(sent) \/ j = Len(sent) + 1)
    BY <1>2, <1>3
  <2>2. CASE j = Len(sent) + 1
    BY <1>3, <1>7, <2>1, <2>2
  <2>3. CASE j \in 1..Len(sent)
    BY <1>3, <2>1, <2>3 DEF AlertInv, OrderedDelivery
  <2> QED BY <2>1, <2>2, <2>3
<1>9. CursorOK'
  <2>1. faults' \in Nat
    BY <1>2
  <2> QED BY <1>1, <1>3, <1>4, <2>1 DEF AlertInv, CursorOK
<1>10. QueueOrdered'
  <2>1. \A e \in ToSet(file.pending) : IsLedger(h) /\ IsLedger(e) => h[2] <= e[2]
    BY HeadFirst DEF h
  <2>2. NotBehind(ToSet(sent'), ToSet(file'.pending))
    BY <1>3, <1>4, <2>1 DEF AlertInv, QueueOrdered, NotBehind
  <2>3. pc' = "acknowledge" => Head(queue') \in ToSet(sent')
    BY <1>3 DEF h
  <2> QED BY <1>4, <2>2, <2>3 DEF AlertInv, QueueOrdered
<1>11. CopiesOK'
  <2> SUFFICES ASSUME NEW e \in Events, IsLedger(e)
               PROVE  Copies(e)' <= (IF ToBeSent(e)' THEN faults' ELSE 1 + faults')
    BY DEF CopiesOK
  <2>1. /\ Copies(e) = Cardinality(Places(sent, e))
        /\ Copies(e)' = Cardinality(Places(Append(sent, h), e))
    BY DEF Copies, Places, h
  <2>2. /\ Copies(e) \in Nat
        /\ Copies(e)' = IF h = e THEN Copies(e) + 1 ELSE Copies(e)
    BY <1>1, <1>2, <2>1, CopiesAppended
  <2>3. /\ Copies(e) <= (IF e \in ToSet(file.pending) THEN faults ELSE 1 + faults)
    BY DEF AlertInv, CopiesOK, ToBeSent
  <2>4. e = h /\ ToBeSent(e)' => faults' = faults + 1
    BY DEF ToBeSent, h
  <2>5. ToBeSent(e)' => e \in ToSet(file.pending)
    BY <1>4 DEF ToBeSent
  <2>6. faults' \in Nat /\ faults <= faults'
    BY <1>2
  <2>7. CASE e = h
    <3>1. Copies(e) <= faults /\ Copies(e)' = Copies(e) + 1
      BY <1>1, <2>2, <2>3, <2>7
    <3> QED BY <1>2, <2>2, <2>4, <2>6, <2>7, <3>1
  <2>8. CASE e # h
    <3>1. Copies(e)' = Copies(e)
      BY <2>2, <2>8
    <3> QED BY <1>2, <2>2, <2>3, <2>5, <2>6, <3>1
  <2> QED BY <2>7, <2>8
<1>12. HaltOK'
  BY <1>4 DEF AlertInv, HaltOK
<1> QED BY <1>5, <1>6, <1>8, <1>9, <1>10, <1>11, <1>12 DEF AlertInv

\* The cycle ends by a fault: the file and the phone are as they were.
LEMMA EndedKeeps ==
    ASSUME AlertInv, pc # "idle", pc' = "idle", queue' = <<>>, faults' = faults + 1,
           UNCHANGED <<world, file, sent, baseline, haltEnded>>
    PROVE  AlertInv'
<1>1. faults \in Nat /\ faults' \in Nat
  BY AlertShape DEF AlertInv
<1>2. UNCHANGED <<journal, telemetry, stopped, changes, file, sent, baseline, haltEnded>>
  BY DEF world
<1>3. AlertTypeOK'
  BY <1>2 DEF AlertInv, AlertTypeOK
<1>4. NothingMissed' /\ OrderedDelivery'
  <2>1. \A n : EntryEvents(n)' = EntryEvents(n)
    BY <1>2 DEF EntryEvents
  <2> QED BY <1>2, <2>1 DEF AlertInv, NothingMissed, OrderedDelivery
<1>5. CursorOK' /\ QueueOrdered' /\ HaltOK'
  BY <1>1, <1>2 DEF AlertInv, CursorOK, QueueOrdered, HaltOK
<1>6. CopiesOK'
  <2> SUFFICES ASSUME NEW e \in Events, IsLedger(e)
               PROVE  Copies(e)' <= (IF ToBeSent(e)' THEN faults' ELSE 1 + faults')
    BY DEF CopiesOK
  <2>1. Copies(e)' = Copies(e)
    BY <1>2 DEF Copies
  <2>2. Copies(e) \in Nat
    <3>1. sent \in Seq(Events)
      BY AlertShape DEF AlertInv
    <3>2. Copies(e) = Cardinality(Places(sent, e))
      BY DEF Copies, Places
    <3> QED BY <3>1, <3>2, CopiesAppended
  <2>3. Copies(e) <= (IF ToBeSent(e) THEN faults ELSE 1 + faults)
    BY DEF AlertInv, CopiesOK
  <2> QED BY <1>1, <2>1, <2>2, <2>3
<1> QED BY <1>3, <1>4, <1>5, <1>6 DEF AlertInv

\* So the steps of the cycle that send, and its end by a kill, keep the
\* invariant.
LEMMA SendKeeps == ASSUME AlertInv, Send PROVE AlertInv'
BY ArrivedKeeps DEF Send

LEMMA SendFailsKeeps ==
    ASSUME AlertInv, NEW arrived \in BOOLEAN, SendFails(arrived)
    PROVE  AlertInv'
<1>1. CASE arrived
  BY <1>1, ArrivedKeeps DEF SendFails, Fault
<1>2. CASE ~arrived
  BY <1>2, EndedKeeps DEF SendFails, Fault
<1> QED BY <1>1, <1>2

LEMMA KillKeeps == ASSUME AlertInv, Kill PROVE AlertInv'
BY EndedKeeps DEF Kill, Fault

\* The head leaves the queue of the file, which it does once it was sent.
LEMMA AcknowledgedKeeps ==
    ASSUME AlertInv, pc = "acknowledge", file' = [file EXCEPT !.pending = Tail(queue)],
           UNCHANGED <<world, sent, baseline, haltEnded>>,
           faults' \in Nat, faults <= faults',
           \/ queue' = <<>> /\ pc' = "idle"
           \/ queue' = Tail(queue) /\ pc' = "send" /\ Tail(queue) # <<>>
    PROVE  AlertInv'
<1> DEFINE h == Head(queue)
           t == Tail(queue)
<1>1. /\ queue = file.pending /\ queue \in Seq(Events)
      /\ h = queue[1] /\ h \in Events
      /\ t \in Seq(Events) /\ Len(queue) \in Nat \ {0} /\ Len(t) = Len(queue) - 1
      /\ \A i \in 1..Len(t) : i + 1 \in 1..Len(queue) /\ t[i] = queue[i + 1]
  BY SendingShape
<1>2. Lists(queue) /\ h \in ToSet(sent)
  BY <1>1 DEF AlertInv, QueueOrdered
<1> HIDE DEF h, t
<1>3. /\ \A e : e \in ToSet(queue) <=> \E i \in 1..Len(queue) : e = queue[i]
      /\ \A e : e \in ToSet(t) <=> \E i \in 1..Len(t) : e = t[i]
  <2>1. queue \in Seq(Events) /\ t \in Seq(Events)
    BY <1>1
  <2>2. \A e : e \in ToSet(queue) <=> \E i \in 1..Len(queue) : e = queue[i]
    BY ONLY <2>1, MembersOf, Zenon
  <2>3. \A e : e \in ToSet(t) <=> \E i \in 1..Len(t) : e = t[i]
    BY ONLY <2>1, MembersOf, Zenon
  <2> QED BY <2>2, <2>3
<1>4. h \notin ToSet(t)
  <2> SUFFICES ASSUME NEW i \in 1..Len(t), h = t[i] PROVE FALSE
    BY <1>3
  <2>1. queue[1] = queue[i + 1]
    BY <1>1
  <2>2. 1 \in 1..Len(queue) /\ i + 1 \in 1..Len(queue)
    BY <1>1
  <2>3. 1 = i + 1
    BY <1>2, <2>1, <2>2 DEF Lists
  <2> QED BY <2>3
<1>5. ToSet(queue) = ToSet(t) \cup {h}
  <2>1. ASSUME NEW e \in ToSet(queue) PROVE e \in ToSet(t) \cup {h}
    <3>1. PICK i \in 1..Len(queue) : e = queue[i]
      BY <1>3
    <3>2. CASE i = 1
      BY <1>1, <3>1, <3>2
    <3>3. CASE i # 1
      <4>1. i - 1 \in 1..Len(t) /\ (i - 1) + 1 = i
        BY <1>1, <3>3
      <4>2. e = t[i - 1]
        BY <1>1, <3>1, <4>1
      <4> QED BY <1>3, <4>1, <4>2
    <3> QED BY <3>2, <3>3
  <2>2. ASSUME NEW e \in ToSet(t) PROVE e \in ToSet(queue)
    <3>1. PICK i \in 1..Len(t) : e = t[i]
      BY <1>3
    <3> QED BY <1>1, <1>3, <3>1
  <2>3. h \in ToSet(queue)
    BY <1>1, <1>3
  <2> QED BY <2>1, <2>2, <2>3
<1>6. /\ UNCHANGED <<journal, telemetry, stopped, changes, sent, baseline, haltEnded>>
      /\ file.initialized \in BOOLEAN
      /\ file'.pending = t /\ file'.ledger = file.ledger
      /\ file'.initialized = file.initialized /\ file'.active = file.active
      /\ file' \in [initialized : BOOLEAN, ledger : 0..MaxEntries,
                    proof : Proofs \cup {"NONE"}, active : SUBSET Conditions,
                    pending : Seq(Events)]
  BY <1>1 DEF world, AlertInv, AlertTypeOK, t
<1>7. Lists(t)
  <2>1. ASSUME NEW i \in 1..Len(t), NEW j \in 1..Len(t)
        PROVE  /\ t[i] = t[j] => i = j
               /\ i < j /\ IsLedger(t[i]) /\ IsLedger(t[j]) => t[i][2] <= t[j][2]
    <3> DEFINE k == i + 1
               l == j + 1
    <3>1. /\ k \in 1..Len(queue) /\ l \in 1..Len(queue)
          /\ t[i] = queue[k] /\ t[j] = queue[l]
      BY <1>1
    <3>2. (k = l => i = j) /\ (i < j => k < l)
      OBVIOUS
    <3> HIDE DEF k, l
    <3> QED BY <1>2, <3>1, <3>2 DEF Lists
  <2> QED BY <1>1, <2>1 DEF Lists
<1>8. AlertTypeOK'
  <2>1. IsInjective(t)
    <3>1. DOMAIN t = 1..Len(t)
      BY <1>1
    <3> QED BY <1>7, <3>1 DEF Lists, IsInjective
  <2>2. queue' \in {<<>>, file'.pending} /\ (queue' = <<>>) = (pc' = "idle")
        /\ pc' \in {"idle", "send", "acknowledge"}
    BY <1>6 DEF t
  <2> QED BY <1>6, <2>1, <2>2 DEF AlertInv, AlertTypeOK
<1>9. NothingMissed'
  <2>1. \A n : EntryEvents(n)' = EntryEvents(n)
    BY <1>6 DEF EntryEvents
  <2>2. ToSet(sent) \cup ToSet(file.pending) = ToSet(sent) \cup ToSet(t)
    BY <1>1, <1>2, <1>5
  <2> QED BY <1>6, <2>1, <2>2 DEF AlertInv, NothingMissed
<1>10. OrderedDelivery'
  BY <1>6 DEF AlertInv, OrderedDelivery
<1>11. CursorOK'
  <2>1. file.initialized
    <3>1. NoFile.pending = <<>> /\ queue # <<>>
      BY SendingShape DEF NoFile
    <3> QED BY <1>1, <3>1 DEF AlertInv, CursorOK
  <2> QED BY <1>1, <1>5, <1>6, <2>1 DEF AlertInv, CursorOK
<1>12. QueueOrdered'
  <2>1. NotBehind(ToSet(sent), ToSet(t))
    BY <1>1, <1>5 DEF AlertInv, QueueOrdered, NotBehind
  <2> QED BY <1>6, <1>7, <2>1 DEF QueueOrdered
<1>13. CopiesOK'
  <2> SUFFICES ASSUME NEW e \in Events, IsLedger(e)
               PROVE  Copies(e)' <= (IF ToBeSent(e)' THEN faults' ELSE 1 + faults')
    BY DEF CopiesOK
  <2>1. Copies(e)' = Copies(e)
    BY <1>6 DEF Copies
  <2>2. Copies(e) \in Nat /\ faults \in Nat
    <3>1. sent \in Seq(Events) /\ faults \in Nat
      BY AlertShape DEF AlertInv
    <3>2. Copies(e) = Cardinality(Places(sent, e))
      BY DEF Copies, Places
    <3> QED BY <3>1, <3>2, CopiesAppended
  <2>3. Copies(e) <= (IF ToBeSent(e) THEN faults ELSE 1 + faults)
    BY DEF AlertInv, CopiesOK
  <2>4. ToBeSent(e)' => ToBeSent(e)
    <3>1. ToBeSent(e)' => e \in ToSet(t)
      BY <1>6 DEF ToBeSent
    <3> QED BY <1>1, <1>4, <1>5, <3>1 DEF ToBeSent, h
  <2> QED BY <2>1, <2>2, <2>3, <2>4
<1>14. HaltOK'
  BY <1>6 DEF AlertInv, HaltOK
<1> QED BY <1>8, <1>9, <1>10, <1>11, <1>12, <1>13, <1>14 DEF AlertInv

\* So an acknowledgement keeps it, whether its write is done, reported or not.
LEMMA AcknowledgeKeeps ==
    ASSUME AlertInv, NEW replaced \in BOOLEAN, NEW reported \in BOOLEAN,
           Acknowledge(replaced, reported)
    PROVE  AlertInv'
<1>1. faults \in Nat
  BY AlertShape DEF AlertInv
<1>2. /\ pc = "acknowledge" /\ (reported => replaced)
      /\ faults' = faults + (IF reported THEN 0 ELSE 1)
      /\ queue' = IF reported THEN Tail(queue) ELSE <<>>
      /\ file' = IF replaced THEN [file EXCEPT !.pending = Tail(queue)] ELSE file
      /\ pc' = IF reported /\ Tail(queue) # <<>> THEN "send" ELSE "idle"
      /\ UNCHANGED <<world, sent, baseline, haltEnded>>
  BY DEF Acknowledge, Fault, Unread
<1>3. CASE replaced
  <2>1. /\ faults' \in Nat /\ faults <= faults'
        /\ file' = [file EXCEPT !.pending = Tail(queue)]
    BY <1>1, <1>2, <1>3
  <2>2. CASE reported /\ Tail(queue) # <<>>
    BY <1>2, <2>1, <2>2, AcknowledgedKeeps
  <2>3. CASE ~(reported /\ Tail(queue) # <<>>)
    <3>1. queue' = <<>> /\ pc' = "idle"
      BY <1>2, <2>3
    <3> QED BY <1>2, <2>1, <3>1, AcknowledgedKeeps
  <2> QED BY <2>2, <2>3
<1>4. CASE ~replaced
  <2>1. faults' = faults + 1 /\ queue' = <<>> /\ pc' = "idle" /\ UNCHANGED file
    BY <1>1, <1>2, <1>4
  <2> QED BY <1>2, <2>1, EndedKeeps
<1> QED BY <1>3, <1>4

\* A cycle replaced the file by what it detected.
LEMMA ReplacedKeeps ==
    ASSUME AlertInv, pc = "idle",
           NEW seesTelemetry \in BOOLEAN, NEW seesPaper \in BOOLEAN,
           file' = Detected(seesTelemetry, seesPaper),
           faults' \in Nat, faults <= faults',
           \/ queue' = <<>> /\ pc' = "idle"
           \/ queue' = file'.pending /\ pc' = "send" /\ file'.pending # <<>>,
           baseline' = (IF file.initialized THEN baseline ELSE Len(journal)),
           haltEnded' = (IF ConditionEvent(Halt) \in ToSet(file'.pending) \ ToSet(file.pending)
                         THEN FALSE ELSE haltEnded),
           UNCHANGED <<world, sent>>
    PROVE  AlertInv'
<1> DEFINE next == file'
<1>1. AlertTypeOK /\ CursorOK /\ Lists(file.pending)
  BY DEF AlertInv, QueueOrdered
<1>2. /\ next.initialized = TRUE
      /\ next.ledger = IF seesPaper THEN Len(journal) ELSE file.ledger
      /\ next.active = ActiveConditions(seesTelemetry, seesPaper)
      /\ next \in [initialized : BOOLEAN, ledger : 0..MaxEntries,
                   proof : Proofs \cup {"NONE"}, active : SUBSET Conditions,
                   pending : Seq(Events)]
      /\ Lists(next.pending)
      /\ ToSet(file.pending) \subseteq ToSet(next.pending)
      /\ \A e \in ToSet(next.pending) \ ToSet(file.pending) : IsLedger(e) =>
            seesPaper /\ e[2] \in (file.ledger + 1)..Len(journal)
      /\ seesPaper /\ file.initialized =>
            \A n \in (file.ledger + 1)..Len(journal) :
                ToSet(EntryEvents(n)) \subseteq ToSet(next.pending)
      /\ ConditionEvent(Halt) \in ToSet(next.pending) \ ToSet(file.pending) =>
            Halt \in NewConditions(next.active)
  BY <1>1, DetectedFile
<1>3. /\ UNCHANGED <<journal, telemetry, stopped, changes, sent>>
      /\ Len(journal) \in 0..MaxEntries /\ MaxEntries \in Nat
      /\ file.ledger \in 0..Len(journal) /\ baseline \in 0..MaxEntries
  BY <1>1, AlertShape DEF world, AlertTypeOK
<1> HIDE DEF next
<1>4. file.ledger <= next.ledger /\ next.ledger <= Len(journal)
  BY <1>2, <1>3
<1>5. AlertTypeOK'
  <2>1. IsInjective(next.pending)
    <3>1. DOMAIN next.pending = 1..Len(next.pending)
      BY <1>2
    <3> QED BY <1>2, <3>1 DEF Lists, IsInjective
  <2>2. /\ queue' \in {<<>>, next.pending} /\ (queue' = <<>>) = (pc' = "idle")
        /\ pc' \in {"idle", "send", "acknowledge"}
    BY DEF next
  <2>3. baseline' \in 0..MaxEntries /\ haltEnded' \in BOOLEAN
    BY <1>1, <1>3 DEF AlertTypeOK
  <2> QED BY <1>1, <1>2, <1>3, <2>1, <2>2, <2>3 DEF AlertTypeOK, next
<1>6. NothingMissed'
  <2> SUFFICES ASSUME NEW n \in (baseline' + 1)..next.ledger
               PROVE  ToSet(EntryEvents(n)) \subseteq ToSet(sent) \cup ToSet(next.pending)
    <3>1. \A n : EntryEvents(n)' = EntryEvents(n)
      BY <1>3 DEF EntryEvents
    <3> QED BY <1>3, <3>1 DEF NothingMissed, next
  <2>1. CASE ~file.initialized
    BY <1>2, <1>3, <1>4, <2>1
  <2>2. CASE file.initialized /\ n <= file.ledger
    <3>1. n \in (baseline + 1)..file.ledger
      BY <1>2, <1>3, <2>2
    <3> QED BY <1>2, <3>1 DEF AlertInv, NothingMissed
  <2>3. CASE file.initialized /\ ~(n <= file.ledger)
    <3>1. seesPaper /\ n \in (file.ledger + 1)..Len(journal)
      BY <1>2, <1>3, <2>3
    <3> QED BY <1>2, <2>3, <3>1
  <2> QED BY <2>1, <2>2, <2>3
<1>7. OrderedDelivery'
  BY <1>3 DEF AlertInv, OrderedDelivery
<1>8. ASSUME NEW e \in ToSet(next.pending) \ ToSet(file.pending), IsLedger(e)
      PROVE  /\ e[2] \in Nat /\ file.ledger < e[2] /\ e[2] <= next.ledger
             /\ e \notin ToSet(sent)
  <2>1. seesPaper /\ e[2] \in (file.ledger + 1)..Len(journal)
    BY <1>2, <1>8
  <2>2. e[2] \in Nat /\ file.ledger < e[2] /\ e[2] <= next.ledger
    BY <1>2, <1>3, <2>1
  <2>3. e \in ToSet(sent) => e[2] <= file.ledger
    BY <1>1, <1>8 DEF CursorOK
  <2> QED BY <1>3, <2>2, <2>3
<1>9. CursorOK'
  <2>1. \A e \in ToSet(file.pending) \cup ToSet(sent) : IsLedger(e) => e[2] <= next.ledger
    <3> SUFFICES ASSUME NEW e \in ToSet(file.pending) \cup ToSet(sent), IsLedger(e)
                 PROVE  e[2] <= next.ledger
      OBVIOUS
    <3>1. e \in Events
      BY <1>1, MembersOf DEF AlertTypeOK, Lists
    <3>2. e[2] \in Nat
      BY <1>3, <3>1, EventShape
    <3>3. e[2] <= file.ledger
      BY <1>1 DEF CursorOK
    <3>4. next.ledger \in Nat /\ file.ledger \in Nat
      BY <1>2, <1>3
    <3> QED BY <1>4, <3>2, <3>3, <3>4
  <2>2. \A e \in ToSet(next.pending) \cup ToSet(sent) : IsLedger(e) => e[2] <= next.ledger
    BY <1>8, <2>1
  <2> QED BY <1>1, <1>2, <1>3, <1>4, <2>2 DEF CursorOK, next
<1>10. QueueOrdered'
  <2>1. NotBehind(ToSet(sent), ToSet(next.pending))
    <3> SUFFICES ASSUME NEW e \in ToSet(sent), NEW d \in ToSet(next.pending),
                        IsLedger(e), IsLedger(d)
                 PROVE  e[2] <= d[2]
      BY DEF NotBehind
    <3>1. CASE d \in ToSet(file.pending)
      BY <3>1 DEF AlertInv, QueueOrdered, NotBehind
    <3>2. CASE d \notin ToSet(file.pending)
      <4>1. d[2] \in Nat /\ file.ledger < d[2]
        BY <1>8, <3>2
      <4>2. e[2] <= file.ledger
        BY <1>1 DEF CursorOK
      <4>3. e \in Events
        BY <1>1, MembersOf DEF AlertTypeOK
      <4>4. e[2] \in Nat
        BY <1>3, <4>3, EventShape
      <4> QED BY <1>3, <4>1, <4>2, <4>4
    <3> QED BY <3>1, <3>2
  <2> QED BY <1>2, <1>3, <2>1 DEF QueueOrdered, next
<1>11. CopiesOK'
  <2> SUFFICES ASSUME NEW e \in Events, IsLedger(e)
               PROVE  Copies(e)' <= (IF ToBeSent(e)' THEN faults' ELSE 1 + faults')
    BY DEF CopiesOK
  <2>1. Copies(e)' = Copies(e)
    BY <1>3 DEF Copies
  <2>2. /\ Copies(e) \in Nat /\ faults \in Nat
        /\ e \notin ToSet(sent) => Copies(e) = 0
    <3>1. sent \in Seq(Events) /\ faults \in Nat
      BY <1>1, AlertShape
    <3>2. Copies(e) = Cardinality(Places(sent, e))
      BY DEF Copies, Places
    <3> QED BY <3>1, <3>2, CopiesAppended
  <2>3. Copies(e) <= (IF e \in ToSet(file.pending) THEN faults ELSE 1 + faults)
    BY DEF AlertInv, CopiesOK, ToBeSent
  <2>4. ToBeSent(e)' => e \in ToSet(next.pending)
    BY DEF ToBeSent, next
  <2>5. ToBeSent(e)' /\ e \notin ToSet(file.pending) => Copies(e) = 0
    BY <1>8, <2>2, <2>4
  <2> QED BY <2>1, <2>2, <2>3, <2>5
<1>12. HaltOK'
  <2>1. seesTelemetry => telemetry.conditions \subseteq next.active
    BY <1>2 DEF ActiveConditions
  <2>2. ~seesTelemetry => Unavailable \in next.active
    BY <1>2 DEF ActiveConditions, Unavailable
  <2>3. Halt \in next.active => Halt \in telemetry.conditions
    BY <1>2 DEF ActiveConditions, Halt
  <2>4. CASE ConditionEvent(Halt) \in ToSet(next.pending) \ ToSet(file.pending)
    <3>1. Halt \in next.active
      BY <1>2, <2>4 DEF NewConditions
    <3> QED BY <1>2, <1>3, <2>3, <3>1 DEF HaltOK, next
  <2>5. CASE ConditionEvent(Halt) \notin ToSet(next.pending) \ ToSet(file.pending)
    <3>1. haltEnded' = haltEnded
      BY <2>5 DEF next
    <3>2. ~haltEnded => Halt \in telemetry.conditions
      BY DEF AlertInv, HaltOK
    <3>3. ~haltEnded => next.active \cap {Halt, Unavailable} # {}
      BY <2>1, <2>2, <3>2
    <3>4. haltEnded \in BOOLEAN /\ telemetry' = telemetry
      BY <1>1, <1>3 DEF AlertTypeOK
    <3>5. CASE haltEnded = TRUE
      BY <3>1, <3>5 DEF HaltOK
    <3>6. CASE haltEnded = FALSE
      <4>1. Halt \in telemetry'.conditions
        BY <3>2, <3>4, <3>6
      <4>2. /\ file'.initialized
            /\ file'.active \cap {Halt, Unavailable} # {}
        BY <1>2, <3>3, <3>6 DEF next
      <4> QED BY <4>1, <4>2 DEF HaltOK
    <3> QED BY <3>4, <3>5, <3>6
  <2> QED BY <2>4, <2>5
<1> QED BY <1>5, <1>6, <1>7, <1>9, <1>10, <1>11, <1>12 DEF AlertInv

\* A cycle that wrote nothing.
LEMMA UnreplacedKeeps ==
    ASSUME AlertInv, pc = "idle", faults' \in Nat, faults <= faults',
           queue' = <<>>, pc' = "idle", UNCHANGED <<world, file, sent, baseline, haltEnded>>
    PROVE  AlertInv'
<1>1. UNCHANGED <<journal, telemetry, stopped, changes, file, sent, baseline, haltEnded>>
  BY DEF world
<1>2. AlertTypeOK'
  BY <1>1 DEF AlertInv, AlertTypeOK
<1>3. NothingMissed' /\ OrderedDelivery'
  <2>1. \A n : EntryEvents(n)' = EntryEvents(n)
    BY <1>1 DEF EntryEvents
  <2> QED BY <1>1, <2>1 DEF AlertInv, NothingMissed, OrderedDelivery
<1>4. CursorOK' /\ QueueOrdered' /\ HaltOK'
  BY <1>1 DEF AlertInv, CursorOK, QueueOrdered, HaltOK
<1>5. CopiesOK'
  <2> SUFFICES ASSUME NEW e \in Events, IsLedger(e)
               PROVE  Copies(e)' <= (IF ToBeSent(e)' THEN faults' ELSE 1 + faults')
    BY DEF CopiesOK
  <2>1. Copies(e)' = Copies(e) /\ (ToBeSent(e)' => ToBeSent(e))
    BY <1>1 DEF Copies, ToBeSent
  <2>2. Copies(e) \in Nat /\ faults \in Nat
    <3>1. sent \in Seq(Events) /\ faults \in Nat
      BY AlertShape DEF AlertInv
    <3>2. Copies(e) = Cardinality(Places(sent, e))
      BY DEF Copies, Places
    <3> QED BY <3>1, <3>2, CopiesAppended
  <2>3. Copies(e) <= (IF ToBeSent(e) THEN faults ELSE 1 + faults)
    BY DEF AlertInv, CopiesOK
  <2> QED BY <2>1, <2>2, <2>3
<1> QED BY <1>2, <1>3, <1>4, <1>5 DEF AlertInv

\* So a cycle's reads keep it.
LEMMA DetectKeeps ==
    ASSUME AlertInv, NEW seesTelemetry \in BOOLEAN, NEW seesPaper \in BOOLEAN,
           NEW replaced \in BOOLEAN, NEW reported \in BOOLEAN,
           Detect(seesTelemetry, seesPaper, replaced, reported)
    PROVE  AlertInv'
<1>1. faults \in Nat
  BY AlertShape DEF AlertInv
<1>2. faults' \in Nat /\ faults <= faults'
  BY <1>1 DEF Detect, Fault, Unread
<1>3. /\ pc = "idle" /\ (reported => replaced)
      /\ file' = IF replaced THEN Detected(seesTelemetry, seesPaper) ELSE file
      /\ queue' = IF reported THEN file'.pending ELSE <<>>
      /\ pc' = IF reported /\ file'.pending # <<>> THEN "send" ELSE "idle"
      /\ baseline' = IF file.initialized \/ ~replaced THEN baseline ELSE Len(journal)
      /\ haltEnded' = IF ConditionEvent(Halt) \in ToSet(file'.pending) \ ToSet(file.pending)
                      THEN FALSE ELSE haltEnded
      /\ UNCHANGED <<world, sent>>
  BY DEF Detect
<1>4. CASE replaced
  <2>1. /\ file' = Detected(seesTelemetry, seesPaper)
        /\ baseline' = IF file.initialized THEN baseline ELSE Len(journal)
    BY <1>3, <1>4
  <2>2. \/ queue' = <<>> /\ pc' = "idle"
        \/ queue' = file'.pending /\ pc' = "send" /\ file'.pending # <<>>
    BY <1>3
  <2> QED BY <1>2, <1>3, <2>1, <2>2, ReplacedKeeps
<1>5. CASE ~replaced
  <2>1. UNCHANGED <<world, file, sent, baseline, haltEnded>> /\ queue' = <<>> /\ pc' = "idle"
    BY <1>3, <1>5
  <2> QED BY <1>2, <1>3, <2>1, UnreplacedKeeps
<1> QED BY <1>4, <1>5

\* Every step keeps the invariant.
LEMMA AlertStep == AlertInv /\ [AlertNext]_alertVars => AlertInv'
<1> SUFFICES ASSUME AlertInv, [AlertNext]_alertVars PROVE AlertInv'
  OBVIOUS
<1>1. ASSUME NEW kind \in Kinds, Book(kind) PROVE AlertInv'
  BY <1>1, BookKeeps
<1>2. ASSUME NEW snapshot \in Snapshots, Publish(snapshot[1], snapshot[2])
      PROVE  AlertInv'
  BY <1>2, PublishKeeps
<1>3. CASE UnitsChange
  BY <1>3, UnitsChangeKeeps
<1>4. CASE Reads
  BY <1>4, DetectKeeps DEF Reads
<1>5. CASE Send
  BY <1>5, SendKeeps
<1>6. CASE Acknowledges
  BY <1>6, AcknowledgeKeeps DEF Acknowledges
<1>7. ASSUME NEW arrived \in BOOLEAN, SendFails(arrived) PROVE AlertInv'
  BY <1>7, SendFailsKeeps
<1>8. CASE Kill
  BY <1>8, KillKeeps
<1>9. CASE UNCHANGED alertVars
  <2>1. UNCHANGED <<journal, telemetry, stopped, file, queue, pc, sent, baseline,
                    haltEnded, changes, faults>>
    BY <1>9 DEF alertVars
  <2>2. \A n : EntryEvents(n)' = EntryEvents(n)
    BY <2>1 DEF EntryEvents
  <2>3. \A e : Copies(e)' = Copies(e) /\ ToBeSent(e)' = ToBeSent(e)
    BY <2>1 DEF Copies, ToBeSent
  <2> QED BY <2>1, <2>2, <2>3
      DEF AlertInv, AlertTypeOK, NothingMissed, OrderedDelivery, CursorOK,
          QueueOrdered, CopiesOK, HaltOK
<1> QED BY <1>1, <1>2, <1>3, <1>4, <1>5, <1>6, <1>7, <1>8, <1>9 DEF AlertNext, Job

\* The invariant holds in every reachable state.
LEMMA AlertInvariance == AlertSpec => []AlertInv
<1>1. AlertInit => AlertInv
  BY AlertStart
<1>2. AlertInv /\ [AlertNext]_alertVars => AlertInv'
  BY AlertStep
<1> QED BY <1>1, <1>2, PTL DEF AlertSpec

(* Whatever reads, writes and sends fail and wherever the job is killed:   *)
(* no journal event the cursor has passed is missed, none overtakes        *)
(* another, and each is on the phone at most once more than there were     *)
(* faults (alerts/runtime.py 43-84).                                       *)
THEOREM LedgerIsDelivered == AlertSpec => []LedgerDelivered
<1>1. AlertInv => LedgerDelivered
  <2> SUFFICES ASSUME AlertInv PROVE RepeatsAreFaults
    BY DEF LedgerDelivered, AlertInv
  <2>1. ToSet(sent) \subseteq Events /\ faults \in Nat
    BY AlertShape, MembersOf DEF AlertInv
  <2>2. sent \in Seq(Events)
    BY AlertShape DEF AlertInv
  <2> SUFFICES ASSUME NEW e \in ToSet(sent), IsLedger(e)
               PROVE  Copies(e) <= 1 + faults
    BY DEF RepeatsAreFaults
  <2>3. Copies(e) \in Nat
    <3>1. Copies(e) = Cardinality(Places(sent, e))
      BY DEF Copies, Places
    <3> QED BY <2>1, <2>2, <3>1, CopiesAppended
  <2>4. Copies(e) <= (IF ToBeSent(e) THEN faults ELSE 1 + faults)
    BY <2>1 DEF AlertInv, CopiesOK
  <2> QED BY <2>1, <2>3, <2>4
<1> QED BY <1>1, AlertInvariance, PTL

(* A halt is announced once while it lasts, unless the cycle before could  *)
(* not read the telemetry: a second alert of a halt means that it was      *)
(* lifted in between (alerts/detector.py).                                 *)
THEOREM HaltAnnouncedOnce == AlertSpec => AnnouncedOncePerHalt
<1>1. AlertInv /\ [AlertNext]_alertVars =>
         [QueuesHalt => haltEnded \/ "TELEMETRY_SOURCE_UNAVAILABLE" \in file.active]_alertVars
  <2> SUFFICES ASSUME AlertInv, AlertNext, QueuesHalt, ~haltEnded
               PROVE  Unavailable \in file.active
    BY DEF Unavailable
  <2>1. /\ AlertTypeOK /\ CursorOK /\ Lists(file.pending)
        /\ file.initialized /\ file.active \cap {Halt, Unavailable} # {}
    BY DEF AlertInv, QueueOrdered, HaltOK
  <2>2. CASE Reads
    <3>1. PICK seesTelemetry, seesPaper \in BOOLEAN :
             file' \in {file, Detected(seesTelemetry, seesPaper)}
      BY <2>2 DEF Reads, Detect
    <3>2. file' = Detected(seesTelemetry, seesPaper)
      BY <3>1 DEF QueuesHalt
    <3>3. Halt \in NewConditions(file'.active)
      BY <2>1, <3>2, DetectedFile DEF QueuesHalt
    <3>4. Halt \notin file.active
      BY <2>1, <3>3 DEF NewConditions
    <3> QED BY <2>1, <3>4
  <2>3. CASE Acknowledges
    <3>1. PICK replaced \in BOOLEAN :
             /\ file' = IF replaced THEN [file EXCEPT !.pending = Tail(queue)] ELSE file
             /\ pc = "acknowledge"
      BY <2>3 DEF Acknowledges, Acknowledge
    <3>2. /\ queue = file.pending /\ queue \in Seq(Events) /\ Tail(queue) \in Seq(Events)
          /\ \A i \in 1..Len(Tail(queue)) :
                i + 1 \in 1..Len(queue) /\ Tail(queue)[i] = queue[i + 1]
      BY <3>1, SendingShape
    <3>3. ToSet(Tail(queue)) \subseteq ToSet(queue)
      <4> DEFINE t == Tail(queue)
      <4>1. t \in Seq(Events) /\ queue \in Seq(Events)
        BY <3>2
      <4> HIDE DEF t
      <4>2. /\ \A e : e \in ToSet(t) <=> \E i \in 1..Len(t) : e = t[i]
            /\ \A e : e \in ToSet(queue) <=> \E i \in 1..Len(queue) : e = queue[i]
        BY <4>1, MembersOf
      <4>3. \A i \in 1..Len(t) : i + 1 \in 1..Len(queue) /\ t[i] = queue[i + 1]
        BY <3>2 DEF t
      <4>4. ToSet(t) \subseteq ToSet(queue)
        BY <4>2, <4>3
      <4> QED BY <4>4 DEF t
    <3>4. file'.pending = IF replaced THEN Tail(queue) ELSE file.pending
      BY <2>1, <3>1 DEF AlertTypeOK
    <3> QED BY <3>2, <3>3, <3>4 DEF QueuesHalt
  <2>4. ~Reads /\ ~Acknowledges => UNCHANGED file
    BY DEF AlertNext, Job, Book, Publish, UnitsChange, Send, SendFails, Kill
  <2> QED BY <2>2, <2>3, <2>4 DEF QueuesHalt
<1> QED BY <1>1, AlertInvariance, PTL DEF AlertSpec, AnnouncedOncePerHalt
=============================================================================
