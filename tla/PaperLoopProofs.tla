-------------------------- MODULE PaperLoopProofs ---------------------------
(***************************************************************************)
(* Theorems about the paper loop and the service that runs it, for any     *)
(* tokens, inputs, policies and bounds.                                    *)
(*                                                                         *)
(* The inductive invariant of the loop is LoopInv.  It says of the state   *)
(* between two cycles what the steps inside a cycle also keep (StateOK),   *)
(* so that it can be carried from the pending entry over the candidates and*)
(* over the exits, one at a time.  CycleEffect is what all of them together*)
(* do; the theorems about a step, about the next cycle and about the       *)
(* evidence of a cycle follow from it.                                     *)
(***************************************************************************)
EXTENDS PaperCampaign, PaperAccountingProofs, FiniteSetTheorems

Reasons == Triggers \cup {"NONE"}

\* The keys of intents: an entry's, and an exit's with its position's identity
\* and the time its decision was made.
LoopKeys == BuyKeys \cup ({"SELL"} \X BuyKeys \X Nat \X Reasons \X Nat)

Positions ==
    [id : BuyKeys, mint : Mints, state : {"OPEN", "CLOSED"}, qty : Nat, entry : Nat,
     basis : Nat, realized : Int, costs : Nat, updated : Nat,
     mark : (Nat \ {0}) \cup {None}, buys : {1}]

Entries ==
    [key : LoopKeys, position : BuyKeys \cup {None}, mint : Mints, side : Sides,
     state : ExecutionStates, at : Nat, qty : Nat, fill : Nat, cash : Int,
     cost : Nat, delta : Int]

Ledgers ==
    [cash : Nat, realized : Int, costs : Nat, asOf : Nat,
     positions : Seq(Positions), entries : Seq(Entries),
     processed : SUBSET LoopKeys]

\* Nothing is dated after t, and what is open has atoms and a cost basis.
PositionOK(p, t) ==
    /\ p.updated <= t
    /\ p.state = "OPEN" => p.qty > 0 /\ p.basis > 0

PositionsOK(l, t) ==
    /\ l.asOf <= t
    /\ \A n \in 1..Len(l.positions) : PositionOK(l.positions[n], t)

\* Positions are told apart by settled keys, and one of a token is open.
IdentitiesOK(l) ==
    /\ \A n \in 1..Len(l.positions) : l.positions[n].id \in l.processed
    /\ \A m, n \in 1..Len(l.positions) :
         l.positions[m].id = l.positions[n].id => m = n
    /\ \A m, n \in 1..Len(l.positions) :
         /\ l.positions[m].mint = l.positions[n].mint
         /\ l.positions[m].state = "OPEN" /\ l.positions[n].state = "OPEN"
         => m = n

\* A settled exit was one of a position of this ledger.
ExitKeysOK(l) ==
    \A k \in l.processed :
        k[1] = "SELL" => \E n \in 1..Len(l.positions) : l.positions[n].id = k[2]

LedgerOK(l, t) ==
    /\ l \in Ledgers
    /\ PositionsOK(l, t) /\ IdentitiesOK(l) /\ ExitKeysOK(l)
    /\ l.cash = Balance(l, Len(l.entries))

ExitKey(id, pending) == <<"SELL", id, pending.asOf, pending.reason, pending.qty>>

\* A decision fits its position and, when it takes profits, sells the share its
\* level asks for.
DecisionFits(p, d) ==
    /\ d \in Decisions
    /\ d.action \in {"REDUCE", "EXIT"}
    /\ d.qty \in 1..p.qty
    /\ d.action = "EXIT" => d.qty = p.qty
    /\ d.reason = "TAKE_PROFIT" =>
          /\ d.level \in DOMAIN TakeProfits
          /\ d.qty >= Share(p.qty, TakeProfits[d.level].reduce)

\* A pending decision fits its position and is not settled.
PendingOK(l, p, m) ==
    m.pending # None =>
        /\ DecisionFits(p, m.pending)
        /\ m.pending.asOf <= m.exit.evaluated
        /\ ExitKey(p.id, m.pending) \notin l.processed

\* The exit management of one position.
ManagementOK(l, p, m, t) ==
    /\ m \in [exit : ExitStates, pending : Decisions \cup {None}]
    /\ m.exit.opened <= m.exit.evaluated /\ m.exit.evaluated <= t
    /\ p.mark # None => m.exit.high >= p.mark
    /\ PendingOK(l, p, m)
    \* what was settled for it was decided by the time it was last assessed
    /\ \A k \in l.processed : k[1] = "SELL" /\ k[2] = p.id => k[3] <= m.exit.evaluated

ManagedOK(l, managing, t) ==
    /\ DOMAIN managing = IdsOf(l, OpenIn(l))
    /\ \A n \in OpenIn(l) :
         ManagementOK(l, l.positions[n], managing[l.positions[n].id], t)

EntryCosts == (TargetNotional * SwapFeeBps) \div 10000 + NetworkFee

\* Room for an entry under the limits.
RoomFor(l, i) ==
    /\ Cardinality(OpenIn(l)) < MaxPositions
    /\ OpenRisk(l) + i.notional <= MaxRisk
    /\ i.notional <= TargetNotional

\* The limits, with room for what an entry left pending may still buy.
RiskOK(l, pending) ==
    /\ Cardinality(OpenIn(l)) <= MaxPositions
    /\ OpenRisk(l) <= MaxRisk + EntryCosts
    /\ pending # None => RoomFor(l, pending)

EntryOK(l, pending, t) ==
    pending # None =>
        pending \in EntryIntents /\ pending.asOf <= t /\ OpenAt(l, pending.mint) = {}

StateOK(s, t) ==
    /\ LedgerOK(s.ledger, t)
    /\ ManagedOK(s.ledger, s.managed, t)
    /\ EntryOK(s.ledger, s.entry, t)
    /\ RiskOK(s.ledger, s.entry)

LoopInv == lastCycle \in 0..Horizon /\ StateOK(State, lastCycle)

-----------------------------------------------------------------------------
(* The shape of keys, positions and ledgers.                               *)

LEMMA BuyKeyFacts ==
    ASSUME NEW k \in BuyKeys
    PROVE  k \in LoopKeys /\ k[1] = "BUY"
BY DEF BuyKeys, LoopKeys

LEMMA ExitKeyFacts ==
    ASSUME NEW id \in BuyKeys, NEW a \in Nat, NEW r \in Reasons, NEW q \in Nat
    PROVE  LET k == <<"SELL", id, a, r, q>>
           IN  k \in LoopKeys /\ k[1] = "SELL" /\ k[2] = id /\ k[3] = a
BY DEF LoopKeys

LEMMA PositionFields ==
    ASSUME NEW p \in Positions
    PROVE  /\ p.id \in BuyKeys /\ p.mint \in Mints /\ p.qty \in Nat /\ p.entry \in Nat
           /\ p.basis \in Nat /\ p.realized \in Int /\ p.costs \in Nat
           /\ p.updated \in Nat /\ p.mark \in (Nat \ {0}) \cup {None} /\ p.buys = 1
           /\ p.state \in {"OPEN", "CLOSED"}
BY DEF Positions

LEMMA LedgerFields ==
    ASSUME NEW l \in Ledgers
    PROVE  /\ l.cash \in Nat /\ l.realized \in Int /\ l.costs \in Nat /\ l.asOf \in Nat
           /\ l.positions \in Seq(Positions) /\ l.entries \in Seq(Entries)
           /\ l.processed \in SUBSET LoopKeys
           /\ DOMAIN l.positions = 1..Len(l.positions) /\ Len(l.positions) \in Nat
           /\ DOMAIN l.entries = 1..Len(l.entries) /\ Len(l.entries) \in Nat
           /\ \A n \in 1..Len(l.positions) : l.positions[n] \in Positions
           /\ \A n \in 1..Len(l.entries) : l.entries[n] \in Entries
<1>1. /\ l.cash \in Nat /\ l.realized \in Int /\ l.costs \in Nat /\ l.asOf \in Nat
      /\ l.positions \in Seq(Positions) /\ l.entries \in Seq(Entries)
      /\ l.processed \in SUBSET LoopKeys
  BY DEF Ledgers
<1> QED BY <1>1, ElementOfSeq, LenProperties

\* The open position of a token that is found is the one there is.
LEMMA FindOpenIs ==
    ASSUME NEW l, l \in Ledgers, IdentitiesOK(l), NEW n \in OpenIn(l)
    PROVE  /\ n \in OpenAt(l, l.positions[n].mint)
           /\ FindOpen(l, l.positions[n].mint) = n
<1> DEFINE mint == l.positions[n].mint
<1>1. DOMAIN l.positions = 1..Len(l.positions) /\ Len(l.positions) \in Nat
  BY LedgerFields
<1>2. n \in OpenAt(l, mint) /\ n \in Nat
  BY <1>1 DEF OpenIn, OpenAt
<1>3. \A k \in OpenAt(l, mint) : k = n
  BY <1>1 DEF OpenIn, OpenAt, IdentitiesOK
<1> HIDE DEF mint
<1>4. \A k \in OpenAt(l, mint) : n <= k
  BY <1>2, <1>3
<1>5. FindOpen(l, mint) = n
  BY <1>2, <1>3, <1>4 DEF FindOpen
<1> QED BY <1>2, <1>5 DEF mint

-----------------------------------------------------------------------------
(* What an execution attempt answers.                                      *)

\* The intents a cycle executes.
IntentOK(i) ==
    /\ i.mint \in Mints /\ i.side \in Sides /\ i.notional \in Nat \ {0}
    /\ i.asOf \in Nat /\ i.maxSlippage \in Nat

\* A fill is of at most what was intended, at the quote's price, and is worth
\* at least an atom; anything else costs at most the network fee.
FillOK(i, q, x) ==
    /\ q # None /\ x.price = q.price /\ x.price \in Nat \ {0}
    /\ x.fill \in 1..i.notional /\ x.qty > 0
    /\ x.qty = Quantity(x.fill, x.price)
    /\ x.cost = (x.fill * SwapFeeBps) \div 10000 + NetworkFee
    /\ x.net = IF i.side = "BUY" THEN -(x.fill + x.cost) ELSE x.fill - x.cost

ExecutionOK(i, q, at, x) ==
    /\ x.key = i.key /\ x.mint = i.mint /\ x.side = i.side
    /\ x.notional = i.notional /\ x.at = at
    /\ x.state \in ExecutionStates
    /\ x.fill \in Nat /\ x.qty \in Nat /\ x.cost \in Nat /\ x.net \in Int
    /\ IF x.state \in Fills THEN FillOK(i, q, x)
       ELSE x.fill = 0 /\ x.qty = 0 /\ x.net = -x.cost /\ x.cost \in {0, NetworkFee}

LEMMA ExecutionShape ==
    ASSUME NEW i, IntentOK(i), NEW q \in CycleQuotes \cup {None}, NEW at \in Nat,
           NEW processed
    PROVE  ExecutionOK(i, q, at, ExecutePaperIntent(i, at, q, processed))
<1> DEFINE x == ExecutePaperIntent(i, at, q, processed)
<1>1. NetworkFee \in Nat /\ i.notional \in Nat \ {0} /\ i.side \in Sides
  BY PolicyAssumption DEF IntentOK
<1>2. ASSUME NEW s \in {"FAILED", "DEFERRED"}, NEW fee \in {0, NetworkFee}
      PROVE  ExecutionOK(i, q, at, Terminal(i, at, s, fee))
  BY <1>1, <1>2 DEF Terminal, Outcome, ExecutionOK, ExecutionStates, Fills
<1>3. ASSUME q \in CycleQuotes, q # None, Fillable(i, q)
      PROVE  ExecutionOK(i, q, at, Filled(i, at, q))
  <2> DEFINE fill == FillNotional(i, q)
             cost == (fill * SwapFeeBps) \div 10000 + NetworkFee
             qty == Quantity(fill, q.price)
             net == IF i.side = "BUY" THEN -(fill + cost) ELSE fill - cost
             state == IF fill < i.notional THEN "PARTIAL" ELSE "FILLED"
  <2>1. q.avail \in Nat /\ q.price \in Nat \ {0}
    BY <1>3 DEF CycleQuotes
  <2>2. fill \in 1..i.notional
    BY <1>1, <1>3, <2>1 DEF Fillable, FillNotional
  <2>3. Filled(i, at, q) = Outcome(i, at, state, fill, qty, q.price, cost, net)
    BY DEF Filled
  <2>4. qty \in Nat \ {0} /\ cost \in Nat
    <3> HIDE DEF fill
    <3>1. fill \in Nat \ {0}
      BY <1>1, <2>2
    <3> QED BY <2>1, <3>1, QuantityPositive, CostIsNat
  <2>5. net \in Int /\ fill \in Nat
    <3> HIDE DEF fill, cost
    <3>1. fill \in Nat
      BY <1>1, <2>2
    <3> QED BY <2>4, <3>1
  <2>6. /\ Outcome(i, at, state, fill, qty, q.price, cost, net).state = state
        /\ state \in Fills /\ state \in ExecutionStates
    BY DEF Outcome, Fills, ExecutionStates
  <2>7. FillOK(i, q, Outcome(i, at, state, fill, qty, q.price, cost, net))
    <3> DEFINE y == Outcome(i, at, state, fill, qty, q.price, cost, net)
    <3>1. /\ y.price = q.price /\ y.fill = fill /\ y.qty = qty /\ y.cost = cost
          /\ y.net = net
      BY DEF Outcome
    <3> HIDE DEF y, fill
    <3>2. y.qty > 0
      BY <2>4, <3>1
    <3>3. /\ y.qty = Quantity(y.fill, y.price)
          /\ y.cost = (y.fill * SwapFeeBps) \div 10000 + NetworkFee
          /\ y.net = IF i.side = "BUY" THEN -(y.fill + y.cost) ELSE y.fill - y.cost
      <4>1. y.qty = Quantity(y.fill, y.price)
        BY <3>1
      <4>2. y.cost = (y.fill * SwapFeeBps) \div 10000 + NetworkFee
        BY <3>1
      <4>3. y.net = IF i.side = "BUY" THEN -(y.fill + y.cost) ELSE y.fill - y.cost
        <5> HIDE DEF cost
        <5> QED BY <3>1
      <4> QED BY <4>1, <4>2, <4>3
    <3>4. y.fill \in 1..i.notional
      BY <2>2, <3>1
    <3>5. q # None /\ y.price = q.price /\ y.price \in Nat \ {0}
      BY <1>3, <2>1, <3>1
    <3> HIDE DEF qty, cost, net
    <3>6. FillOK(i, q, y)
      BY <3>2, <3>3, <3>4, <3>5 DEF FillOK
    <3> QED BY <3>6 DEF y
  <2> HIDE DEF fill, cost, qty, net, state
  <2> QED BY <1>1, <2>3, <2>4, <2>5, <2>6, <2>7 DEF Outcome, ExecutionOK
<1>4. CASE q = None
  BY <1>1, <1>2, <1>4 DEF ExecutePaperIntent, InWindow
<1>5. CASE q \in CycleQuotes /\ q # None
  BY <1>1, <1>2, <1>3, <1>5 DEF ExecutePaperIntent
<1> QED BY <1>4, <1>5

\* The fee of a fill is at most the fill.
LEMMA FeeBound ==
    ASSUME NEW f \in Nat
    PROVE  (f * SwapFeeBps) \div 10000 \in Nat /\ (f * SwapFeeBps) \div 10000 <= f
<1>1. SwapFeeBps \in 0..10000
  BY SMTT(30), PolicyAssumption
<1>2. f * SwapFeeBps \in Nat /\ f * SwapFeeBps <= f * 10000
  BY SMTT(30), <1>1
<1>3. ASSUME NEW a \in Nat, a <= f * 10000 PROVE a \div 10000 \in Nat /\ a \div 10000 <= f
  BY <1>3
<1> QED BY SMTT(30), <1>2, <1>3

\* A fill of a sale nets at least the network fee's loss.
LEMMA SaleNet ==
    ASSUME NEW i, NEW q, NEW at \in Nat, NEW x, ExecutionOK(i, q, at, x), i.side = "SELL"
    PROVE  x.net >= -NetworkFee
<1>1. NetworkFee \in Nat /\ SwapFeeBps \in 0..10000
  BY PolicyAssumption
<1>2. CASE x.state \in Fills
  <2>1. x.fill \in Nat /\ x.net = x.fill - x.cost
        /\ x.cost = (x.fill * SwapFeeBps) \div 10000 + NetworkFee
    BY <1>2 DEF ExecutionOK, FillOK
  <2>2. /\ (x.fill * SwapFeeBps) \div 10000 \in Nat
        /\ (x.fill * SwapFeeBps) \div 10000 <= x.fill
    BY SMTT(30), <2>1, FeeBound
  <2>3. ASSUME NEW fee \in Nat, fee <= x.fill, x.cost = fee + NetworkFee
        PROVE  x.net >= -NetworkFee
    BY <1>1, <2>1, <2>3
  <2> QED BY <2>1, <2>2, <2>3
<1>3. CASE x.state \notin Fills
  BY <1>1, <1>3 DEF ExecutionOK
<1> QED BY <1>2, <1>3

-----------------------------------------------------------------------------
(* Booking an entry in the journal.                                        *)

\* What booking at `at' a result with this key may make of the positions.
PositionsFollow(l, key, at, ps) ==
    /\ ps \in Seq(Positions) /\ Len(l.positions) <= Len(ps)
    /\ \A n \in 1..Len(ps) : PositionOK(ps[n], at) /\ ps[n].id \in l.processed \cup {key}
    /\ \A m, n \in 1..Len(ps) : ps[m].id = ps[n].id => m = n
    /\ \A m, n \in 1..Len(ps) :
         /\ ps[m].mint = ps[n].mint
         /\ ps[m].state = "OPEN" /\ ps[n].state = "OPEN"
         => m = n
    /\ \A n \in 1..Len(l.positions) : ps[n].id = l.positions[n].id

\* The balance after the first entries depends on these alone.
LEMMA BalanceOfPrefix ==
    ASSUME NEW l, NEW ll, NEW k \in Nat,
           \A n \in 1..k : ll.entries[n] = l.entries[n]
    PROVE  Balance(ll, k) = Balance(l, k)
<1>1. [n \in 1..k |-> ll.entries[n].cash] = [n \in 1..k |-> l.entries[n].cash]
  OBVIOUS
<1> QED BY <1>1 DEF Balance

LEMMA BalanceOfNext ==
    ASSUME NEW l, l.entries \in Seq(Entries), NEW ll, NEW e \in Entries,
           ll.entries = Append(l.entries, e)
    PROVE  Balance(ll, Len(ll.entries)) = Balance(l, Len(l.entries)) + e.cash
<1> DEFINE old == l.entries
           new == ll.entries
           a == [n \in 1..Len(old) |-> old[n].cash]
           b == [n \in 1..Len(new) |-> new[n].cash]
<1>1. /\ old \in Seq(Entries) /\ Len(old) \in Nat /\ Len(new) = Len(old) + 1
      /\ new \in Seq(Entries)
      /\ \A n \in 1..Len(old) : new[n] = old[n]
      /\ new[Len(old) + 1] = e
  OBVIOUS
<1> HIDE DEF old, new
<1>2. /\ \A n \in 1..Len(old) : old[n].cash \in Int
      /\ \A n \in 1..Len(new) : new[n].cash \in Int
  <2>1. \A f \in Entries : f.cash \in Int
    BY DEF Entries
  <2> QED BY <1>1, <2>1, ElementOfSeq
<1>3. a \in Seq(Int) /\ Len(a) = Len(old) /\ b \in Seq(Int) /\ Len(b) = Len(new)
  BY <1>1, <1>2
<1>4. \A n \in 1..Len(a) : b[n] = a[n]
  BY <1>1, <1>3
<1>5. b[Len(b)] = e.cash
  BY <1>1, <1>3
<1> HIDE DEF a, b
<1>6. Total(b) = Total(a) + b[Len(b)]
  BY <1>1, <1>3, <1>4, TotalExtended
<1>7. Total(a) \in Int /\ e.cash \in Int /\ StartingCash \in Int
  BY <1>3, TotalType, LoopAssumption DEF Entries
<1>8. /\ Balance(ll, Len(ll.entries)) = StartingCash + Total(b)
      /\ Balance(l, Len(l.entries)) = StartingCash + Total(a)
  BY DEF Balance, a, b, old, new
<1> QED BY <1>5, <1>6, <1>7, <1>8

\* Appending an entry keeps a ledger in order, whatever the positions become,
\* provided those are in order themselves.
LEMMA AfterEntryOK ==
    ASSUME NEW t \in Nat, NEW at \in Nat, t <= at, NEW l, LedgerOK(l, t),
           NEW i, IntentOK(i), i.key \in LoopKeys, NEW q, NEW x, ExecutionOK(i, q, at, x),
           l.cash + x.net >= 0,
           NEW ps, PositionsFollow(l, i.key, at, ps),
           NEW id \in BuyKeys \cup {None}, NEW delta \in Int,
           i.key[1] = "SELL" => \E n \in 1..Len(ps) : ps[n].id = i.key[2]
    PROVE  LedgerOK(AfterEntry(l, i, x, ps, id, delta), at)
<1> DEFINE e == Entry(i, x, id, delta)
           ll == AfterEntry(l, i, x, ps, id, delta)
<1>1. /\ l.cash \in Nat /\ l.realized \in Int /\ l.costs \in Nat
      /\ l.entries \in Seq(Entries) /\ l.processed \in SUBSET LoopKeys
      /\ Len(l.positions) \in Nat
  BY LedgerFields DEF LedgerOK
<1>2. /\ x.key = i.key /\ x.at = at /\ x.net \in Int /\ x.cost \in Nat
      /\ x.state \in ExecutionStates /\ x.qty \in Nat /\ x.fill \in Nat
  BY DEF ExecutionOK
<1>3. e \in Entries /\ e.cash = x.net
  BY <1>2 DEF Entry, Entries, IntentOK
<1> HIDE DEF e
<1>4. Append(l.entries, e) \in Seq(Entries)
  BY <1>1, <1>3
<1>5. ll = [cash |-> l.cash + x.net, realized |-> l.realized + delta,
            costs |-> l.costs + x.cost, asOf |-> at, positions |-> ps,
            entries |-> Append(l.entries, e),
            processed |-> l.processed \cup {i.key}]
  BY <1>2 DEF AfterEntry, e
<1> HIDE DEF ll
<1>6. ll \in Ledgers
  <2>1. l.cash + x.net \in Nat
    <3> DEFINE cash == l.cash
               net == x.net
    <3>1. cash \in Nat /\ net \in Int /\ cash + net >= 0
      BY <1>1, <1>2
    <3> HIDE DEF cash, net
    <3>2. cash + net \in Nat
      BY <3>1
    <3> QED BY <3>2 DEF cash, net
  <2>2. l.realized + delta \in Int /\ l.costs + x.cost \in Nat
    <3> DEFINE realized == l.realized
               costs == l.costs
               cost == x.cost
    <3>1. realized \in Int /\ delta \in Int /\ costs \in Nat /\ cost \in Nat
      BY <1>1, <1>2
    <3> HIDE DEF realized, costs, cost
    <3>2. realized + delta \in Int /\ costs + cost \in Nat
      BY <3>1
    <3> QED BY <3>2 DEF realized, costs, cost
  <2>3. l.processed \cup {i.key} \in SUBSET LoopKeys
    BY <1>1
  <2>4. ps \in Seq(Positions)
    BY DEF PositionsFollow
  <2> QED BY <1>4, <1>5, <2>1, <2>2, <2>3, <2>4 DEF Ledgers
<1>7. PositionsOK(ll, at) /\ IdentitiesOK(ll)
  BY <1>5 DEF PositionsOK, IdentitiesOK, PositionsFollow
<1>8. ExitKeysOK(ll)
  <2> SUFFICES ASSUME NEW k \in ll.processed, k[1] = "SELL"
               PROVE  \E n \in 1..Len(ps) : ps[n].id = k[2]
    BY <1>5 DEF ExitKeysOK
  <2>1. CASE k \in l.processed
    <3>1. PICK n \in 1..Len(l.positions) : l.positions[n].id = k[2]
      BY <2>1 DEF LedgerOK, ExitKeysOK
    <3>2. n \in 1..Len(ps) /\ ps[n].id = l.positions[n].id
      BY <1>1, LenProperties DEF PositionsFollow
    <3> QED BY <3>1, <3>2
  <2> QED BY <1>5, <2>1
<1>9. ll.cash = Balance(ll, Len(ll.entries))
  <2>1. ll.entries = Append(l.entries, e)
    BY <1>5
  <2>2. Balance(ll, Len(ll.entries)) = Balance(l, Len(l.entries)) + x.net
    BY <1>1, <1>3, <2>1, BalanceOfNext
  <2> QED BY <1>5, <2>2 DEF LedgerOK
<1> QED BY <1>6, <1>7, <1>8, <1>9 DEF LedgerOK, ll

\* What such a booking is given.
BookingOK(t, at, l, i, q, x, ps, id, delta) ==
    /\ LedgerOK(l, t) /\ t <= at /\ IntentOK(i) /\ i.key \in LoopKeys
    /\ ExecutionOK(i, q, at, x) /\ l.cash + x.net >= 0
    /\ PositionsFollow(l, i.key, at, ps)
    /\ id \in BuyKeys \cup {None} /\ delta \in Int
    /\ i.key[1] = "SELL" => \E n \in 1..Len(ps) : ps[n].id = i.key[2]

LEMMA BookedOK ==
    ASSUME NEW t \in Nat, NEW at \in Nat, NEW l, NEW i, NEW q, NEW x, NEW ps, NEW id,
           NEW delta, BookingOK(t, at, l, i, q, x, ps, id, delta),
           NEW ll, ll = AfterEntry(l, i, x, ps, id, delta)
    PROVE  LedgerOK(ll, at)
<1>1. /\ LedgerOK(l, t) /\ t <= at /\ IntentOK(i) /\ i.key \in LoopKeys
      /\ ExecutionOK(i, q, at, x) /\ l.cash + x.net >= 0
      /\ PositionsFollow(l, i.key, at, ps)
      /\ id \in BuyKeys \cup {None} /\ delta \in Int
      /\ i.key[1] = "SELL" => \E n \in 1..Len(ps) : ps[n].id = i.key[2]
  BY Zenon DEF BookingOK
<1>2. LedgerOK(AfterEntry(l, i, x, ps, id, delta), at)
  BY <1>1, AfterEntryOK
<1> QED BY Zenon, <1>2

\* Leaving the positions alone keeps them in order.
LEMMA SamePositions ==
    ASSUME NEW t \in Nat, NEW at \in Nat, t <= at, NEW l, LedgerOK(l, t), NEW key
    PROVE  PositionsFollow(l, key, at, l.positions)
<1>1. /\ l.positions \in Seq(Positions) /\ Len(l.positions) \in Nat
      /\ \A n \in 1..Len(l.positions) : l.positions[n] \in Positions
  BY LedgerFields DEF LedgerOK
<1>2. ASSUME NEW n \in 1..Len(l.positions) PROVE PositionOK(l.positions[n], at)
  <2>1. PositionOK(l.positions[n], t) /\ l.positions[n].updated \in Nat
    BY <1>1, PositionFields DEF LedgerOK, PositionsOK
  <2> QED BY <2>1 DEF PositionOK
<1>3. /\ \A n \in 1..Len(l.positions) : l.positions[n].id \in l.processed \cup {key}
      /\ \A m, n \in 1..Len(l.positions) :
           l.positions[m].id = l.positions[n].id => m = n
  BY DEF LedgerOK, IdentitiesOK
<1>4. \A m, n \in 1..Len(l.positions) :
         /\ l.positions[m].mint = l.positions[n].mint
         /\ l.positions[m].state = "OPEN" /\ l.positions[n].state = "OPEN"
         => m = n
  BY DEF LedgerOK, IdentitiesOK
<1>5. Len(l.positions) <= Len(l.positions)
  BY <1>1
<1> QED BY <1>1, <1>2, <1>3, <1>4, <1>5 DEF PositionsFollow

\* So does replacing an open position by a later version of itself.
LEMMA ReplacedPosition ==
    ASSUME NEW t \in Nat, NEW at \in Nat, t <= at, NEW l, LedgerOK(l, t), NEW key,
           NEW k \in OpenIn(l), NEW p \in Positions, PositionOK(p, at),
           p.id = l.positions[k].id, p.mint = l.positions[k].mint
    PROVE  /\ PositionsFollow(l, key, at, [l.positions EXCEPT ![k] = p])
           /\ Len([l.positions EXCEPT ![k] = p]) = Len(l.positions)
           /\ \A n \in 1..Len(l.positions) :
                [l.positions EXCEPT ![k] = p][n] = IF n = k THEN p ELSE l.positions[n]
<1> DEFINE ps == [l.positions EXCEPT ![k] = p]
<1>1. /\ l.positions \in Seq(Positions) /\ Len(l.positions) \in Nat
      /\ k \in 1..Len(l.positions) /\ l.positions[k].state = "OPEN"
  BY LedgerFields DEF LedgerOK, OpenIn
<1>2. /\ ps \in Seq(Positions) /\ Len(ps) = Len(l.positions)
      /\ \A n \in 1..Len(ps) : ps[n] = IF n = k THEN p ELSE l.positions[n]
  BY <1>1, ExceptSeq
<1> HIDE DEF ps
<1>3. PositionsFollow(l, key, at, l.positions)
  BY SamePositions
<1>4. \A n \in 1..Len(ps) : PositionOK(ps[n], at) /\ ps[n].id \in l.processed \cup {key}
  BY <1>1, <1>2, <1>3 DEF PositionsFollow
<1>5. \A m, n \in 1..Len(ps) : ps[m].id = ps[n].id => m = n
  BY SMTT(30), <1>1, <1>2, <1>3 DEF PositionsFollow
<1>6. \A m, n \in 1..Len(ps) :
        /\ ps[m].mint = ps[n].mint
        /\ ps[m].state = "OPEN" /\ ps[n].state = "OPEN"
        => m = n
  BY <1>1, <1>2, <1>3 DEF PositionsFollow
<1>7. Len(l.positions) <= Len(ps)
      /\ \A n \in 1..Len(l.positions) : ps[n].id = l.positions[n].id
  BY <1>1, <1>2
<1>8. PositionsFollow(l, key, at, ps)
  BY <1>2, <1>4, <1>5, <1>6, <1>7, Zenon DEF PositionsFollow
<1> QED BY <1>2, <1>8 DEF ps

\* And so does adding one for a key not settled, of a token without an open one.
LEMMA AddedPosition ==
    ASSUME NEW t \in Nat, NEW at \in Nat, t <= at, NEW l, LedgerOK(l, t),
           NEW p \in Positions, PositionOK(p, at), p.id \notin l.processed,
           OpenAt(l, p.mint) = {}
    PROVE  /\ PositionsFollow(l, p.id, at, Append(l.positions, p))
           /\ Len(Append(l.positions, p)) = Len(l.positions) + 1
           /\ \A n \in 1..Len(l.positions) : Append(l.positions, p)[n] = l.positions[n]
           /\ Append(l.positions, p)[Len(l.positions) + 1] = p
<1> DEFINE ps == Append(l.positions, p)
           key == p.id
<1>1. /\ l.positions \in Seq(Positions) /\ Len(l.positions) \in Nat
      /\ DOMAIN l.positions = 1..Len(l.positions)
  BY LedgerFields DEF LedgerOK
<1>2. /\ ps \in Seq(Positions) /\ Len(ps) = Len(l.positions) + 1
      /\ \A n \in 1..Len(l.positions) : ps[n] = l.positions[n]
      /\ ps[Len(l.positions) + 1] = p
  BY <1>1
<1> HIDE DEF ps
<1>3. PositionsFollow(l, key, at, l.positions)
  BY SamePositions
<1>4. \A n \in 1..Len(l.positions) : l.positions[n].id # key
  BY DEF LedgerOK, IdentitiesOK
<1>5. \A n \in 1..Len(l.positions) :
        l.positions[n].mint = p.mint => l.positions[n].state # "OPEN"
  BY <1>1 DEF OpenAt
<1>6. \A n \in 1..Len(ps) : n \in 1..Len(l.positions) \/ n = Len(l.positions) + 1
  BY <1>1, <1>2
<1>7. \A n \in 1..Len(ps) : PositionOK(ps[n], at) /\ ps[n].id \in l.processed \cup {key}
  BY <1>2, <1>3, <1>6 DEF PositionsFollow
<1>8. \A m, n \in 1..Len(ps) : ps[m].id = ps[n].id => m = n
  <2> SUFFICES ASSUME NEW m \in 1..Len(ps), NEW n \in 1..Len(ps), ps[m].id = ps[n].id
               PROVE  m = n
    OBVIOUS
  <2>1. CASE m \in 1..Len(l.positions) /\ n \in 1..Len(l.positions)
    BY <1>2, <1>3, <2>1 DEF PositionsFollow
  <2>2. CASE m = Len(l.positions) + 1 /\ n \in 1..Len(l.positions)
    BY <1>2, <1>4, <2>2
  <2>3. CASE n = Len(l.positions) + 1 /\ m \in 1..Len(l.positions)
    BY <1>2, <1>4, <2>3
  <2> QED BY <1>6, <2>1, <2>2, <2>3
<1>9. \A m, n \in 1..Len(ps) :
        /\ ps[m].mint = ps[n].mint
        /\ ps[m].state = "OPEN" /\ ps[n].state = "OPEN"
        => m = n
  <2> SUFFICES ASSUME NEW m \in 1..Len(ps), NEW n \in 1..Len(ps),
                      ps[m].mint = ps[n].mint,
                      ps[m].state = "OPEN", ps[n].state = "OPEN"
               PROVE  m = n
    OBVIOUS
  <2>1. CASE m \in 1..Len(l.positions) /\ n \in 1..Len(l.positions)
    BY <1>2, <1>3, <2>1 DEF PositionsFollow
  <2>2. CASE m = Len(l.positions) + 1 /\ n \in 1..Len(l.positions)
    BY <1>2, <1>5, <2>2
  <2>3. CASE n = Len(l.positions) + 1 /\ m \in 1..Len(l.positions)
    BY <1>2, <1>5, <2>3
  <2> QED BY <1>6, <2>1, <2>2, <2>3
<1>10. Len(l.positions) <= Len(ps)
       /\ \A n \in 1..Len(l.positions) : ps[n].id = l.positions[n].id
  BY SMTT(30), <1>1, <1>2
<1>11. PositionsFollow(l, key, at, ps)
  BY <1>2, <1>7, <1>8, <1>9, <1>10, Zenon DEF PositionsFollow
<1> QED BY <1>2, <1>11 DEF ps, key

-----------------------------------------------------------------------------
(* What an entry makes of the ledger.                                      *)

\* An attempt that is not deferred is refused, for a lack of cash, or because
\* its key is settled; or it is booked, without a position or with a new one.
EntryBooked(l, i, x, ll) ==
    \/ Verdict(l, i, x) # "APPLIED" /\ ll = l
    \/ /\ Verdict(l, i, x) = "APPLIED" /\ x.state = "FAILED"
       /\ ll = AfterEntry(l, i, x, l.positions, None, x.net)
    \/ /\ Bought(i, x, l)
       /\ NewPosition(i, x) \in Positions /\ i.key \notin l.processed
       /\ ll = AfterEntry(l, i, x, Append(l.positions, NewPosition(i, x)), i.key, 0)

LEMMA EntryBooking ==
    ASSUME NEW t \in Nat, NEW at \in Nat, t <= at, NEW l, LedgerOK(l, t),
           NEW i \in EntryIntents, OpenAt(l, i.mint) = {},
           NEW q, NEW x, ExecutionOK(i, q, at, x), x.state # "DEFERRED"
    PROVE  LET ll == ApplyPaperExecution(l, i, x)
           IN  EntryBooked(l, i, x, ll) /\ LedgerOK(ll, at)
<1> DEFINE ll == ApplyPaperExecution(l, i, x)
<1>1. /\ i.key \in BuyKeys /\ i.mint \in Mints /\ i.side = "BUY"
      /\ i.notional \in Nat \ {0} /\ i.asOf \in Nat /\ i.maxSlippage \in Nat
  BY DEF EntryIntents
<1>2. IntentOK(i) /\ i.key \in LoopKeys /\ i.key[1] # "SELL"
  BY <1>1, BuyKeyFacts DEF IntentOK, Sides
<1>3. /\ l \in Ledgers /\ l.cash \in Nat /\ l.positions \in Seq(Positions)
  BY LedgerFields DEF LedgerOK
<1>4. CASE Verdict(l, i, x) # "APPLIED"
  <2>1. ll = l
    BY <1>4 DEF ApplyPaperExecution
  <2>2. LedgerOK(l, at)
    <3>1. PositionsFollow(l, <<>>, at, l.positions)
      BY SamePositions
    <3>2. l.asOf \in Nat
      BY <1>3, LedgerFields
    <3> QED BY <3>1, <3>2 DEF LedgerOK, PositionsOK, PositionsFollow
  <2> QED BY <1>4, <2>1, <2>2 DEF EntryBooked
<1>5. CASE Verdict(l, i, x) = "APPLIED"
  <2>1. i.key \notin l.processed /\ l.cash + x.net >= 0
    <3>1. i.key \notin l.processed /\ ~(l.cash + x.net < 0)
      BY <1>5 DEF Verdict, Refused, Unaffordable
    <3> QED BY <1>3, <3>1 DEF ExecutionOK
  <2>2. x.net \in Int /\ x.at = at /\ x.state \in ExecutionStates \ {"DEFERRED"}
    BY DEF ExecutionOK
  <2>3. CASE x.state = "FAILED"
    <3>1. ll = AfterEntry(l, i, x, l.positions, None, x.net)
      BY <1>5, <2>3 DEF ApplyPaperExecution, BookFailed
    <3>2. PositionsFollow(l, i.key, at, l.positions)
      BY SamePositions
    <3>3. LedgerOK(ll, at)
      <4> DEFINE ps == l.positions
                 delta == x.net
      <4>1. ll = AfterEntry(l, i, x, ps, None, delta) /\ delta \in Int
        BY <2>2, <3>1
      <4>2. PositionsFollow(l, i.key, at, ps)
        BY <3>2
      <4> HIDE DEF ps, delta, ll
      <4>3. BookingOK(t, at, l, i, q, x, ps, None, delta)
        BY Zenon, <1>2, <2>1, <4>1, <4>2 DEF BookingOK
      <4> QED BY Zenon, <4>1, <4>3, BookedOK
    <3> QED BY <1>5, <2>3, <3>1, <3>3 DEF EntryBooked
  <2>4. CASE x.state \in Fills
    <3> DEFINE p == NewPosition(i, x)
    <3>1. ll = AfterEntry(l, i, x, Append(l.positions, p), i.key, 0)
      BY <1>1, <1>5, <2>4 DEF ApplyPaperExecution, BookBuy, Fills
    <3>2. /\ x.fill \in Nat /\ x.fill > 0 /\ x.qty \in Nat /\ x.qty > 0
          /\ x.cost \in Nat /\ x.price \in Nat /\ at \in Nat
      BY <2>4 DEF ExecutionOK, FillOK
    <3>3. /\ p \in Positions /\ p.id = i.key /\ p.mint = i.mint
          /\ p.qty > 0 /\ p.basis > 0 /\ p.updated <= at
      <4>1. x.fill + x.cost \in Nat /\ x.fill + x.cost > 0
        BY <3>2
      <4> QED BY <1>1, <2>2, <3>2, <4>1 DEF NewPosition, Positions
    <3> HIDE DEF p
    <3>4. PositionsFollow(l, i.key, at, Append(l.positions, p))
      <4>1. PositionOK(p, at)
        BY <3>3 DEF PositionOK
      <4> QED BY ZenonT(40), <2>1, <3>3, <4>1, AddedPosition
    <3>5. LedgerOK(ll, at)
      <4> DEFINE ps == Append(l.positions, p)
                 delta == 0
      <4>1. ll = AfterEntry(l, i, x, ps, i.key, delta) /\ delta \in Int
        BY <3>1
      <4>2. PositionsFollow(l, i.key, at, ps)
        BY <3>4
      <4> HIDE DEF ps, delta, ll
      <4>3. BookingOK(t, at, l, i, q, x, ps, i.key, delta)
        BY Zenon, <1>1, <1>2, <2>1, <4>1, <4>2 DEF BookingOK
      <4> QED BY Zenon, <4>1, <4>3, BookedOK
    <3>6. Bought(i, x, l)
      BY <1>5, <2>4 DEF Bought
    <3> QED BY <2>1, <3>1, <3>3, <3>5, <3>6 DEF EntryBooked, p
  <2> QED BY <2>2, <2>3, <2>4 DEF ExecutionStates, Fills
<1> QED BY <1>4, <1>5

-----------------------------------------------------------------------------
(* What a sale makes of the ledger.                                        *)

\* What is left of a position after a sale, or after a failed attempt's cost.
Remains(p, x, at, r) ==
    /\ r \in Positions /\ PositionOK(r, at)
    /\ r.id = p.id /\ r.mint = p.mint /\ r.qty = p.qty - x.qty
    /\ r.state = IF x.qty = p.qty THEN "CLOSED" ELSE "OPEN"
    /\ r.basis <= p.basis /\ r.mark \in {p.mark, None}

SoldAs(l, n, i, x, ll) ==
    \E r \in Positions, delta \in Int :
        /\ Remains(l.positions[n], x, x.at, r)
        /\ ll = AfterEntry(l, i, x, [l.positions EXCEPT ![n] = r], l.positions[n].id, delta)

\* An attempt that is not deferred is booked on its position, unless there is
\* not even the cash for the network fee.
SaleBooked(l, n, i, x, ll) ==
    \/ Verdict(l, i, x) # "APPLIED" /\ ll = l /\ l.cash < NetworkFee /\ Unaffordable(l, x)
    \/ Verdict(l, i, x) = "APPLIED" /\ SoldAs(l, n, i, x, ll)

\* What an intended number of atoms is worth never buys more than that.
LEMMA QuantityBounded ==
    ASSUME Unit = 1, NEW qty \in Nat, NEW price \in Nat \ {0}, NEW fill \in Nat,
           fill <= qty * price
    PROVE  Quantity(fill, price) <= qty
<1> DEFINE a == fill * Unit + price - 1
<1>1. a \in Nat /\ a < price * (qty + 1)
  <2>1. a = fill + price - 1 /\ qty * price = price * qty
    OBVIOUS
  <2>2. price * (qty + 1) = price * qty + price /\ price * qty \in Nat
    OBVIOUS
  <2> HIDE DEF a
  <2> QED BY <2>1, <2>2
<1> HIDE DEF a
<1>2. a = price * (a \div price) + (a % price) /\ a % price \in 0..(price - 1)
      /\ a \div price \in Int
  BY <1>1
<1>3. price * (a \div price) < price * (qty + 1)
  BY <1>1, <1>2
<1>4. a \div price < qty + 1
  BY <1>2, <1>3
<1>5. a \div price <= qty
  BY <1>2, <1>4
<1> QED BY <1>5 DEF Quantity, a

LEMMA DecisionFields ==
    ASSUME NEW p \in Positions, NEW d, DecisionFits(p, d)
    PROVE  /\ d.qty \in Nat \ {0} /\ d.qty <= p.qty /\ d.asOf \in Nat /\ d.reason \in Reasons
           /\ d.action \in {"REDUCE", "EXIT"} /\ d.state \in ExitStates
<1>1. p.qty \in Nat
  BY PositionFields
<1> QED BY <1>1 DEF DecisionFits, Decisions, Reasons

LEMMA ExitIntentFacts ==
    ASSUME NEW p \in Positions, NEW d, DecisionFits(p, d), NEW q \in CycleQuotes,
           NEW i, i = ExitIntent(p, d, q)
    PROVE  /\ IntentOK(i) /\ i.key = ExitKey(p.id, d) /\ i.key \in LoopKeys
           /\ i.key[1] = "SELL" /\ i.key[2] = p.id /\ i.key[3] = d.asOf
           /\ i.mint = p.mint /\ i.side = "SELL" /\ i.notional = d.qty * q.price
           /\ i.asOf = d.asOf /\ i.maxSlippage = MaxSlippage
<1>1. /\ d.qty \in Nat \ {0} /\ d.asOf \in Nat /\ d.reason \in Reasons
      /\ p.id \in BuyKeys /\ p.mint \in Mints
  BY DecisionFields, PositionFields
<1>2. q.price \in Nat \ {0} /\ MaxSlippage \in Nat
  BY LoopAssumption DEF CycleQuotes
<1>3. d.qty * q.price \in Nat \ {0}
  BY <1>1, <1>2
<1>4. /\ i.key = ExitKey(p.id, d) /\ i.mint = p.mint /\ i.side = "SELL"
      /\ i.notional = d.qty * q.price /\ i.asOf = d.asOf /\ i.maxSlippage = MaxSlippage
  BY DEF ExitIntent, ExitKey
<1>5. /\ i.key \in LoopKeys /\ i.key[1] = "SELL" /\ i.key[2] = p.id /\ i.key[3] = d.asOf
  BY <1>1, <1>4, ExitKeyFacts DEF ExitKey
<1> QED BY <1>1, <1>2, <1>3, <1>4, <1>5 DEF IntentOK, Sides

LEMMA FailureRemains ==
    ASSUME NEW p \in Positions, p.state = "OPEN", p.qty > 0, p.basis > 0,
           NEW x, x.qty = 0, x.net \in Int, x.cost \in Nat, NEW at \in Nat, x.at = at
    PROVE  Remains(p, x, at, [p EXCEPT !.realized = @ + x.net, !.costs = @ + x.cost,
                                       !.updated = x.at])
<1> DEFINE realized == p.realized + x.net
           costs == p.costs + x.cost
           r == [p EXCEPT !.realized = realized, !.costs = costs, !.updated = x.at]
<1>1. p.qty \in Nat /\ p.basis \in Nat /\ p.realized \in Int /\ p.costs \in Nat
  BY PositionFields
<1>2. realized \in Int /\ costs \in Nat
  BY <1>1
<1>3. r = [p EXCEPT !.realized = @ + x.net, !.costs = @ + x.cost, !.updated = x.at]
  BY Zenon
<1> HIDE DEF realized, costs
<1>4. /\ r \in Positions /\ r.updated = x.at /\ r.state = p.state /\ r.qty = p.qty
      /\ r.basis = p.basis /\ r.id = p.id /\ r.mint = p.mint /\ r.mark = p.mark
  BY <1>2 DEF Positions
<1> HIDE DEF r
<1>5. Remains(p, x, at, r)
  BY <1>1, <1>4 DEF Remains, PositionOK
<1> QED BY <1>3, <1>5, Zenon

LEMMA ReducedRemains ==
    ASSUME NEW p \in Positions, p.state = "OPEN", p.qty > 0, p.basis > 0,
           NEW x, x.qty \in 1..p.qty, x.net \in Int, x.cost \in Nat,
           NEW at \in Nat, x.at = at
    PROVE  /\ Remains(p, x, at, Reduced(p, x))
           /\ x.net - ReleasedBasis(p, x.qty) \in Int
<1> DEFINE released == ReleasedBasis(p, x.qty)
           qty == p.qty - x.qty
           basis == p.basis - released
           realized == p.realized + (x.net - released)
           costs == p.costs + x.cost
           state == IF x.qty = p.qty THEN "CLOSED" ELSE "OPEN"
           r == [p EXCEPT !.state = state, !.qty = qty, !.basis = basis,
                          !.realized = realized, !.costs = costs,
                          !.updated = x.at, !.mark = None]
<1>1. p.qty \in Nat /\ p.basis \in Nat \ {0} /\ p.realized \in Int /\ p.costs \in Nat
  BY PositionFields
<1>2. released \in 0..p.basis /\ (x.qty < p.qty => released < p.basis)
  BY <1>1, ReleasedBasisBounds
<1>3. r = Reduced(p, x)
  BY Zenon DEF Reduced
<1> HIDE DEF released
<1>4. /\ qty \in Nat /\ basis \in Nat /\ realized \in Int /\ costs \in Nat
      /\ basis <= p.basis /\ x.net - released \in Int
      /\ x.qty # p.qty => qty > 0 /\ basis > 0
  BY <1>1, <1>2
<1> HIDE DEF qty, basis, realized, costs
<1>5. /\ r \in Positions /\ r.updated = x.at /\ r.state = state /\ r.qty = qty
      /\ r.basis = basis /\ r.id = p.id /\ r.mint = p.mint /\ r.mark = None
  BY ZenonT(40), <1>4 DEF Positions
<1> HIDE DEF r
<1>6. Remains(p, x, at, r)
  BY <1>4, <1>5 DEF Remains, PositionOK, qty
<1> QED BY <1>3, <1>4, <1>6 DEF released

LEMMA SaleBooking ==
    ASSUME NEW t \in Nat, NEW at \in Nat, t <= at, NEW l, LedgerOK(l, t),
           NEW n \in OpenIn(l), NEW d, DecisionFits(l.positions[n], d),
           ExitKey(l.positions[n].id, d) \notin l.processed,
           NEW q \in CycleQuotes, NEW i, i = ExitIntent(l.positions[n], d, q),
           NEW x, ExecutionOK(i, q, at, x), x.state # "DEFERRED"
    PROVE  LET ll == ApplyPaperExecution(l, i, x)
           IN  SaleBooked(l, n, i, x, ll) /\ LedgerOK(ll, at) /\ x.qty <= d.qty
<1> DEFINE ll == ApplyPaperExecution(l, i, x)
           p == l.positions[n]
<1> SUFFICES SaleBooked(l, n, i, x, ll) /\ LedgerOK(ll, at) /\ x.qty <= d.qty
  OBVIOUS
<1>1. /\ l \in Ledgers /\ l.cash \in Nat /\ l.positions \in Seq(Positions) /\ l.asOf \in Nat
      /\ n \in 1..Len(l.positions) /\ p \in Positions /\ p.state = "OPEN"
      /\ Len(l.positions) \in Nat
  BY LedgerFields DEF LedgerOK, OpenIn
<1>2. p.qty \in Nat /\ p.qty > 0 /\ p.basis > 0 /\ p.id \in BuyKeys /\ p.id \in LoopKeys
  BY <1>1, PositionFields, BuyKeyFacts DEF LedgerOK, PositionsOK, PositionOK
<1>3. /\ IntentOK(i) /\ i.key = ExitKey(p.id, d) /\ i.key \in LoopKeys
      /\ i.key[1] = "SELL" /\ i.key[2] = p.id
      /\ i.mint = p.mint /\ i.side = "SELL" /\ i.notional = d.qty * q.price
  <2> HIDE DEF p
  <2> QED BY SMTT(30), <1>1, ExitIntentFacts DEF p
<1>4. OpenAt(l, i.mint) # {} /\ FindOpen(l, i.mint) = n
  BY <1>1, <1>3, FindOpenIs DEF LedgerOK
<1>5. d.qty \in Nat \ {0} /\ d.qty <= p.qty
  <2> HIDE DEF p
  <2> QED BY <1>1, DecisionFields DEF p
<1>6. /\ x.key = i.key /\ x.mint = i.mint /\ x.side = i.side /\ x.notional = i.notional
      /\ x.at = at /\ x.state \in ExecutionStates \ {"DEFERRED"}
      /\ x.qty \in Nat /\ x.cost \in Nat /\ x.net \in Int
      /\ x.state \notin Fills => x.qty = 0
  BY DEF ExecutionOK
<1>7. x.qty <= d.qty /\ (x.state \in Fills => x.qty > 0)
  <2>1. CASE x.state \in Fills
    <3>1. /\ x.qty = Quantity(x.fill, q.price) /\ x.fill \in 1..i.notional /\ x.qty > 0
          /\ q.price \in Nat \ {0}
      BY <2>1 DEF ExecutionOK, FillOK
    <3>2. d.qty * q.price \in Nat
      BY <1>5, <3>1
    <3>3. x.fill \in Nat /\ x.fill <= d.qty * q.price
      BY <1>3, <3>1, <3>2
    <3>4. Quantity(x.fill, q.price) <= d.qty
      BY <1>5, <3>1, <3>3, QuantityBounded, LoopAssumption
    <3> QED BY <3>1, <3>4
  <2> QED BY <1>5, <1>6, <2>1
<1>8. ~Refused(l, i, x) /\ ~Oversold(l, i, x)
  <2>1. ~(x.at < l.asOf)
    BY <1>1, <1>6 DEF LedgerOK, PositionsOK
  <2>2. ~(x.qty > l.positions[FindOpen(l, i.mint)].qty)
    BY <1>2, <1>4, <1>5, <1>6, <1>7
  <2> QED BY <1>3, <1>4, <1>6, <2>1, <2>2 DEF Refused, Mismatched, Oversold
<1>9. Verdict(l, i, x) = IF Unaffordable(l, x) THEN "REJECTED" ELSE "APPLIED"
  BY <1>6, <1>8 DEF Verdict
<1>10. CASE Unaffordable(l, x)
  <2>1. ll = l /\ Verdict(l, i, x) # "APPLIED"
    BY <1>9, <1>10 DEF ApplyPaperExecution
  <2>2. l.cash < NetworkFee
    <3>1. x.net >= -NetworkFee /\ NetworkFee \in Nat
      BY <1>3, SaleNet, PolicyAssumption
    <3> QED BY SMTT(30), <1>1, <1>6, <1>10, <3>1 DEF Unaffordable
  <2>3. LedgerOK(l, at)
    <3>1. PositionsFollow(l, <<>>, at, l.positions)
      BY SamePositions
    <3> QED BY <1>1, <3>1 DEF LedgerOK, PositionsOK, PositionsFollow
  <2> QED BY <1>7, <1>10, <2>1, <2>2, <2>3 DEF SaleBooked
<1>11. CASE ~Unaffordable(l, x)
  <2>1. Verdict(l, i, x) = "APPLIED" /\ l.cash + x.net >= 0
    BY SMTT(30), <1>1, <1>6, <1>9, <1>11 DEF Unaffordable
  <2>2. ASSUME NEW r, Remains(p, x, at, r), NEW delta \in Int,
               ll = AfterEntry(l, i, x, [l.positions EXCEPT ![n] = r], p.id, delta)
        PROVE  SoldAs(l, n, i, x, ll) /\ LedgerOK(ll, at)
    <3> DEFINE ps == [l.positions EXCEPT ![n] = r]
    <3>1. /\ PositionsFollow(l, i.key, at, ps) /\ Len(ps) = Len(l.positions)
          /\ ps[n] = r /\ r.id = p.id
      BY <1>1, <2>2, ReplacedPosition DEF Remains
    <3> HIDE DEF ps
    <3>2. \E m \in 1..Len(ps) : ps[m].id = i.key[2]
      BY <1>1, <1>3, <3>1
    <3> HIDE DEF p
    <3>3. LedgerOK(AfterEntry(l, i, x, ps, p.id, delta), at)
      <4> DEFINE made == AfterEntry(l, i, x, ps, p.id, delta)
      <4>1. BookingOK(t, at, l, i, q, x, ps, p.id, delta)
        BY Zenon, <1>2, <1>3, <2>1, <2>2, <3>1, <3>2 DEF BookingOK
      <4>2. made = AfterEntry(l, i, x, ps, p.id, delta)
        OBVIOUS
      <4> HIDE DEF made
      <4>3. LedgerOK(made, at)
        BY Zenon, <4>1, <4>2, BookedOK
      <4> QED BY <4>3 DEF made
    <3>4. LedgerOK(ll, at)
      BY <2>2, <3>3 DEF ps
    <3>5. SoldAs(l, n, i, x, ll)
      BY <1>6, <2>2 DEF SoldAs, Remains, p
    <3> QED BY <3>4, <3>5
  <2>3. CASE x.state = "FAILED"
    <3>1. x.qty = 0
      BY <1>6, <2>3 DEF Fills
    <3> DEFINE r == [p EXCEPT !.realized = @ + x.net, !.costs = @ + x.cost, !.updated = x.at]
    <3>2. ll = AfterEntry(l, i, x,
                  IF x.net # 0 \/ x.cost # 0 THEN [l.positions EXCEPT ![n] = r] ELSE l.positions,
                  p.id, x.net)
      BY <1>4, <2>1, <2>3 DEF ApplyPaperExecution, BookFailed
    <3>3. CASE x.net # 0 \/ x.cost # 0
      <4>1. Remains(p, x, at, r)
        <5> HIDE DEF p
        <5> QED BY <1>1, <1>2, <1>6, <3>1, FailureRemains
      <4> HIDE DEF r, p, ll
      <4>2. ll = AfterEntry(l, i, x, [l.positions EXCEPT ![n] = r], p.id, x.net)
        BY <3>2, <3>3
      <4> QED BY <1>6, <1>7, <2>1, <2>2, <4>1, <4>2 DEF SaleBooked
    <3>4. CASE ~(x.net # 0 \/ x.cost # 0)
      <4>1. Remains(p, x, at, p)
        <5>1. PositionOK(p, at)
          BY <1>1, SamePositions DEF PositionsFollow
        <5> HIDE DEF p
        <5>2. p.basis \in Nat
          BY <1>1, PositionFields
        <5> QED BY <1>1, <1>2, <3>1, <5>1, <5>2 DEF Remains
      <4>2. l.positions = [l.positions EXCEPT ![n] = p]
        <5>1. /\ [l.positions EXCEPT ![n] = p] \in Seq(Positions)
              /\ Len([l.positions EXCEPT ![n] = p]) = Len(l.positions)
              /\ \A k \in 1..Len(l.positions) : [l.positions EXCEPT ![n] = p][k] = l.positions[k]
          BY <1>1, ExceptSeq
        <5> QED BY <1>1, <5>1, SeqEqual
      <4>3. ll = AfterEntry(l, i, x, [l.positions EXCEPT ![n] = p], p.id, x.net)
        <5> HIDE DEF r, ll
        <5> QED BY <3>2, <3>4, <4>2
      <4> HIDE DEF p, ll
      <4> QED BY <1>6, <1>7, <2>1, <2>2, <4>1, <4>3 DEF SaleBooked
    <3> QED BY <3>3, <3>4
  <2>4. CASE x.state \in Fills
    <3>1. x.qty \in 1..p.qty
      BY <1>2, <1>5, <1>6, <1>7, <2>4
    <3> DEFINE r == Reduced(p, x)
               delta == x.net - ReleasedBasis(p, x.qty)
    <3>2. ll = AfterEntry(l, i, x, [l.positions EXCEPT ![n] = r], p.id, delta)
      BY <1>3, <1>4, <2>1, <2>4 DEF ApplyPaperExecution, BookSell, Fills
    <3>3. Remains(p, x, at, r) /\ delta \in Int
      <4> HIDE DEF p
      <4> QED BY <1>1, <1>2, <1>6, <3>1, ReducedRemains
    <3> HIDE DEF r, delta, p, ll
    <3> QED BY <1>7, <2>1, <2>2, <3>2, <3>3 DEF SaleBooked
  <2> QED BY <1>6, <2>3, <2>4 DEF ExecutionStates, Fills
<1> QED BY <1>10, <1>11

-----------------------------------------------------------------------------
(* The limits.                                                             *)

Basis(p) == IF p.state = "OPEN" THEN p.basis ELSE 0

Bases(positions) == [n \in 1..Len(positions) |-> Basis(positions[n])]

LEMMA OpenRiskIs ==
    ASSUME NEW l, l.positions \in Seq(Positions)
    PROVE  /\ Bases(l.positions) \in Seq(Int)
           /\ Len(Bases(l.positions)) = Len(l.positions)
           /\ OpenRisk(l) = Total(Bases(l.positions)) /\ OpenRisk(l) \in Nat
<1> DEFINE ps == l.positions
           a == [n \in 1..Len(ps) |-> Basis(ps[n])]
<1>1. /\ ps \in Seq(Positions) /\ Len(ps) \in Nat /\ DOMAIN ps = 1..Len(ps)
      /\ \A n \in 1..Len(ps) : ps[n] \in Positions
  BY ElementOfSeq
<1>2. OpenRisk(l) = Total(a)
  BY <1>1 DEF OpenRisk, Basis
<1> HIDE DEF ps
<1>3. \A n \in 1..Len(ps) : Basis(ps[n]) \in Nat
  BY <1>1, PositionFields DEF Basis
<1>4. a \in Seq(Int) /\ Len(a) = Len(ps) /\ \A n \in 1..Len(a) : a[n] >= 0
  BY <1>1, <1>3
<1>5. Total(a) \in Nat
  <2> HIDE DEF a
  <2> QED BY <1>4, TotalNat
<1> QED BY <1>2, <1>4, <1>5 DEF ps, Bases

LEMMA OpenInFinite ==
    ASSUME NEW l, l.positions \in Seq(Positions)
    PROVE  /\ IsFiniteSet(OpenIn(l)) /\ Cardinality(OpenIn(l)) \in Nat
           /\ OpenIn(l) \subseteq 1..Len(l.positions)
<1>1. OpenIn(l) \in SUBSET (1..Len(l.positions)) /\ Len(l.positions) \in Nat
  BY DEF OpenIn
<1>2. IsFiniteSet(1..Len(l.positions))
  BY <1>1, FS_Interval
<1>3. IsFiniteSet(OpenIn(l))
  BY <1>1, <1>2, FS_Subset
<1> QED BY <1>1, <1>3, FS_CardinalityType

\* Positions that only close, or lose some of their basis, keep the limits.
LEMMA RiskKept ==
    ASSUME NEW l, l.positions \in Seq(Positions), NEW ll, ll.positions \in Seq(Positions),
           Len(ll.positions) = Len(l.positions),
           \A n \in 1..Len(l.positions) :
               ll.positions[n].state = "OPEN" =>
                   /\ l.positions[n].state = "OPEN"
                   /\ ll.positions[n].basis <= l.positions[n].basis,
           NEW pending, pending # None => pending.notional \in Nat, RiskOK(l, pending)
    PROVE  RiskOK(ll, pending)
<1> DEFINE a == Bases(l.positions)
           b == Bases(ll.positions)
<1>1. /\ a \in Seq(Int) /\ Len(a) = Len(l.positions) /\ OpenRisk(l) = Total(a)
      /\ b \in Seq(Int) /\ Len(b) = Len(l.positions) /\ OpenRisk(ll) = Total(b)
      /\ OpenRisk(l) \in Nat /\ OpenRisk(ll) \in Nat
  BY OpenRiskIs
<1>2. \A n \in 1..Len(b) : b[n] <= a[n]
  <2> SUFFICES ASSUME NEW n \in 1..Len(l.positions)
               PROVE  Basis(ll.positions[n]) <= Basis(l.positions[n])
    BY <1>1 DEF Bases
  <2>1. l.positions[n] \in Positions /\ ll.positions[n] \in Positions
    BY ElementOfSeq
  <2>2. l.positions[n].basis \in Nat /\ ll.positions[n].basis \in Nat
    BY <2>1, PositionFields
  <2> QED BY <2>2 DEF Basis
<1> HIDE DEF a, b
<1>3. OpenRisk(ll) <= OpenRisk(l)
  BY <1>1, <1>2, TotalMonotone
<1>4. OpenIn(ll) \subseteq OpenIn(l)
  <2>1. DOMAIN l.positions = 1..Len(l.positions) /\ DOMAIN ll.positions = 1..Len(l.positions)
    OBVIOUS
  <2> QED BY <2>1 DEF OpenIn
<1>5. /\ Cardinality(OpenIn(ll)) <= Cardinality(OpenIn(l))
      /\ Cardinality(OpenIn(l)) \in Nat /\ Cardinality(OpenIn(ll)) \in Nat
  BY <1>4, OpenInFinite, FS_Subset
<1>6. MaxPositions \in Nat /\ MaxRisk \in Nat /\ TargetNotional \in Nat
  BY LoopAssumption
<1>7. EntryCosts \in Nat
  <2> HIDE DEF RiskOK
  <2> QED BY SMTT(30), <1>6, CostIsNat DEF EntryCosts
<1>8. /\ Cardinality(OpenIn(ll)) <= MaxPositions
      /\ OpenRisk(ll) <= MaxRisk + EntryCosts
  BY <1>1, <1>3, <1>5, <1>6, <1>7 DEF RiskOK
<1>9. ASSUME pending # None PROVE RoomFor(ll, pending)
  BY <1>1, <1>3, <1>5, <1>6, <1>9 DEF RiskOK, RoomFor
<1> QED BY <1>8, <1>9 DEF RiskOK

\* An entry of at most the target costs at most what the target would.
LEMMA CostWithin ==
    ASSUME NEW fill \in Nat, fill <= TargetNotional
    PROVE  (fill * SwapFeeBps) \div 10000 + NetworkFee <= EntryCosts
<1>1. TargetNotional \in Nat /\ NetworkFee \in Nat
  BY LoopAssumption, PolicyAssumption
<1>2. (fill * SwapFeeBps) \div 10000 \in Nat
  BY FeeBound
<1>3. (TargetNotional * SwapFeeBps) \div 10000 \in Nat
  BY <1>1, FeeBound
<1>4. (fill * SwapFeeBps) \div 10000 <= (TargetNotional * SwapFeeBps) \div 10000
  BY <1>1, CostMonotone
<1>5. ASSUME NEW f \in Nat, NEW g \in Nat, f <= g PROVE f + NetworkFee <= g + NetworkFee
  BY <1>1, <1>5
<1> QED BY <1>2, <1>3, <1>4, <1>5 DEF EntryCosts

\* An entry within the room there was leaves the limits kept.
LEMMA RiskOfEntry ==
    ASSUME NEW l, l.positions \in Seq(Positions), NEW p \in Positions, p.state = "OPEN",
           NEW ll, ll.positions = Append(l.positions, p),
           NEW i, i.notional \in Nat, RoomFor(l, i),
           NEW fill \in 1..i.notional, NEW cost \in Nat, cost <= EntryCosts,
           p.basis = fill + cost
    PROVE  RiskOK(ll, None)
<1> DEFINE old == l.positions
           new == ll.positions
           a == Bases(old)
           b == Bases(new)
<1>0. l.positions \in Seq(Positions) /\ ll.positions \in Seq(Positions)
  OBVIOUS
<1>1. /\ old \in Seq(Positions) /\ Len(old) \in Nat /\ new \in Seq(Positions)
      /\ Len(new) = Len(old) + 1 /\ new[Len(old) + 1] = p
      /\ \A n \in 1..Len(old) : new[n] = old[n]
      /\ DOMAIN old = 1..Len(old) /\ DOMAIN new = 1..Len(new)
  OBVIOUS
<1>2. /\ a \in Seq(Int) /\ Len(a) = Len(old) /\ OpenRisk(l) = Total(a)
      /\ b \in Seq(Int) /\ Len(b) = Len(new) /\ OpenRisk(ll) = Total(b)
      /\ OpenRisk(l) \in Nat /\ OpenRisk(ll) \in Nat
  BY <1>0, OpenRiskIs
<1>3. OpenIn(ll) = OpenIn(l) \cup {Len(old) + 1}
  <2>1. OpenIn(l) = {n \in 1..Len(old) : old[n].state = "OPEN"}
    BY <1>1 DEF OpenIn
  <2>2. OpenIn(ll) = {n \in 1..Len(new) : new[n].state = "OPEN"}
    BY <1>1 DEF OpenIn
  <2> HIDE DEF old, new
  <2> QED BY SMTT(30), <1>1, <2>1, <2>2
<1> HIDE DEF old, new
<1>4. (\A n \in 1..Len(a) : b[n] = a[n]) /\ b[Len(b)] = p.basis
  BY SMTT(30), <1>1, <1>2 DEF Basis, Bases
<1> HIDE DEF a, b
<1>5. OpenRisk(ll) = OpenRisk(l) + p.basis
  BY <1>1, <1>2, <1>4, TotalExtended
<1>6. /\ Cardinality(OpenIn(ll)) <= Cardinality(OpenIn(l)) + 1
      /\ Cardinality(OpenIn(l)) \in Nat
  <2>1. IsFiniteSet(OpenIn(l)) /\ Cardinality(OpenIn(l)) \in Nat
    BY <1>0, OpenInFinite
  <2>2. ASSUME NEW k
        PROVE  Cardinality(OpenIn(l) \cup {k}) <= Cardinality(OpenIn(l)) + 1
    <3>1. Cardinality(OpenIn(l) \cup {k}) =
            IF k \in OpenIn(l) THEN Cardinality(OpenIn(l)) ELSE Cardinality(OpenIn(l)) + 1
      BY <2>1, FS_AddElement
    <3> QED BY <2>1, <3>1
  <2> QED BY <1>3, <2>1, <2>2
<1>7. /\ MaxPositions \in Nat /\ MaxRisk \in Nat /\ TargetNotional \in Nat
      /\ Cardinality(OpenIn(ll)) \in Nat
  <2>1. Cardinality(OpenIn(ll)) \in Nat
    BY <1>0, OpenInFinite
  <2> QED BY <2>1, LoopAssumption
<1>8. p.basis <= i.notional + EntryCosts /\ EntryCosts \in Nat
  <2>1. EntryCosts \in Nat
    BY <1>7, CostIsNat DEF EntryCosts
  <2> QED BY <2>1
<1>9. p.basis \in Nat
  BY PositionFields
<1>10. OpenRisk(ll) <= MaxRisk + EntryCosts
  <2>1. OpenRisk(l) + i.notional <= MaxRisk
    BY DEF RoomFor
  <2> HIDE DEF EntryCosts
  <2> QED BY SMTT(30), <1>2, <1>5, <1>7, <1>8, <1>9, <2>1
<1>11. Cardinality(OpenIn(ll)) <= MaxPositions
  BY <1>6, <1>7 DEF RoomFor
<1> QED BY <1>10, <1>11 DEF RiskOK

-----------------------------------------------------------------------------
(* What stays in order.                                                    *)

LEMMA LedgerLater ==
    ASSUME NEW t \in Nat, NEW at \in Nat, t <= at, NEW l, LedgerOK(l, t)
    PROVE  LedgerOK(l, at)
<1>1. PositionsFollow(l, <<>>, at, l.positions) /\ l.asOf \in Nat
  BY SamePositions, LedgerFields DEF LedgerOK
<1> QED BY <1>1 DEF LedgerOK, PositionsOK, PositionsFollow

\* Settling an intent that is no exit of a position leaves its management be.
LEMMA ManagementKept ==
    ASSUME NEW t \in Nat, NEW at \in Nat, t <= at, NEW l, NEW ll, NEW p, NEW m,
           ManagementOK(l, p, m, t), NEW key, ll.processed \subseteq l.processed \cup {key},
           key[1] = "SELL" => key[2] # p.id
    PROVE  ManagementOK(ll, p, m, at)
<1>1. m.exit.evaluated \in Nat /\ m.exit.evaluated <= at
  BY DEF ManagementOK, ExitStates
<1>2. PendingOK(ll, p, m)
  <2>1. \A d : ExitKey(p.id, d)[1] = "SELL" /\ ExitKey(p.id, d)[2] = p.id
    BY DEF ExitKey
  <2> QED BY <2>1 DEF ManagementOK, PendingOK
<1> QED BY <1>1, <1>2 DEF ManagementOK

LEMMA ManagedLater ==
    ASSUME NEW t \in Nat, NEW at \in Nat, t <= at, NEW l, NEW m, ManagedOK(l, m, t)
    PROVE  ManagedOK(l, m, at)
<1>1. ASSUME NEW n \in OpenIn(l)
      PROVE  ManagementOK(l, l.positions[n], m[l.positions[n].id], at)
  <2>1. ManagementOK(l, l.positions[n], m[l.positions[n].id], t)
    BY DEF ManagedOK
  <2> DEFINE p == l.positions[n]
             mm == m[p.id]
             key == <<"BUY">>
  <2>2. l.processed \subseteq l.processed \cup {key} /\ key[1] # "SELL"
    OBVIOUS
  <2>3. ManagementOK(l, p, mm, t)
    BY <2>1
  <2> HIDE DEF p, mm, key
  <2>4. ManagementOK(l, p, mm, at)
    BY <2>2, <2>3, ManagementKept
  <2> QED BY <2>4 DEF p, mm
<1> QED BY <1>1 DEF ManagedOK

LEMMA RiskLater ==
    ASSUME NEW l, l.positions \in Seq(Positions), NEW ll, ll.positions = l.positions,
           NEW pending, RiskOK(l, pending)
    PROVE  RiskOK(ll, pending)
BY DEF RiskOK, RoomFor, OpenRisk, OpenIn

\* The journal and the positions a step starts from are still there after it,
\* and at most k entries were added.
Extends(l, ll, k) ==
    /\ Len(l.entries) <= Len(ll.entries) /\ Len(ll.entries) <= Len(l.entries) + k
    /\ \A n \in 1..Len(l.entries) : ll.entries[n] = l.entries[n]

LEMMA ExtendsOneEntry ==
    ASSUME NEW l \in Ledgers, NEW i, NEW x, NEW ps, NEW id, NEW delta, NEW ll \in Ledgers,
           ll = AfterEntry(l, i, x, ps, id, delta)
    PROVE  /\ Extends(l, ll, 1) /\ Len(ll.entries) = Len(l.entries) + 1
           /\ ll.entries[Len(l.entries) + 1] = Entry(i, x, id, delta)
           /\ ll.positions = ps /\ ll.processed = l.processed \cup {x.key}
           /\ ll.cash = l.cash + x.net
<1>1. /\ ll.entries = Append(l.entries, Entry(i, x, id, delta)) /\ ll.positions = ps
      /\ ll.processed = l.processed \cup {x.key} /\ ll.cash = l.cash + x.net
  BY DEF AfterEntry
<1>2. l.entries \in Seq(Entries) /\ Len(l.entries) \in Nat
  BY LedgerFields
<1>3. /\ Len(ll.entries) = Len(l.entries) + 1
      /\ ll.entries[Len(l.entries) + 1] = Entry(i, x, id, delta)
      /\ \A n \in 1..Len(l.entries) : ll.entries[n] = l.entries[n]
  BY <1>1, <1>2
<1> QED BY <1>1, <1>2, <1>3 DEF Extends

-----------------------------------------------------------------------------
(* Entries.                                                                *)

Working(s) ==
    s = [ledger |-> s.ledger, managed |-> s.managed, entry |-> s.entry,
         slotUsed |-> s.slotUsed]

\* An entry adds to the ledger and to what is managed, and touches nothing else.
EntryEffect(s, r, i) ==
    /\ Extends(s.ledger, r.ledger, 1)
    /\ \A n \in (Len(s.ledger.entries) + 1)..Len(r.ledger.entries) :
          r.ledger.entries[n].key = i.key
    /\ Len(s.ledger.positions) <= Len(r.ledger.positions)
    /\ \A n \in 1..Len(s.ledger.positions) : r.ledger.positions[n] = s.ledger.positions[n]
    /\ \A n \in (Len(s.ledger.positions) + 1)..Len(r.ledger.positions) :
          r.ledger.positions[n].state = "OPEN"
    /\ \A id \in DOMAIN s.managed : id \in DOMAIN r.managed /\ r.managed[id] = s.managed[id]
    /\ r.entry \in {i, None}

\* What is managed after a purchase: the new position besides what was.
LEMMA ManagedAfterBuy ==
    ASSUME NEW t \in Nat, NEW at \in Nat, t <= at, NEW l, LedgerOK(l, t),
           NEW m, ManagedOK(l, m, t),
           NEW i \in EntryIntents, i.key \notin l.processed, OpenAt(l, i.mint) = {},
           NEW x, x.at = at, x.key = i.key, NewPosition(i, x) \in Positions,
           NEW ll, ll = AfterEntry(l, i, x, Append(l.positions, NewPosition(i, x)), i.key, 0),
           LedgerOK(ll, at)
    PROVE  /\ ManagedOK(ll, EnsureManagedAfterBuy(m, ll, i.mint), at)
           /\ \A id \in DOMAIN m :
                /\ id \in DOMAIN EnsureManagedAfterBuy(m, ll, i.mint)
                /\ EnsureManagedAfterBuy(m, ll, i.mint)[id] = m[id]
<1> DEFINE p == NewPosition(i, x)
           k == Len(l.positions) + 1
           mm == EnsureManagedAfterBuy(m, ll, i.mint)
<1>1. /\ p.id = i.key /\ p.mint = i.mint /\ p.state = "OPEN" /\ p.mark = None
      /\ p.updated = at /\ p \in Positions
  BY DEF NewPosition
<1> HIDE DEF p
<1>2. /\ l \in Ledgers /\ ll \in Ledgers
      /\ l.positions \in Seq(Positions) /\ DOMAIN l.positions = 1..Len(l.positions)
      /\ Len(l.positions) \in Nat
      /\ DOMAIN ll.positions = 1..Len(ll.positions)
  BY LedgerFields DEF LedgerOK
<1>3. ll.positions = Append(l.positions, p) /\ ll.processed = l.processed \cup {i.key}
  BY DEF p, AfterEntry
<1>4. /\ Len(ll.positions) = k /\ ll.positions[k] = p
      /\ \A n \in 1..Len(l.positions) : ll.positions[n] = l.positions[n]
  BY <1>1, <1>2, <1>3
<1>5. OpenIn(ll) = OpenIn(l) \cup {k} /\ k \in OpenIn(ll) /\ k \notin OpenIn(l)
  <2>1. OpenIn(l) = {n \in 1..Len(l.positions) : l.positions[n].state = "OPEN"}
    BY <1>2 DEF OpenIn
  <2>2. OpenIn(ll) = {n \in 1..Len(ll.positions) : ll.positions[n].state = "OPEN"}
    BY <1>2 DEF OpenIn
  <2>3. /\ 1..Len(ll.positions) = 1..Len(l.positions) \cup {k}
        /\ k \notin 1..Len(l.positions)
    BY <1>2, <1>4
  <2>4. \A n \in 1..Len(l.positions) :
           ll.positions[n].state = "OPEN" <=> l.positions[n].state = "OPEN"
    BY <1>4
  <2>5. ll.positions[k].state = "OPEN"
    BY <1>1, <1>4
  <2> HIDE DEF k
  <2> QED BY Zenon, <2>1, <2>2, <2>3, <2>4, <2>5
<1>6. FindOpen(ll, i.mint) = k
  BY <1>1, <1>2, <1>4, <1>5, FindOpenIs DEF LedgerOK
<1>7. \A n \in OpenIn(l) : /\ ll.positions[n] = l.positions[n]
                           /\ l.positions[n].id \in l.processed
                           /\ l.positions[n].id # p.id
  BY SMTT(30), <1>1, <1>2, <1>4 DEF OpenIn, LedgerOK, IdentitiesOK
<1>8. DOMAIN m = IdsOf(l, OpenIn(l)) /\ p.id \notin DOMAIN m
  BY SMTT(30), <1>7 DEF ManagedOK, IdsOf
<1>9. mm = [id \in DOMAIN m \cup {p.id} |->
                IF id = p.id THEN [exit |-> CreateExitState(p), pending |-> None] ELSE m[id]]
  BY <1>4, <1>6, <1>8 DEF EnsureManagedAfterBuy
<1> HIDE DEF mm
<1>10. DOMAIN mm = IdsOf(ll, OpenIn(ll))
  <2>1. IdsOf(ll, OpenIn(ll)) = IdsOf(l, OpenIn(l)) \cup {p.id}
    BY SMTT(30), <1>4, <1>5, <1>7 DEF IdsOf
  <2> QED BY <1>8, <1>9, <2>1
<1>11. ManagementOK(ll, p, mm[p.id], at)
  <2>1. mm[p.id] = [exit |-> CreateExitState(p), pending |-> None]
    BY <1>9
  <2>2. CreateExitState(p) = [opened |-> at, evaluated |-> at, done |-> {}, high |-> p.entry]
    BY <1>1 DEF CreateExitState
  <2>3. p.entry \in Nat
    BY <1>1, PositionFields
  <2>4. ASSUME NEW key \in ll.processed, key[1] = "SELL" PROVE key[2] # p.id
    <3>1. i.key[1] # "SELL"
      BY BuyKeyFacts DEF EntryIntents
    <3>2. key \in l.processed
      BY <1>3, <2>4, <3>1
    <3>3. PICK n \in 1..Len(l.positions) : l.positions[n].id = key[2]
      BY <2>4, <3>2 DEF LedgerOK, ExitKeysOK
    <3> QED BY <1>1, <3>3 DEF LedgerOK, IdentitiesOK
  <2>5. CreateExitState(p) \in ExitStates
    BY <2>2, <2>3 DEF ExitStates
  <2>6. p.mark = None
    BY <1>1
  <2> QED BY <2>1, <2>2, <2>4, <2>5, <2>6 DEF ManagementOK, PendingOK
<1>12. ASSUME NEW n \in OpenIn(l)
       PROVE  ManagementOK(ll, ll.positions[n], mm[ll.positions[n].id], at)
  <2>1. ManagementOK(l, l.positions[n], m[l.positions[n].id], t)
    BY DEF ManagedOK
  <2>2. i.key[1] # "SELL"
    BY BuyKeyFacts DEF EntryIntents
  <2>3. ManagementOK(ll, l.positions[n], m[l.positions[n].id], at)
    BY SMTT(30), <1>3, <2>1, <2>2, ManagementKept
  <2>4. l.positions[n].id \in DOMAIN m
    BY SMTT(30), <1>8 DEF IdsOf
  <2> QED BY <1>7, <1>9, <2>3, <2>4
<1>13. ManagedOK(ll, mm, at)
  BY <1>4, <1>5, <1>10, <1>11, <1>12 DEF ManagedOK
<1>14. \A id \in DOMAIN m : id \in DOMAIN mm /\ mm[id] = m[id]
  BY <1>8, <1>9
<1> QED BY <1>13, <1>14 DEF mm

\* What executing an entry may compute.
Executed(s, i, cycle, r) ==
    /\ Working(r) /\ r.slotUsed = TRUE
    /\ StateOK(r, cycle.at) /\ EntryEffect(s, r, i)

CycleOK(cycle) ==
    /\ cycle.at \in Nat
    /\ cycle.candidates \in Seq(Candidates)
    /\ \A m \in Mints : cycle.quotes[m] \in CycleQuotes \cup {None}

LEMMA EntryBought ==
    ASSUME NEW t \in Nat, NEW at \in Nat, t <= at, NEW s, Working(s), StateOK(s, t),
           NEW i \in EntryIntents, OpenAt(s.ledger, i.mint) = {}, RoomFor(s.ledger, i),
           NEW q, NEW x, ExecutionOK(i, q, at, x), Bought(i, x, s.ledger),
           NewPosition(i, x) \in Positions, i.key \notin s.ledger.processed,
           NEW l, l = AfterEntry(s.ledger, i, x,
                                 Append(s.ledger.positions, NewPosition(i, x)), i.key, 0),
           LedgerOK(l, at),
           NEW r, r = [ledger |-> l, managed |-> EnsureManagedAfterBuy(s.managed, l, i.mint),
                       entry |-> None, slotUsed |-> TRUE]
    PROVE  StateOK(r, at) /\ EntryEffect(s, r, i)
<1> DEFINE old == s.ledger
           p == NewPosition(i, x)
<1>1. /\ old \in Ledgers /\ l \in Ledgers /\ old.positions \in Seq(Positions)
      /\ Len(old.positions) \in Nat
      /\ LedgerOK(old, t) /\ ManagedOK(old, s.managed, t)
  BY LedgerFields DEF StateOK, LedgerOK
<1>2. /\ r.ledger = l /\ r.entry = None
      /\ r.managed = EnsureManagedAfterBuy(s.managed, l, i.mint)
  OBVIOUS
<1>3. x.key = i.key /\ x.at = at
  BY DEF ExecutionOK
<1>4. /\ Extends(old, l, 1) /\ Len(l.entries) = Len(old.entries) + 1
      /\ l.entries[Len(old.entries) + 1] = Entry(i, x, i.key, 0)
      /\ l.positions = Append(old.positions, p)
  <2> DEFINE ps == Append(old.positions, p)
  <2>1. l = AfterEntry(old, i, x, ps, i.key, 0)
    OBVIOUS
  <2> HIDE DEF old, ps
  <2>2. /\ Extends(old, l, 1) /\ Len(l.entries) = Len(old.entries) + 1
        /\ l.entries[Len(old.entries) + 1] = Entry(i, x, i.key, 0)
        /\ l.positions = ps
    BY <1>1, <2>1, ExtendsOneEntry
  <2> QED BY <2>2 DEF ps
<1>5. /\ ManagedOK(l, r.managed, at)
      /\ \A id \in DOMAIN s.managed : id \in DOMAIN r.managed /\ r.managed[id] = s.managed[id]
  <2> HIDE DEF old
  <2> QED BY <1>1, <1>2, <1>3, ManagedAfterBuy DEF old
<1>6. RiskOK(l, None)
  <2>1. FillOK(i, q, x)
    BY DEF ExecutionOK, Bought
  <2>2. /\ x.fill \in 1..i.notional
        /\ x.cost = (x.fill * SwapFeeBps) \div 10000 + NetworkFee
    BY <2>1 DEF FillOK
  <2>3. i.notional \in Nat /\ i.notional <= TargetNotional /\ TargetNotional \in Nat
    BY LoopAssumption DEF EntryIntents, RoomFor
  <2>4. x.cost \in Nat /\ x.cost <= EntryCosts
    <3>1. x.fill \in Nat /\ x.fill <= TargetNotional
      BY <2>2, <2>3
    <3> QED BY <2>2, <3>1, CostIsNat, CostWithin
  <2>5. p \in Positions /\ p.basis = x.fill + x.cost /\ p.state = "OPEN"
    BY DEF NewPosition
  <2> HIDE DEF p, old
  <2>6. RoomFor(old, i)
    BY DEF old
  <2>7. x.fill \in 1..i.notional
    BY <2>2
  <2> HIDE <2>2
  <2> QED BY <1>1, <1>4, <2>3, <2>4, <2>5, <2>6, <2>7, RiskOfEntry
<1>7. StateOK(r, at)
  BY SMTT(30), <1>2, <1>5, <1>6 DEF StateOK, EntryOK
<1>8. /\ Len(old.positions) <= Len(l.positions)
      /\ \A n \in 1..Len(old.positions) : l.positions[n] = old.positions[n]
      /\ \A n \in (Len(old.positions) + 1)..Len(l.positions) : l.positions[n].state = "OPEN"
  <2>1. p \in Positions /\ p.state = "OPEN"
    BY DEF NewPosition
  <2> HIDE DEF p, old
  <2> QED BY SMTT(30), <1>1, <1>4, <2>1
<1>9. \A n \in (Len(old.entries) + 1)..Len(l.entries) : l.entries[n].key = i.key
  <2>1. Entry(i, x, i.key, 0).key = i.key
    BY DEF Entry
  <2>2. Len(old.entries) \in Nat
    BY <1>1, LedgerFields
  <2> HIDE DEF old
  <2> QED BY <1>4, <2>1, <2>2
<1>10. EntryEffect(s, r, i)
  BY <1>2, <1>4, <1>5, <1>8, <1>9, Zenon DEF EntryEffect
<1> QED BY <1>7, <1>10

LEMMA ExecuteEntryOK ==
    ASSUME NEW cycle, CycleOK(cycle), NEW t \in Nat, t <= cycle.at,
           NEW s, Working(s), StateOK(s, t),
           NEW i \in EntryIntents, i.asOf <= cycle.at,
           OpenAt(s.ledger, i.mint) = {}, RoomFor(s.ledger, i)
    PROVE  Executed(s, i, cycle, ExecuteEntry(s, i, cycle))
<1> DEFINE at == cycle.at
           q == cycle.quotes[i.mint]
           x == ExecutePaperIntent(i, at, q, s.ledger.processed)
           l == ApplyPaperExecution(s.ledger, i, x)
           r == ExecuteEntry(s, i, cycle)
<1>1. at \in Nat /\ q \in CycleQuotes \cup {None}
  BY DEF CycleOK, EntryIntents
<1>2. ExecutionOK(i, q, at, x)
  <2>1. IntentOK(i)
    BY DEF IntentOK, EntryIntents, Sides
  <2> HIDE DEF at, q
  <2> QED BY <1>1, <2>1, ExecutionShape
<1>3. r = IF x.state = "DEFERRED" THEN [s EXCEPT !.entry = i, !.slotUsed = TRUE]
          ELSE [ledger |-> l,
                managed |-> IF Bought(i, x, s.ledger)
                            THEN EnsureManagedAfterBuy(s.managed, l, i.mint)
                            ELSE s.managed,
                entry |-> None, slotUsed |-> TRUE]
  BY DEF ExecuteEntry
<1> HIDE DEF r, q, x, l
<1>4. /\ LedgerOK(s.ledger, at) /\ ManagedOK(s.ledger, s.managed, at)
      /\ s.ledger \in Ledgers /\ Len(s.ledger.entries) \in Nat
      /\ s.ledger.positions \in Seq(Positions) /\ Len(s.ledger.positions) \in Nat
  BY <1>1, LedgerLater, ManagedLater, LedgerFields DEF StateOK, LedgerOK
<1>5. i # None /\ i.notional \in Nat /\ i.key \in BuyKeys /\ i.key[1] # "SELL"
  BY NoneAssumption, BuyKeyFacts DEF EntryIntents
<1>6. RiskOK(s.ledger, None)
  BY DEF StateOK, RiskOK
<1>7. CASE x.state = "DEFERRED"
  <2>1. /\ r = [ledger |-> s.ledger, managed |-> s.managed, entry |-> i, slotUsed |-> TRUE]
    BY <1>3, <1>7 DEF Working
  <2>2. RiskOK(s.ledger, i)
    BY <1>6 DEF RiskOK
  <2>3. StateOK(r, at)
    BY <1>4, <2>1, <2>2 DEF StateOK, EntryOK
  <2>4. EntryEffect(s, r, i)
    BY SMTT(30), <1>4, <2>1 DEF EntryEffect, Extends
  <2> QED BY <2>1, <2>3, <2>4 DEF Executed, Working, r
<1>8. CASE x.state # "DEFERRED"
  <2>1. EntryBooked(s.ledger, i, x, l) /\ LedgerOK(l, at)
    <3> HIDE DEF at
    <3>1. LedgerOK(s.ledger, t) /\ t <= at
      BY DEF StateOK, at
    <3> QED BY <1>1, <1>2, <1>8, <3>1, EntryBooking DEF l
  <2>2. r.slotUsed = TRUE /\ r.entry = None /\ r.ledger = l /\ Working(r)
    BY <1>3, <1>8 DEF Working
  <2>3. CASE Bought(i, x, s.ledger)
    <3>1. /\ NewPosition(i, x) \in Positions /\ i.key \notin s.ledger.processed
          /\ l = AfterEntry(s.ledger, i, x,
                            Append(s.ledger.positions, NewPosition(i, x)), i.key, 0)
      BY <2>1, <2>3 DEF EntryBooked, Bought, Fills
    <3>2. r = [ledger |-> l, managed |-> EnsureManagedAfterBuy(s.managed, l, i.mint),
               entry |-> None, slotUsed |-> TRUE]
      BY <1>3, <1>8, <2>3
    <3>3. StateOK(r, at) /\ EntryEffect(s, r, i)
      <4> HIDE DEF at
      <4>1. t <= at
        BY DEF at
      <4> QED BY <1>1, <1>2, <2>1, <2>3, <3>1, <3>2, <4>1, EntryBought
    <3> QED BY <2>2, <3>3 DEF Executed, r
  <2>4. CASE ~Bought(i, x, s.ledger)
    <3>1. r.managed = s.managed
      BY <1>3, <1>8, <2>4
    <3>2. \/ l = s.ledger
          \/ l = AfterEntry(s.ledger, i, x, s.ledger.positions, None, x.net)
      BY <2>1, <2>4 DEF EntryBooked
    <3>3. CASE l = s.ledger
      <4>1. StateOK(r, at)
        BY <1>4, <1>6, <2>2, <3>1, <3>3 DEF StateOK, EntryOK
      <4>2. EntryEffect(s, r, i)
        <5>1. r.ledger = s.ledger /\ r.managed = s.managed /\ r.entry = None
          BY <2>2, <3>1, <3>3
        <5>2. /\ (Len(s.ledger.entries) + 1)..Len(s.ledger.entries) = {}
              /\ (Len(s.ledger.positions) + 1)..Len(s.ledger.positions) = {}
          BY SMTT(30), <1>4
        <5> HIDE <3>3
        <5> QED BY SMTT(30), <1>4, <5>1, <5>2 DEF EntryEffect, Extends
      <4> QED BY <2>2, <4>1, <4>2 DEF Executed, r
    <3>4. CASE l = AfterEntry(s.ledger, i, x, s.ledger.positions, None, x.net)
      <4>1. /\ Extends(s.ledger, l, 1) /\ Len(l.entries) = Len(s.ledger.entries) + 1
            /\ l.entries[Len(s.ledger.entries) + 1] = Entry(i, x, None, x.net)
            /\ l.positions = s.ledger.positions
            /\ l.processed = s.ledger.processed \cup {i.key}
        <5>1. l \in Ledgers /\ x.key = i.key
          BY <1>2, <2>1 DEF LedgerOK, ExecutionOK
        <5> DEFINE old == s.ledger
        <5>2. old \in Ledgers /\ l = AfterEntry(old, i, x, old.positions, None, x.net)
          BY <1>4, <3>4
        <5> HIDE DEF old
        <5>3. /\ Extends(old, l, 1) /\ Len(l.entries) = Len(old.entries) + 1
              /\ l.entries[Len(old.entries) + 1] = Entry(i, x, None, x.net)
              /\ l.positions = old.positions
              /\ l.processed = old.processed \cup {i.key}
          BY <5>1, <5>2, ExtendsOneEntry
        <5> QED BY <5>3 DEF old
      <4>2. Entry(i, x, None, x.net).key = i.key
        BY DEF Entry
      <4>3. ManagedOK(l, s.managed, at)
        <5>1. OpenIn(l) = OpenIn(s.ledger) /\ IdsOf(l, OpenIn(l)) = IdsOf(s.ledger, OpenIn(s.ledger))
          BY <4>1 DEF OpenIn, IdsOf
        <5>2. ASSUME NEW n \in OpenIn(l)
              PROVE  ManagementOK(l, l.positions[n], s.managed[l.positions[n].id], at)
          <6> DEFINE p == l.positions[n]
                     m == s.managed[p.id]
                     old == s.ledger
                     key == i.key
          <6>1. ManagementOK(old, p, m, at)
            BY <1>4, <4>1, <5>1 DEF ManagedOK
          <6>2. l.processed \subseteq old.processed \cup {key} /\ key[1] # "SELL"
            BY <1>5, <4>1
          <6> HIDE DEF p, m, old, key, at
          <6>3. ManagementOK(l, p, m, at)
            BY <1>1, <6>1, <6>2, ManagementKept
          <6> QED BY <6>3 DEF p, m
        <5> QED BY <1>4, <5>1, <5>2 DEF ManagedOK
      <4>4. RiskOK(l, None)
        <5> DEFINE old == s.ledger
        <5>1. old.positions \in Seq(Positions) /\ l.positions = old.positions /\ RiskOK(old, None)
          BY <1>4, <1>6, <4>1
        <5> HIDE DEF old
        <5> QED BY <5>1, RiskLater
      <4>5. StateOK(r, at)
        BY <2>1, <2>2, <3>1, <4>3, <4>4 DEF StateOK, EntryOK
      <4>6. EntryEffect(s, r, i)
        <5> DEFINE old == s.ledger
        <5>1. \A n \in (Len(old.entries) + 1)..Len(l.entries) : l.entries[n].key = i.key
          BY <1>4, <4>1, <4>2
        <5>2. /\ Len(old.positions) <= Len(l.positions)
              /\ \A n \in 1..Len(old.positions) : l.positions[n] = old.positions[n]
              /\ \A n \in (Len(old.positions) + 1)..Len(l.positions) :
                    l.positions[n].state = "OPEN"
          BY <1>4, <4>1
        <5>3. Extends(old, l, 1)
          BY <4>1
        <5>4. \A id \in DOMAIN s.managed :
                 id \in DOMAIN r.managed /\ r.managed[id] = s.managed[id]
          BY <3>1
        <5>5. r.entry \in {i, None} /\ r.ledger = l
          BY <2>2
        <5> HIDE <3>4
        <5> QED BY <5>1, <5>2, <5>3, <5>4, <5>5 DEF EntryEffect
      <4> QED BY <2>2, <4>5, <4>6 DEF Executed, r
    <3> QED BY <3>2, <3>3, <3>4
  <2> QED BY <2>3, <2>4
<1> QED BY <1>7, <1>8

\* Working the candidates is working them one after the other.
CandidateSteps(f, s, before, cycle) ==
    /\ f[0] = s /\ f[Len(cycle.candidates)] = WorkCandidates(s, before, cycle)
    /\ \A n \in 1..Len(cycle.candidates) :
          f[n] = WorkCandidate(f[n - 1], cycle.candidates[n], before, cycle)

LEMMA CandidatesWorked ==
    ASSUME NEW s, NEW before, NEW cycle, Len(cycle.candidates) \in Nat
    PROVE  \E f : CandidateSteps(f, s, before, cycle)
<1> DEFINE len == Len(cycle.candidates)
           Step(f, n) == WorkCandidate(f[n - 1], cycle.candidates[n], before, cycle)
           UpTo(f, N) == f = [n \in 0..N |-> IF n = 0 THEN s ELSE Step(f, n)]
           S == {N \in Nat : \E f : UpTo(f, N)}
<1>1. 0 \in S
  <2> DEFINE f == [n \in 0..0 |-> s]
  <2>1. UpTo(f, 0)
    OBVIOUS
  <2> QED BY <2>1
<1>2. ASSUME NEW N \in Nat, N \in S PROVE N + 1 \in S
  <2>1. PICK f : UpTo(f, N)
    BY <1>2
  <2> DEFINE g == [n \in 0..(N + 1) |->
                      IF n = N + 1
                      THEN WorkCandidate(f[N], cycle.candidates[N + 1], before, cycle)
                      ELSE f[n]]
  <2>2. ASSUME NEW n \in 0..(N + 1)
        PROVE  g[n] = IF n = 0 THEN s ELSE Step(g, n)
    <3>1. CASE n = N + 1
      <4>1. /\ g[n] = WorkCandidate(f[N], cycle.candidates[n], before, cycle)
            /\ n # 0 /\ n - 1 = N /\ N \in 0..(N + 1) /\ N # N + 1
        BY <3>1
      <4>2. g[n - 1] = f[N]
        BY <4>1
      <4> QED BY <3>1, <4>1, <4>2
    <3>2. CASE n \in 0..N
      <4>1. g[n] = f[n] /\ n # N + 1
        BY <3>2
      <4>2. f[n] = IF n = 0 THEN s ELSE Step(f, n)
        BY <2>1, <3>2
      <4>3. n # 0 => g[n - 1] = f[n - 1]
        BY <3>2
      <4> QED BY <4>1, <4>2, <4>3
    <3> QED BY <3>1, <3>2
  <2>3. UpTo(g, N + 1)
    <3>1. g = [n \in 0..(N + 1) |-> g[n]]
      OBVIOUS
    <3> HIDE DEF g, Step
    <3> QED BY <2>2, <3>1
  <2> HIDE DEF UpTo, g
  <2> QED BY <2>3
<1> HIDE DEF S
<1>3. len \in S
  <2> HIDE DEF len
  <2>1. len \in Nat
    BY DEF len
  <2> QED BY <1>1, <1>2, <2>1, Induction
<1> DEFINE h == CHOOSE f : UpTo(f, len)
<1>4. UpTo(h, len)
  BY <1>3 DEF S
<1>5. WorkCandidates(s, before, cycle) = h[len]
  BY DEF WorkCandidates
<1> HIDE DEF h
<1>6. \A n \in 0..len : h[n] = IF n = 0 THEN s ELSE Step(h, n)
  <2> HIDE DEF Step
  <2> QED BY <1>4
<1>7. h[0] = s /\ \A n \in 1..len : h[n] = Step(h, n)
  <2> HIDE DEF Step
  <2> QED BY <1>6
<1> QED BY <1>5, <1>7 DEF CandidateSteps

\* What a cycle enters was left pending, or approved in it.
Origin(w, i, cycle) ==
    \/ i = w.entry
    \/ \E n \in 1..Len(cycle.candidates) : cycle.candidates[n].approved

\* The state after entries: nothing was entered, or one intent was.
Entered(w, e, cycle) ==
    /\ Working(e) /\ StateOK(e, cycle.at)
    /\ \/ e = w /\ w.entry = None
       \/ /\ e.slotUsed
          /\ \E i \in EntryIntents : Origin(w, i, cycle) /\ EntryEffect(w, e, i)

\* An approved candidate makes an intent for which there is room.
LEMMA CandidateIntent ==
    ASSUME NEW l, l.positions \in Seq(Positions), NEW c \in Candidates, NEW at \in Nat,
           RiskAccepts(l, c)
    PROVE  /\ EntryIntent(l, c, at) \in EntryIntents
           /\ RoomFor(l, EntryIntent(l, c, at))
           /\ EntryIntent(l, c, at).mint = c.mint /\ EntryIntent(l, c, at).asOf = at
<1> DEFINE i == EntryIntent(l, c, at)
<1>1. /\ MaxRisk \in Nat /\ TargetNotional \in Nat \ {0} /\ MaxSlippage \in Nat
      /\ OpenRisk(l) \in Nat
  BY LoopAssumption, OpenRiskIs
<1>2. /\ RequestedNotional(l) \in Nat \ {0} /\ RequestedNotional(l) <= TargetNotional
      /\ OpenRisk(l) + RequestedNotional(l) <= MaxRisk
  BY <1>1 DEF RequestedNotional, RiskAccepts
<1>3. <<"BUY", c.mint, at>> \in BuyKeys /\ c.mint \in Mints
  BY DEF BuyKeys, Candidates
<1>4. i \in EntryIntents /\ i.notional = RequestedNotional(l) /\ i.mint = c.mint /\ i.asOf = at
  BY <1>1, <1>2, <1>3 DEF EntryIntent, EntryIntents
<1> HIDE DEF i
<1>5. RoomFor(l, i)
  BY <1>2, <1>4 DEF RoomFor, RiskAccepts
<1> QED BY <1>4, <1>5 DEF i

\* The entries of a cycle.
LEMMA EntriesOK ==
    ASSUME NEW cycle, CycleOK(cycle), NEW t \in Nat, t <= cycle.at,
           NEW w, Working(w), StateOK(w, t), w.slotUsed = FALSE
    PROVE  Entered(w, WorkCandidates(WorkPendingEntry(w, cycle), w.ledger, cycle), cycle)
<1> DEFINE s == WorkPendingEntry(w, cycle)
           len == Len(cycle.candidates)
<1>1. len \in Nat /\ cycle.at \in Nat /\ \A n \in 1..len : cycle.candidates[n] \in Candidates
  BY ElementOfSeq, LenProperties DEF CycleOK
<1>2. Entered(w, s, cycle)
  <2>1. CASE w.entry = None
    <3>1. s = w
      BY <2>1 DEF WorkPendingEntry
    <3>2. StateOK(w, cycle.at)
      <4>1. LedgerOK(w.ledger, cycle.at) /\ ManagedOK(w.ledger, w.managed, cycle.at)
        BY <1>1, LedgerLater, ManagedLater DEF StateOK
      <4> QED BY <2>1, <4>1 DEF StateOK, EntryOK
    <3> QED BY <2>1, <3>1, <3>2 DEF Entered
  <2>2. CASE w.entry # None
    <3> DEFINE i == w.entry
    <3>1. s = ExecuteEntry(w, i, cycle)
      BY <2>2 DEF WorkPendingEntry
    <3>2. /\ i \in EntryIntents /\ i.asOf <= t /\ OpenAt(w.ledger, i.mint) = {}
          /\ RoomFor(w.ledger, i)
      BY <2>2 DEF StateOK, EntryOK, RiskOK
    <3>3. i.asOf <= cycle.at
      BY <1>1, <3>2 DEF EntryIntents
    <3> HIDE DEF i, s
    <3>4. Executed(w, i, cycle, s)
      BY <3>1, <3>2, <3>3, ExecuteEntryOK
    <3> QED BY <3>2, <3>4 DEF Executed, Entered, Origin, i
  <2> QED BY <2>1, <2>2
<1> HIDE DEF s
<1>3. PICK f : CandidateSteps(f, s, w.ledger, cycle)
  BY <1>1, CandidatesWorked
<1> DEFINE S == {n \in 0..len : Entered(w, f[n], cycle)}
<1>4. 0 \in S
  BY <1>1, <1>2, <1>3 DEF CandidateSteps
<1>5. ASSUME NEW n \in 1..len, n - 1 \in S PROVE n \in S
  <2> DEFINE v == f[n - 1]
             c == cycle.candidates[n]
             i == EntryIntent(w.ledger, c, cycle.at)
  <2>1. f[n] = WorkCandidate(v, c, w.ledger, cycle) /\ n \in 0..len /\ c \in Candidates
    BY <1>1, <1>3 DEF CandidateSteps
  <2>2. Entered(w, v, cycle)
    BY <1>5
  <2>3. CASE f[n] = v
    BY <2>1, <2>2, <2>3
  <2>4. CASE f[n] # v
    <3>1. /\ ~v.slotUsed /\ OpenAt(v.ledger, c.mint) = {} /\ RiskAccepts(w.ledger, c)
          /\ f[n] = ExecuteEntry(v, i, cycle)
      BY <2>1, <2>4 DEF WorkCandidate, Selectable
    <3>2. v = w
      BY <2>2, <3>1 DEF Entered
    <3>3. /\ i \in EntryIntents /\ RoomFor(w.ledger, i)
          /\ i.mint = c.mint /\ i.asOf = cycle.at
      <4>1. w.ledger.positions \in Seq(Positions)
        BY LedgerFields DEF StateOK, LedgerOK
      <4> HIDE DEF c
      <4> QED BY <1>1, <2>1, <3>1, <4>1, CandidateIntent
    <3>4. i.asOf <= cycle.at /\ OpenAt(w.ledger, i.mint) = {}
      BY <1>1, <3>1, <3>2, <3>3
    <3>5. c.approved
      BY <3>1 DEF RiskAccepts
    <3> HIDE DEF v, i
    <3>6. Executed(w, i, cycle, f[n])
      BY <3>1, <3>2, <3>3, <3>4, ExecuteEntryOK
    <3>7. Entered(w, f[n], cycle)
      BY <3>3, <3>5, <3>6 DEF Executed, Entered, Origin
    <3> QED BY <2>1, <3>7
  <2> QED BY <2>3, <2>4
<1>6. 0..len \subseteq S
  <2> HIDE DEF S, len
  <2> QED BY <1>1, <1>4, <1>5, BoundedInduction
<1> QED BY <1>1, <1>3, <1>6 DEF CandidateSteps, s

-----------------------------------------------------------------------------
(* What the exit engine answers.                                           *)

Rank(t) == CHOOSE k \in DOMAIN Precedence : Precedence[k] = t

LEMMA RankIs ==
    /\ Rank("GLOBAL_HALT") = 1 /\ Rank("MAX_HOLD") = 2 /\ Rank("MARKET_ALARM") = 3
    /\ Rank("HARD_STOP") = 4 /\ Rank("TRAILING_STOP") = 5 /\ Rank("FLOW_ALARM") = 6
    /\ Rank("TAKE_PROFIT") = 7
    /\ Triggers = {"GLOBAL_HALT", "MAX_HOLD", "MARKET_ALARM", "HARD_STOP",
                   "TRAILING_STOP", "FLOW_ALARM", "TAKE_PROFIT"}
<1>1. DOMAIN Precedence = 1..7
  BY DEF Precedence
<1>2. /\ Precedence[1] = "GLOBAL_HALT" /\ Precedence[2] = "MAX_HOLD"
      /\ Precedence[3] = "MARKET_ALARM" /\ Precedence[4] = "HARD_STOP"
      /\ Precedence[5] = "TRAILING_STOP" /\ Precedence[6] = "FLOW_ALARM"
      /\ Precedence[7] = "TAKE_PROFIT"
  BY DEF Precedence
<1>3. \A m \in 1..7 : m = 1 \/ m = 2 \/ m = 3 \/ m = 4 \/ m = 5 \/ m = 6 \/ m = 7
  OBVIOUS
<1>4. \A m, n \in 1..7 : Precedence[m] = Precedence[n] => m = n
  BY <1>2, <1>3
<1>5. ASSUME NEW m \in 1..7 PROVE Rank(Precedence[m]) = m
  BY <1>1, <1>4 DEF Rank
<1>6. Triggers = {Precedence[1], Precedence[2], Precedence[3], Precedence[4],
                  Precedence[5], Precedence[6], Precedence[7]}
  BY <1>1, <1>3 DEF Triggers
<1> QED BY <1>2, <1>5, <1>6

\* The primary trigger is one of the triggers, and none goes before it.
LEMMA PrimaryIs ==
    ASSUME NEW T, T \subseteq Triggers, T # {}
    PROVE  Primary(T) \in T /\ \A u \in T : Rank(Primary(T)) <= Rank(u)
<1>1. \A t \in T : Rank(t) \in 1..7
  BY RankIs
<1>2. \E t \in T : \A u \in T : Rank(t) <= Rank(u)
  <2> DEFINE least == {k \in 1..7 : \E t \in T : Rank(t) = k}
  <2>1. \E k \in least : \A j \in least : k <= j
    <3>1. \E k \in least : TRUE
      BY <1>1
    <3>2. least \subseteq 1..7
      OBVIOUS
    <3> HIDE DEF least
    <3>3. \/ 1 \in least \/ 2 \in least \/ 3 \in least \/ 4 \in least \/ 5 \in least
          \/ 6 \in least \/ 7 \in least
      BY <3>1, <3>2
    <3> QED BY <3>2, <3>3
  <2> QED BY <1>1, <2>1
<1>3. Primary(T) = CHOOSE t \in T : \A u \in T : Rank(t) <= Rank(u)
  BY DEF Primary, Rank
<1> QED BY <1>2, <1>3

\* A share is at least an atom and at most everything, which all of it is.
LEMMA ShareBounds ==
    ASSUME NEW q \in Nat \ {0}, NEW c \in 1..100
    PROVE  Share(q, c) \in 1..q /\ Share(q, 100) = q
<1>1. ASSUME NEW a \in Nat, a >= 100, a < 100 * (q + 1)
      PROVE  a \div 100 \in 1..q
  BY <1>1
<1>2. q * c \in Nat /\ q * c >= 1 /\ q * c <= q * 100
  OBVIOUS
<1>3. (q * c + 99) \div 100 \in 1..q
  <2> DEFINE a == q * c + 99
  <2>1. a \in Nat /\ a >= 100 /\ a < 100 * (q + 1)
    BY <1>2
  <2> HIDE DEF a
  <2>2. a \div 100 \in 1..q
    BY <1>1, <2>1
  <2> QED BY <2>2 DEF a
<1>4. (q * 100 + 99) \div 100 = q
  OBVIOUS
<1> QED BY <1>3, <1>4 DEF Share

ObservationOK(o) ==
    /\ o.halt \in BOOLEAN /\ o.signals \subseteq Signals
    /\ o.price \in (Nat \ {0}) \cup {None}

\* An assessment keeps the exit state's history, raises its high-water price to
\* the price it saw, and decides something that fits the position.
AssessedAs(p, s, at, d) ==
    /\ d \in Decisions
    /\ d.state.opened = s.opened /\ d.state.done = s.done
    /\ d.state.evaluated \in {s.evaluated, at} /\ d.state.high >= s.high
    /\ d.price # None => d.state.high >= d.price
    /\ d.action # "HOLD" =>
          DecisionFits(p, d) /\ d.asOf = at /\ d.state.evaluated = at

LEMMA HoldIs ==
    ASSUME NEW s \in ExitStates, NEW price \in (Nat \ {0}) \cup {None}
    PROVE  /\ Hold(s, price) \in Decisions /\ Hold(s, price).action = "HOLD"
           /\ Hold(s, price).state = s /\ Hold(s, price).price = price
<1>1. s.evaluated \in Nat
  BY DEF ExitStates
<1> QED BY <1>1 DEF Hold, Decisions

LEMMA ExitAllIs ==
    ASSUME NEW p, p.qty \in Nat \ {0}, NEW s \in ExitStates,
           NEW reason \in Triggers \ {"TAKE_PROFIT"},
           NEW level \in (DOMAIN TakeProfits) \cup {None},
           NEW price \in (Nat \ {0}) \cup {None},
           NEW d, d = ExitAll(p, s, reason, level, price)
    PROVE  /\ d \in Decisions /\ d.action = "EXIT" /\ d.state = s /\ d.price = price
           /\ d.asOf = s.evaluated /\ DecisionFits(p, d)
<1>1. s.evaluated \in Nat /\ reason \in Triggers \cup {"NONE"}
      /\ reason # "TAKE_PROFIT"
  BY DEF ExitStates
<1>2. d = [action |-> "EXIT", reason |-> reason, qty |-> p.qty, level |-> level,
           price |-> price, asOf |-> s.evaluated, state |-> s]
  BY DEF ExitAll
<1>3. d \in Decisions
  BY <1>1, <1>2 DEF Decisions
<1>4. DecisionFits(p, d)
  BY <1>1, <1>2, <1>3 DEF DecisionFits
<1> QED BY <1>2, <1>3, <1>4

LEMMA TakeProfitIs ==
    ASSUME NEW p, p.qty \in Nat \ {0}, NEW s \in ExitStates,
           NEW level \in DOMAIN TakeProfits, NEW price \in (Nat \ {0}) \cup {None}
    PROVE  LET d == TakeProfit(p, s, level, price)
           IN  /\ d \in Decisions /\ d.action # "HOLD" /\ d.state = s /\ d.price = price
               /\ d.asOf = s.evaluated /\ DecisionFits(p, d)
<1> DEFINE d == TakeProfit(p, s, level, price)
           percent == TakeProfits[level].reduce
           action == IF percent = 100 THEN "EXIT" ELSE "REDUCE"
           qty == Share(p.qty, percent)
<1>1. s.evaluated \in Nat /\ percent \in 1..100 /\ "TAKE_PROFIT" \in Triggers
  BY ExitPolicyAssumption, RankIs DEF ExitStates
<1>2. qty \in 1..p.qty /\ (percent = 100 => qty = p.qty)
  BY ZenonT(40), <1>1, ShareBounds
<1>3. d = [action |-> action, reason |-> "TAKE_PROFIT", qty |-> qty, level |-> level,
           price |-> price, asOf |-> s.evaluated, state |-> s]
  <2> DEFINE all == ExitAll(p, s, "TAKE_PROFIT", level, price)
  <2>1. all = [action |-> "EXIT", reason |-> "TAKE_PROFIT", qty |-> p.qty,
               level |-> level, price |-> price, asOf |-> s.evaluated, state |-> s]
    BY DEF ExitAll
  <2>2. d = [all EXCEPT !.action = action, !.qty = qty]
    BY DEF TakeProfit
  <2> HIDE DEF all, action, qty, d
  <2> QED BY <2>1, <2>2
<1>4. qty \in Nat /\ action \in {"REDUCE", "EXIT"}
  BY <1>2
<1> HIDE DEF d
<1>5. d \in Decisions
  <2> HIDE DEF qty, action
  <2> QED BY <1>1, <1>3, <1>4 DEF Decisions
<1>6. DecisionFits(p, d)
  <2>1. d.qty = qty /\ d.level = level /\ d.action = action /\ d.reason = "TAKE_PROFIT"
    <3> HIDE DEF qty, action
    <3> QED BY <1>3
  <2>2. d.action = "EXIT" => d.qty = p.qty
    BY <1>2, <2>1
  <2>3. d.qty >= Share(p.qty, TakeProfits[d.level].reduce)
    <3>1. qty = Share(p.qty, TakeProfits[d.level].reduce)
      BY <2>1
    <3>2. qty \in Int
      BY <1>4
    <3> HIDE DEF qty
    <3>3. qty >= qty
      BY <3>2
    <3> QED BY <2>1, <3>1, <3>3
  <2> HIDE DEF qty, action
  <2> QED BY <1>2, <1>4, <1>5, <2>1, <2>2, <2>3 DEF DecisionFits
<1>7. d.action # "HOLD" /\ d.state = s /\ d.price = price /\ d.asOf = s.evaluated
  <2> HIDE DEF qty
  <2> QED BY <1>3
<1> QED BY <1>5, <1>6, <1>7 DEF d

LEMMA AssessExitOK ==
    ASSUME NEW p \in Positions, p.qty > 0, NEW s \in ExitStates, NEW at \in Nat,
           s.opened <= s.evaluated, s.evaluated <= at,
           NEW o, ObservationOK(o)
    PROVE  /\ AssessedAs(p, s, at, AssessExit(p, s, o, at))
           /\ o.halt => AssessExit(p, s, o, at).action = "EXIT"
<1> DEFINE d == AssessExit(p, s, o, at)
<1>1. /\ s.opened \in Nat /\ s.evaluated \in Nat /\ s.high \in Nat
      /\ s.done \subseteq DOMAIN TakeProfits /\ p.qty \in Nat \ {0}
  BY PositionFields DEF ExitStates
<1>2. Forced(s, o, at) \subseteq {"GLOBAL_HALT", "MAX_HOLD"}
      /\ (o.halt => "GLOBAL_HALT" \in Forced(s, o, at))
  BY DEF Forced
<1>3. ~(at < s.opened \/ at < s.evaluated)
  BY <1>1
<1>4. CASE o.price = None
  <2> DEFINE e == [s EXCEPT !.evaluated = at]
             T == Forced(s, o, at)
  <2>1. /\ e \in ExitStates /\ e.evaluated = at /\ e.opened = s.opened
        /\ e.done = s.done /\ e.high = s.high
    BY <1>1 DEF ExitStates
  <2>2. CASE T = {}
    <3>1. d = Hold(s, None)
      BY <1>3, <1>4, <2>2 DEF AssessExit
    <3> HIDE DEF d
    <3>2. d \in Decisions /\ d.action = "HOLD" /\ d.state = s /\ d.price = None
      <4>1. None \in (Nat \ {0}) \cup {None}
        OBVIOUS
      <4> QED BY <3>1, <4>1, HoldIs
    <3>3. ~o.halt
      BY <1>2, <2>2
    <3> QED BY <1>1, <3>2, <3>3 DEF AssessedAs, d
  <2>3. CASE T # {}
    <3>1. d = ExitAll(p, e, Primary(T), None, None)
      BY <1>3, <1>4, <2>3 DEF AssessExit
    <3>2. Primary(T) \in Triggers \ {"TAKE_PROFIT"}
      <4> HIDE DEF T
      <4>1. T \subseteq Triggers
        BY <1>2, RankIs DEF T
      <4>2. Primary(T) \in T
        BY <2>3, <4>1, PrimaryIs
      <4> QED BY <1>2, <4>2, RankIs DEF T
    <3> HIDE DEF T, e, d
    <3>3. /\ d \in Decisions /\ d.action = "EXIT" /\ d.state = e /\ d.price = None
          /\ d.asOf = e.evaluated /\ DecisionFits(p, d)
      <4> DEFINE reason == Primary(T)
                 none == None
                 x == ExitAll(p, e, reason, none, none)
      <4>1. /\ p.qty \in Nat \ {0} /\ e \in ExitStates
            /\ reason \in Triggers \ {"TAKE_PROFIT"}
            /\ none \in (DOMAIN TakeProfits) \cup {None}
            /\ none \in (Nat \ {0}) \cup {None}
        BY <1>1, <2>1, <3>2
      <4> HIDE DEF reason, none
      <4>2. /\ x \in Decisions /\ x.action = "EXIT" /\ x.state = e /\ x.price = none
            /\ x.asOf = e.evaluated /\ DecisionFits(p, x)
        BY ZenonT(40), <4>1, ExitAllIs
      <4> QED BY <3>1, <4>2 DEF reason, none
    <3> QED BY <1>1, <2>1, <3>3 DEF AssessedAs, d
  <2> QED BY <2>2, <2>3
<1>5. CASE o.price # None
  <2> DEFINE e == Observed(s, o.price, at)
             T == Forced(s, o, at) \cup Priced(p, e, o)
             levels == TakeProfitLevel(p, s, o.price)
             level == IF levels = {} THEN None ELSE CHOOSE k \in levels : TRUE
  <2>1. o.price \in Nat \ {0}
    BY <1>5 DEF ObservationOK
  <2>2. /\ e \in ExitStates /\ e.evaluated = at /\ e.opened = s.opened
        /\ e.done = s.done /\ e.high >= s.high /\ e.high >= o.price
    <3> DEFINE high == IF o.price > s.high THEN o.price ELSE s.high
    <3>1. s = [opened |-> s.opened, evaluated |-> s.evaluated, done |-> s.done,
               high |-> s.high]
      BY DEF ExitStates
    <3>2. e = [s EXCEPT !.evaluated = at, !.high = high]
      BY DEF Observed
    <3>3. high \in Nat /\ high >= s.high /\ high >= o.price
      BY <1>1, <2>1
    <3> HIDE DEF high, e
    <3>4. e = [opened |-> s.opened, evaluated |-> at, done |-> s.done, high |-> high]
      BY <3>1, <3>2
    <3> QED BY <1>1, <3>3, <3>4 DEF ExitStates
  <2>3. d = IF T = {} THEN Hold(e, o.price)
            ELSE IF Primary(T) = "TAKE_PROFIT" THEN TakeProfit(p, e, level, o.price)
            ELSE ExitAll(p, e, Primary(T), level, o.price)
    BY <1>3, <1>5 DEF AssessExit, AssessPriced
  <2>4. TakeProfitLevel(p, e, o.price) = levels /\ levels \subseteq DOMAIN TakeProfits
    <3> HIDE DEF e
    <3> QED BY <2>2 DEF TakeProfitLevel
  <2>5. level \in (DOMAIN TakeProfits) \cup {None} /\ (levels # {} => level \in DOMAIN TakeProfits)
    <3> HIDE DEF levels
    <3> QED BY <2>4
  <2>6. T \subseteq Triggers /\ ("TAKE_PROFIT" \in T => levels # {})
    <3> HIDE DEF levels, e
    <3>1. o.signals \subseteq {"MARKET_ALARM", "FLOW_ALARM"}
      BY DEF ObservationOK, Signals
    <3> QED BY <1>2, <2>4, <3>1, RankIs DEF Priced
  <2>7. T # {} => Primary(T) \in T /\ \A u \in T : Rank(Primary(T)) <= Rank(u)
    <3> HIDE DEF T
    <3> QED BY <2>6, PrimaryIs
  <2>8. o.halt => "GLOBAL_HALT" \in T
    BY <1>2
  <2> HIDE DEF T, e, d, levels, level
  <2>9. CASE T = {}
    <3>1. d = Hold(e, o.price)
      BY <2>3, <2>9
    <3>2. d \in Decisions /\ d.action = "HOLD" /\ d.state = e /\ d.price = o.price
      BY <2>1, <2>2, <3>1, HoldIs
    <3> QED BY <2>2, <2>8, <2>9, <3>2 DEF AssessedAs, d
  <2>10. CASE T # {} /\ Primary(T) = "TAKE_PROFIT"
    <3>1. d = TakeProfit(p, e, level, o.price) /\ level \in DOMAIN TakeProfits
      BY <2>3, <2>5, <2>6, <2>7, <2>10
    <3>2. /\ d \in Decisions /\ d.action # "HOLD" /\ d.state = e /\ d.price = o.price
          /\ d.asOf = e.evaluated /\ DecisionFits(p, d)
      BY <1>1, <2>1, <2>2, <3>1, TakeProfitIs
    <3>3. ~o.halt
      BY <2>7, <2>8, <2>10, RankIs
    <3> QED BY <2>2, <3>2, <3>3 DEF AssessedAs, d
  <2>11. CASE T # {} /\ Primary(T) # "TAKE_PROFIT"
    <3>1. d = ExitAll(p, e, Primary(T), level, o.price)
      BY <2>3, <2>11
    <3>2. Primary(T) \in Triggers \ {"TAKE_PROFIT"}
      BY <2>6, <2>7, <2>11
    <3>3. /\ d \in Decisions /\ d.action = "EXIT" /\ d.state = e /\ d.price = o.price
          /\ d.asOf = e.evaluated /\ DecisionFits(p, d)
      BY <1>1, <2>1, <2>2, <2>5, <3>1, <3>2, ExitAllIs
    <3> QED BY <2>2, <3>3 DEF AssessedAs, d
  <2> QED BY <2>9, <2>10, <2>11
<1> QED BY <1>4, <1>5

-----------------------------------------------------------------------------
(* Exits.                                                                  *)

LEMMA ExitKeyTime ==
    ASSUME NEW k \in LoopKeys, k[1] = "SELL"
    PROVE  k[3] \in Nat
<1>1. k \notin BuyKeys
  BY DEF BuyKeys
<1> QED BY <1>1 DEF LoopKeys

\* The management of a position after its assessment and before its sale.
Reassessed(p, m, o, at) ==
    [exit |-> IF o = None THEN m.exit ELSE AssessExit(p, m.exit, o, at).state,
     pending |-> IF o = None THEN m.pending
                 ELSE Reconciled(m.pending, AssessExit(p, m.exit, o, at))]

\* A position that was assessed at this very time, as the last cycle's were at
\* the last cycle's time, may only repeat a decision to exit: anything else
\* could have the key of an attempt already settled.
Assessable(m, o, at) ==
    \/ o = None
    \/ ObservationOK(o) /\ m.exit.evaluated < at
    \/ ObservationOK(o) /\ m.pending # None /\ m.pending.action = "EXIT"

Exiting(m) == m.pending # None /\ m.pending.action = "EXIT"

\* An assessment raises the high-water price and completes no level.
Continues(was, is) == is.exit.high >= was.exit.high /\ is.exit.done = was.exit.done

MayAssess(l, p, m, o, at) ==
    /\ l.processed \subseteq LoopKeys /\ p \in Positions /\ p.qty > 0
    /\ ManagementOK(l, p, m, at) /\ Assessable(m, o, at)

\* The price an assessment has seen, d being the decision it made.
Seen(d, mm) ==
    d.price # None => d.price \in Nat \ {0} /\ mm.exit.high >= d.price

LEMMA ReassessedOK ==
    ASSUME NEW at \in Nat, NEW l, NEW p, NEW m, NEW o, MayAssess(l, p, m, o, at),
           NEW mm, mm = Reassessed(p, m, o, at)
    PROVE  /\ ManagementOK(l, p, mm, at) /\ Continues(m, mm)
           /\ Exiting(m) => mm.pending = m.pending
           /\ o # None => Seen(AssessExit(p, m.exit, o, at), mm)
<1> SUFFICES ASSUME l.processed \subseteq LoopKeys, p \in Positions, p.qty > 0,
                    ManagementOK(l, p, m, at), Assessable(m, o, at)
             PROVE  /\ ManagementOK(l, p, mm, at) /\ Continues(m, mm)
                    /\ Exiting(m) => mm.pending = m.pending
                    /\ o # None => Seen(AssessExit(p, m.exit, o, at), mm)
  BY DEF MayAssess
<1> SUFFICES
      /\ ManagementOK(l, p, mm, at)
      /\ mm.exit.high >= m.exit.high /\ mm.exit.done = m.exit.done
      /\ Exiting(m) => mm.pending = m.pending
      /\ o # None /\ AssessExit(p, m.exit, o, at).price # None =>
            /\ AssessExit(p, m.exit, o, at).price \in Nat \ {0}
            /\ mm.exit.high >= AssessExit(p, m.exit, o, at).price
  BY DEF Continues, Seen
<1> DEFINE d == AssessExit(p, m.exit, o, at)
<1>1. /\ m = [exit |-> m.exit, pending |-> m.pending]
      /\ m.exit \in ExitStates /\ m.pending \in Decisions \cup {None}
      /\ m.exit.opened <= m.exit.evaluated /\ m.exit.evaluated <= at
      /\ m.exit.opened \in Nat /\ m.exit.evaluated \in Nat /\ m.exit.high \in Nat
  BY DEF ManagementOK, ExitStates
<1>2. CASE o = None
  <2>1. mm = m
    BY <1>1, <1>2 DEF Reassessed
  <2> QED BY <1>1, <1>2, <2>1
<1>3. CASE o # None
  <2>1. AssessedAs(p, m.exit, at, d)
    BY <1>1, <1>3, AssessExitOK DEF Assessable
  <2>2. mm = [exit |-> d.state, pending |-> Reconciled(m.pending, d)]
    BY <1>3 DEF Reassessed
  <2> HIDE DEF d
  <2>3. /\ d \in Decisions /\ d.state \in ExitStates /\ d.state.evaluated \in Nat
        /\ d.state.high \in Nat /\ d.price \in (Nat \ {0}) \cup {None}
        /\ d.state.opened = m.exit.opened /\ d.state.done = m.exit.done
        /\ m.exit.evaluated <= d.state.evaluated /\ d.state.evaluated <= at
        /\ d.state.high >= m.exit.high
        /\ d.price # None => d.state.high >= d.price
        /\ d.action # "HOLD" =>
              DecisionFits(p, d) /\ d.asOf = at /\ d.state.evaluated = at
    <3>1. /\ d \in Decisions /\ d.state \in ExitStates
          /\ d.price \in (Nat \ {0}) \cup {None}
      BY <2>1 DEF AssessedAs, Decisions
    <3>2. d.state.evaluated \in Nat /\ d.state.high \in Nat
      BY <3>1 DEF ExitStates
    <3> QED BY <1>1, <2>1, <3>1, <3>2 DEF AssessedAs
  <2>4. mm.exit = d.state /\ mm.pending = Reconciled(m.pending, d)
    BY <2>2
  <2>5. \/ mm.pending = m.pending
        \/ mm.pending = d /\ d.action # "HOLD" /\ ~Exiting(m)
    BY <2>4 DEF Reconciled, Exiting
  <2>6. mm.exit.opened <= mm.exit.evaluated /\ mm.exit.evaluated <= at
    BY <1>1, <2>3, <2>4
  <2>7. \A k \in l.processed : k[1] = "SELL" /\ k[2] = p.id =>
            k[3] <= m.exit.evaluated
    BY DEF ManagementOK
  <2>8. PendingOK(l, p, mm)
    <3>1. CASE mm.pending = m.pending
      <4>1. m.pending # None => m.pending.asOf \in Nat
        BY <1>1 DEF Decisions
      <4> QED BY <1>1, <2>3, <2>4, <3>1, <4>1 DEF ManagementOK, PendingOK
    <3>2. CASE mm.pending = d /\ d.action # "HOLD" /\ ~Exiting(m)
      <4>1. m.exit.evaluated < at
        BY <1>3, <3>2 DEF Assessable, Exiting
      <4>2. ExitKey(p.id, d)[1] = "SELL" /\ ExitKey(p.id, d)[2] = p.id
            /\ ExitKey(p.id, d)[3] = at
        BY <2>3, <3>2 DEF ExitKey
      <4>3. ExitKey(p.id, d) \notin l.processed
        BY <1>1, <2>7, <4>1, <4>2
      <4> QED BY <2>3, <2>4, <3>2, <4>3 DEF PendingOK
    <3> QED BY <2>5, <3>1, <3>2
  <2>9. \A k \in l.processed : k[1] = "SELL" /\ k[2] = p.id => k[3] <= mm.exit.evaluated
    <3> SUFFICES ASSUME NEW k \in l.processed, k[1] = "SELL", k[2] = p.id
                 PROVE  k[3] <= mm.exit.evaluated
      OBVIOUS
    <3>1. k[3] <= m.exit.evaluated
      BY <2>7
    <3>2. k[3] \in Int
      BY ExitKeyTime
    <3> QED BY <1>1, <2>3, <2>4, <3>1, <3>2
  <2>10. p.mark # None => mm.exit.high >= p.mark
    <3>1. p.mark # None => m.exit.high >= p.mark /\ p.mark \in Nat
      BY PositionFields DEF ManagementOK
    <3> QED BY <1>1, <2>3, <2>4, <3>1
  <2>11. mm \in [exit : ExitStates, pending : Decisions \cup {None}]
    BY <1>1, <2>2, <2>3, <2>4, <2>5
  <2>12. ManagementOK(l, p, mm, at)
    BY <2>6, <2>8, <2>9, <2>10, <2>11 DEF ManagementOK
  <2>13. Exiting(m) => mm.pending = m.pending
    BY <2>5
  <2> QED BY <2>3, <2>4, <2>12, <2>13 DEF d
<1> QED BY <1>2, <1>3

\* Working one position touches nothing of the others, and books only sales.
Touches(s, r, n) ==
    /\ r.entry = s.entry
    /\ Extends(s.ledger, r.ledger, 1)
    /\ \A k \in (Len(s.ledger.entries) + 1)..Len(r.ledger.entries) :
          /\ r.ledger.entries[k].side = "SELL"
          /\ r.ledger.entries[k].position = s.ledger.positions[n].id
    /\ Len(r.ledger.positions) = Len(s.ledger.positions)
    /\ \A k \in 1..Len(s.ledger.positions) :
          /\ r.ledger.positions[k].id = s.ledger.positions[k].id
          /\ k # n => r.ledger.positions[k] = s.ledger.positions[k]
    /\ DOMAIN r.managed \subseteq DOMAIN s.managed
    /\ \A id \in DOMAIN s.managed :
          id # s.ledger.positions[n].id =>
              id \in DOMAIN r.managed /\ r.managed[id] = s.managed[id]

\* What the management of a position remembers, while it went from p to q: the
\* high-water price, and the take-profit levels not earned.
Remembered(was, is, p, q) ==
    /\ is.exit.high >= was.exit.high
    /\ \A k \in is.exit.done \ was.exit.done :
          q.qty <= p.qty - Share(p.qty, TakeProfits[k].reduce)

LEMMA RemembersItself ==
    ASSUME NEW m, NEW p, m.exit.high \in Nat
    PROVE  Remembered(m, m, p, p)
BY SMTT(30) DEF Remembered

\* A decision to exit is pending still, was attempted, or could not be paid for.
ExitKept(s, r, id) ==
    \/ id \in DOMAIN r.managed /\ r.managed[id].pending = s.managed[id].pending
    \/ \E k \in (Len(s.ledger.entries) + 1)..Len(r.ledger.entries) :
          r.ledger.entries[k].side = "SELL" /\ r.ledger.entries[k].position = id
    \/ \E k \in Len(s.ledger.entries)..Len(r.ledger.entries) :
          Balance(r.ledger, k) < NetworkFee

Remembers(s, r, n, id) ==
    /\ id \in DOMAIN r.managed =>
          Remembered(s.managed[id], r.managed[id],
                     s.ledger.positions[n], r.ledger.positions[n])
    /\ Exiting(s.managed[id]) => ExitKept(s, r, id)

\* One position worked: its management is mm until it is sold.
Worked(s, r, n, at) ==
    /\ Working(r) /\ StateOK(r, at) /\ Touches(s, r, n)
    /\ Remembers(s, r, n, s.ledger.positions[n].id)

LEMMA OpenPosition ==
    ASSUME NEW t \in Nat, NEW s, Working(s), StateOK(s, t), NEW n \in OpenIn(s.ledger),
           NEW p, p = s.ledger.positions[n]
    PROVE  /\ p \in Positions /\ p.qty > 0 /\ p.qty \in Nat \ {0} /\ p.state = "OPEN"
           /\ n \in 1..Len(s.ledger.positions) /\ Len(s.ledger.positions) \in Nat
           /\ s.ledger \in Ledgers /\ s.ledger.processed \subseteq LoopKeys
           /\ s.ledger.positions \in Seq(Positions) /\ Len(s.ledger.entries) \in Nat
           /\ DOMAIN s.ledger.positions = 1..Len(s.ledger.positions)
           /\ p.id \in DOMAIN s.managed /\ ManagementOK(s.ledger, p, s.managed[p.id], t)
           /\ LedgerOK(s.ledger, t)
           /\ \A k \in OpenIn(s.ledger) :
                 k # n => s.ledger.positions[k].id # p.id
<1>1. LedgerOK(s.ledger, t) /\ s.ledger \in Ledgers /\ ManagedOK(s.ledger, s.managed, t)
  BY DEF StateOK, LedgerOK
<1>2. /\ Len(s.ledger.positions) \in Nat /\ s.ledger.processed \subseteq LoopKeys
      /\ s.ledger.positions \in Seq(Positions) /\ Len(s.ledger.entries) \in Nat
      /\ DOMAIN s.ledger.positions = 1..Len(s.ledger.positions)
      /\ \A k \in 1..Len(s.ledger.positions) : s.ledger.positions[k] \in Positions
  BY <1>1, LedgerFields
<1>3. n \in 1..Len(s.ledger.positions) /\ p.state = "OPEN" /\ p \in Positions
  BY <1>2 DEF OpenIn
<1>4. p.qty > 0 /\ p.qty \in Nat \ {0}
  <2>1. p.qty \in Nat
    BY <1>3, PositionFields
  <2> QED BY <1>1, <1>3, <2>1 DEF LedgerOK, PositionsOK, PositionOK
<1>5. p.id \in DOMAIN s.managed /\ ManagementOK(s.ledger, p, s.managed[p.id], t)
  BY <1>1 DEF ManagedOK, IdsOf
<1>6. \A k \in OpenIn(s.ledger) : k # n => s.ledger.positions[k].id # p.id
  BY SMTT(30), <1>1, <1>2, <1>3 DEF OpenIn, LedgerOK, IdentitiesOK
<1> QED BY <1>1, <1>2, <1>3, <1>4, <1>5, <1>6

Manage(s, id, m) == [s EXCEPT !.managed[id] = m]

\* There is not even the cash for the network fee.
Penniless(l) == l.cash < NetworkFee

MayManage(s, n, p, mm, at) ==
    /\ Working(s) /\ StateOK(s, at) /\ n \in OpenIn(s.ledger) /\ p = s.ledger.positions[n]
    /\ ManagementOK(s.ledger, p, mm, at)
    /\ Remembered(s.managed[p.id], mm, p, p)
    /\ Exiting(s.managed[p.id]) =>
          mm.pending = s.managed[p.id].pending \/ Penniless(s.ledger)

\* Management of an open position replaced by one that is in order.
LEMMA Remanaged ==
    ASSUME NEW at \in Nat, NEW s, NEW n, NEW p, NEW mm, MayManage(s, n, p, mm, at),
           NEW r, r = Manage(s, p.id, mm)
    PROVE  Worked(s, r, n, at) /\ r.managed[p.id] = mm /\ r.ledger = s.ledger
<1>state. Working(s) /\ StateOK(s, at) /\ n \in OpenIn(s.ledger) /\ p = s.ledger.positions[n]
  BY SMTT(30) DEF MayManage
<1>given. /\ ManagementOK(s.ledger, p, mm, at) /\ Remembered(s.managed[p.id], mm, p, p)
          /\ Exiting(s.managed[p.id]) =>
                mm.pending = s.managed[p.id].pending \/ Penniless(s.ledger)
  BY DEF MayManage
<1>1. /\ p \in Positions /\ Len(s.ledger.positions) \in Nat /\ Len(s.ledger.entries) \in Nat
      /\ p.id \in DOMAIN s.managed /\ n \in 1..Len(s.ledger.positions)
      /\ LedgerOK(s.ledger, at) /\ ManagedOK(s.ledger, s.managed, at)
      /\ \A k \in OpenIn(s.ledger) : k # n => s.ledger.positions[k].id # p.id
  BY <1>state, OpenPosition DEF StateOK
<1> DEFINE managing == [s.managed EXCEPT ![p.id] = mm]
<1>2. /\ DOMAIN managing = DOMAIN s.managed /\ managing[p.id] = mm
      /\ \A id \in DOMAIN s.managed : id # p.id => managing[id] = s.managed[id]
  BY <1>1
<1>3. r = [ledger |-> s.ledger, managed |-> managing, entry |-> s.entry,
           slotUsed |-> s.slotUsed]
  BY <1>state DEF Working, Manage
<1> HIDE DEF managing
<1>4. r.ledger = s.ledger /\ r.managed = managing /\ r.entry = s.entry /\ Working(r)
  BY <1>3 DEF Working
<1>5. ManagedOK(s.ledger, managing, at)
  <2> SUFFICES ASSUME NEW k \in OpenIn(s.ledger)
               PROVE  ManagementOK(s.ledger, s.ledger.positions[k],
                                   managing[s.ledger.positions[k].id], at)
    BY SMTT(30), <1>1, <1>2 DEF ManagedOK
  <2>1. CASE k = n
    BY <1>state, <1>given, <1>2, <2>1
  <2>2. CASE k # n
    <3>1. s.ledger.positions[k].id \in DOMAIN s.managed
      BY <1>1 DEF ManagedOK, IdsOf
    <3>2. managing[s.ledger.positions[k].id] = s.managed[s.ledger.positions[k].id]
      BY <1>1, <1>2, <2>2, <3>1
    <3> QED BY <1>1, <3>2 DEF ManagedOK
  <2> QED BY <2>1, <2>2
<1>6. StateOK(r, at)
  BY Zenon, <1>state, <1>4, <1>5 DEF StateOK
<1>7. Touches(s, r, n)
  <2>1. (Len(s.ledger.entries) + 1)..Len(s.ledger.entries) = {}
    BY <1>1
  <2>2. Extends(s.ledger, r.ledger, 1)
    BY <1>1, <1>4 DEF Extends
  <2>3. /\ DOMAIN r.managed \subseteq DOMAIN s.managed
        /\ \A id \in DOMAIN s.managed :
              id # p.id => id \in DOMAIN r.managed /\ r.managed[id] = s.managed[id]
    BY <1>2, <1>4
  <2> QED BY Zenon, <1>state, <1>4, <2>1, <2>2, <2>3 DEF Touches
<1>8. Remembers(s, r, n, p.id)
  <2>1. r.managed[p.id] = mm /\ p.id \in DOMAIN r.managed
        /\ r.ledger.positions[n] = p /\ s.ledger.positions[n] = p
    BY <1>state, <1>1, <1>2, <1>4
  <2>2. Exiting(s.managed[p.id]) => ExitKept(s, r, p.id)
    <3>1. CASE mm.pending = s.managed[p.id].pending
      BY <2>1, <3>1 DEF ExitKept
    <3>2. CASE Penniless(s.ledger)
      <4>1. Balance(r.ledger, Len(s.ledger.entries)) < NetworkFee
        BY <1>1, <1>4, <3>2 DEF LedgerOK, Penniless
      <4>2. Len(s.ledger.entries) \in Len(s.ledger.entries)..Len(r.ledger.entries)
        BY SMTT(30), <1>1, <1>4
      <4> QED BY <4>1, <4>2 DEF ExitKept
    <3> QED BY <1>given, <3>1, <3>2
  <2> QED BY SMTT(30), <1>given, <2>1, <2>2 DEF Remembers
<1>9. Worked(s, r, n, at)
  BY <1>state, <1>4, <1>6, <1>7, <1>8 DEF Worked
<1> QED BY <1>2, <1>4, <1>9

\* Positions that only shrink leave no less room for an entry left pending.
LEMMA ShrunkOK ==
    ASSUME NEW at \in Nat, NEW l, LedgerOK(l, at), NEW ll, LedgerOK(ll, at),
           Len(ll.positions) = Len(l.positions),
           \A k \in 1..Len(l.positions) :
               /\ ll.positions[k].mint = l.positions[k].mint
               /\ ll.positions[k].state = "OPEN" =>
                     /\ l.positions[k].state = "OPEN"
                     /\ ll.positions[k].basis <= l.positions[k].basis,
           NEW pending, EntryOK(l, pending, at), RiskOK(l, pending)
    PROVE  EntryOK(ll, pending, at) /\ RiskOK(ll, pending)
<1>1. /\ l.positions \in Seq(Positions) /\ ll.positions \in Seq(Positions)
      /\ DOMAIN l.positions = 1..Len(l.positions)
      /\ DOMAIN ll.positions = 1..Len(l.positions)
  BY LedgerFields DEF LedgerOK
<1>2. EntryOK(ll, pending, at)
  BY <1>1 DEF EntryOK, OpenAt
<1>3. pending # None => pending.notional \in Nat
  BY DEF EntryOK, EntryIntents
<1>4. RiskOK(ll, pending)
  <2> DEFINE old == l.positions
             new == ll.positions
  <2> QED BY <1>1, <1>3, RiskKept
<1> QED BY <1>2, <1>4

\* What acknowledging a fill makes of an exit state.
LEMMA Acknowledged ==
    ASSUME NEW p, NEW d, DecisionFits(p, d), p.qty \in Nat, NEW exit \in ExitStates,
           NEW after, after.state = "OPEN", after.qty \in Nat,
           NEW new, new = AcknowledgeExitFill(exit, d, p, after)
    PROVE  /\ new \in ExitStates /\ new.opened = exit.opened
           /\ new.evaluated = exit.evaluated /\ new.high = exit.high
           /\ \A k \in new.done \ exit.done :
                 after.qty <= p.qty - Share(p.qty, TakeProfits[k].reduce)
<1>1. CASE new = exit
  BY <1>1
<1>2. CASE new # exit
  <2>1. /\ d.reason = "TAKE_PROFIT" /\ p.qty - after.qty >= d.qty
        /\ new = [exit EXCEPT !.done = @ \cup {d.level}]
    BY <1>2 DEF AcknowledgeExitFill
  <2>2. /\ d.level \in DOMAIN TakeProfits
        /\ d.qty >= Share(p.qty, TakeProfits[d.level].reduce) /\ d.qty \in Nat
    BY <2>1 DEF DecisionFits
  <2>3. /\ new \in ExitStates /\ new.opened = exit.opened
        /\ new.evaluated = exit.evaluated /\ new.high = exit.high
        /\ new.done = exit.done \cup {d.level}
    BY <2>1, <2>2 DEF ExitStates
  <2>4. Share(p.qty, TakeProfits[d.level].reduce) \in Int
    <3>1. TakeProfits[d.level].reduce \in 1..100
      BY <2>2, ExitPolicyAssumption
    <3>2. p.qty \in Nat \ {0}
      BY DEF DecisionFits
    <3> QED BY <3>1, <3>2, ShareBounds
  <2>5. after.qty <= p.qty - Share(p.qty, TakeProfits[d.level].reduce)
    BY <2>1, <2>2, <2>4
  <2> QED BY <2>3, <2>5
<1> QED BY <1>1, <1>2

\* What is managed after a sale that was booked.
SoldManagement(managing, m, p, after) ==
    IF after.state = "CLOSED"
    THEN [id \in DOMAIN managing \ {p.id} |-> managing[id]]
    ELSE [managing EXCEPT ![p.id] =
            [exit |-> AcknowledgeExitFill(m.exit, m.pending, p, after), pending |-> None]]

SoldState(s, n, m, p, l) ==
    [ledger |-> l, managed |-> SoldManagement(s.managed, m, p, l.positions[n]),
     entry |-> s.entry, slotUsed |-> s.slotUsed]

IsSold(s, n, p, mm, i, x, ll, at) ==
    /\ Working(s) /\ StateOK(s, at) /\ n \in OpenIn(s.ledger) /\ p = s.ledger.positions[n]
    /\ ManagementOK(s.ledger, p, mm, at) /\ mm.pending # None
    /\ Continues(s.managed[p.id], mm)
    /\ i.key = ExitKey(p.id, mm.pending) /\ i.side = "SELL"
    /\ x.at = at /\ x.key = i.key
    /\ SoldAs(s.ledger, n, i, x, ll) /\ LedgerOK(ll, at)

SaleEffect(s, r, n, p, mm, x, at) ==
    /\ Worked(s, r, n, at)
    /\ p.id \in DOMAIN r.managed => r.managed[p.id].exit.high = mm.exit.high
    /\ x.qty = p.qty => p.id \notin DOMAIN r.managed

\* A sale that was booked leaves all in order, closed or not.
LEMMA Sold ==
    ASSUME NEW at \in Nat, NEW s, NEW n, NEW p, NEW mm, NEW i, NEW x, NEW ll,
           IsSold(s, n, p, mm, i, x, ll, at), NEW r, r = SoldState(s, n, mm, p, ll)
    PROVE  SaleEffect(s, r, n, p, mm, x, at)
<1> DEFINE old == s.ledger
<1>0. at <= at
  OBVIOUS
<1>state. Working(s) /\ StateOK(s, at) /\ n \in OpenIn(s.ledger) /\ p = s.ledger.positions[n]
  BY DEF IsSold
<1>given. /\ ManagementOK(s.ledger, p, mm, at) /\ mm.pending # None
          /\ Continues(s.managed[p.id], mm)
          /\ i.key = ExitKey(p.id, mm.pending) /\ i.side = "SELL"
          /\ x.at = at /\ x.key = i.key
          /\ SoldAs(s.ledger, n, i, x, ll) /\ LedgerOK(ll, at)
  BY DEF IsSold
<1>1. /\ p \in Positions /\ p.qty \in Nat \ {0} /\ p.state = "OPEN" /\ old \in Ledgers
      /\ Len(old.positions) \in Nat /\ Len(old.entries) \in Nat
      /\ old.positions \in Seq(Positions) /\ old.processed \subseteq LoopKeys
      /\ p.id \in DOMAIN s.managed /\ n \in 1..Len(old.positions)
      /\ DOMAIN old.positions = 1..Len(old.positions)
      /\ LedgerOK(old, at) /\ ManagedOK(old, s.managed, at)
      /\ \A k \in OpenIn(old) : k # n => old.positions[k].id # p.id
  <2>1. ManagedOK(old, s.managed, at) /\ LedgerOK(old, at)
    BY <1>state DEF StateOK
  <2>2. /\ p \in Positions /\ p.qty \in Nat \ {0} /\ p.state = "OPEN"
        /\ p.id \in DOMAIN s.managed
    BY <1>state, OpenPosition
  <2>3. \A k \in OpenIn(old) : k # n => old.positions[k].id # p.id
    BY <1>state, OpenPosition
  <2> HIDE DEF old
  <2>4. old \in Ledgers
    BY <2>1 DEF LedgerOK
  <2>5. /\ Len(old.positions) \in Nat /\ Len(old.entries) \in Nat
        /\ old.positions \in Seq(Positions) /\ old.processed \subseteq LoopKeys
        /\ DOMAIN old.positions = 1..Len(old.positions)
    BY <2>4, LedgerFields
  <2>6. n \in 1..Len(old.positions)
    BY SMTT(30), <1>state, <2>5 DEF OpenIn, old
  <2> QED BY <2>1, <2>2, <2>3, <2>4, <2>5, <2>6
<1>2. PICK z \in Positions, delta \in Int :
         /\ Remains(p, x, at, z)
         /\ ll = AfterEntry(old, i, x, [old.positions EXCEPT ![n] = z], p.id, delta)
  BY <1>given, <1>state DEF SoldAs
<1>3. ll \in Ledgers /\ DOMAIN ll.positions = 1..Len(ll.positions)
  BY <1>given, LedgerFields DEF LedgerOK
<1>4. /\ z.id = p.id /\ z.mint = p.mint /\ z.qty = p.qty - x.qty /\ z.qty \in Nat
      /\ z.state = IF x.qty = p.qty THEN "CLOSED" ELSE "OPEN"
      /\ z.basis <= p.basis /\ z.mark \in {p.mark, None}
  BY <1>2, PositionFields DEF Remains
<1> HIDE DEF old
<1>5. /\ Extends(old, ll, 1) /\ Len(ll.entries) = Len(old.entries) + 1
      /\ ll.entries[Len(old.entries) + 1] = Entry(i, x, p.id, delta)
      /\ ll.positions = [old.positions EXCEPT ![n] = z]
      /\ ll.processed = old.processed \cup {i.key}
  <2> DEFINE ps == [old.positions EXCEPT ![n] = z]
             id == p.id
  <2>1. ll = AfterEntry(old, i, x, ps, id, delta)
    BY <1>2
  <2>3. old \in Ledgers /\ ll \in Ledgers
    BY <1>1, <1>3
  <2> HIDE DEF ps, id
  <2>2. /\ Extends(old, ll, 1) /\ Len(ll.entries) = Len(old.entries) + 1
        /\ ll.entries[Len(old.entries) + 1] = Entry(i, x, id, delta)
        /\ ll.positions = ps /\ ll.processed = old.processed \cup {x.key}
    BY <2>1, <2>3, ExtendsOneEntry
  <2> QED BY <1>given, <2>2 DEF ps, id
<1>6. /\ Len(ll.positions) = Len(old.positions) /\ ll.positions[n] = z
      /\ \A k \in 1..Len(old.positions) : k # n => ll.positions[k] = old.positions[k]
  <2>1. /\ old.positions \in Seq(Positions) /\ n \in 1..Len(old.positions)
        /\ ll.positions = [old.positions EXCEPT ![n] = z]
    BY <1>1, <1>5
  <2> DEFINE before == old.positions
             after == ll.positions
  <2>2. /\ before \in Seq(Positions) /\ n \in 1..Len(before) /\ after = [before EXCEPT ![n] = z]
    BY <2>1
  <2> HIDE DEF before, after
  <2>3. /\ Len(after) = Len(before) /\ after[n] = z
        /\ \A k \in 1..Len(before) : k # n => after[k] = before[k]
    BY <2>2, ExceptSeq
  <2> QED BY <2>3 DEF before, after
<1>7. Entry(i, x, p.id, delta).side = "SELL" /\ Entry(i, x, p.id, delta).position = p.id
  BY <1>given DEF Entry
<1>8. /\ r.ledger = ll /\ r.entry = s.entry /\ Working(r)
      /\ r.managed = SoldManagement(s.managed, mm, p, ll.positions[n])
  BY DEF Working, SoldState
<1>9. \A k \in 1..Len(old.positions) :
         /\ ll.positions[k].id = old.positions[k].id
         /\ ll.positions[k].mint = old.positions[k].mint
         /\ ll.positions[k].state = "OPEN" =>
               old.positions[k].state = "OPEN" /\ ll.positions[k].basis <= old.positions[k].basis
  <2> SUFFICES ASSUME NEW k \in 1..Len(old.positions)
               PROVE  /\ ll.positions[k].id = old.positions[k].id
                      /\ ll.positions[k].mint = old.positions[k].mint
                      /\ ll.positions[k].state = "OPEN" =>
                            /\ old.positions[k].state = "OPEN"
                            /\ ll.positions[k].basis <= old.positions[k].basis
    OBVIOUS
  <2>1. CASE k = n
    BY <1>state, <1>1, <1>4, <1>6, <2>1 DEF old
  <2>2. CASE k # n
    <3>1. old.positions[k].basis \in Nat
      <4>1. old.positions[k] \in Positions
        BY <1>1, ElementOfSeq
      <4> QED BY <4>1, PositionFields
    <3> QED BY <1>6, <2>2, <3>1
  <2> QED BY <2>1, <2>2
<1>10. EntryOK(ll, s.entry, at) /\ RiskOK(ll, s.entry)
  <2>1. EntryOK(old, s.entry, at) /\ RiskOK(old, s.entry)
    BY <1>state DEF StateOK, old
  <2> QED BY <1>given, <1>1, <1>6, <1>9, <2>1, ShrunkOK
<1>11. i.key[1] = "SELL" /\ i.key[2] = p.id /\ i.key[3] = mm.pending.asOf
  BY <1>given DEF ExitKey
\* the management of the other positions
<1>12. ASSUME NEW k \in OpenIn(ll), k # n
       PROVE  /\ ManagementOK(ll, ll.positions[k], s.managed[ll.positions[k].id], at)
              /\ ll.positions[k].id \in DOMAIN s.managed \ {p.id}
  <2> DEFINE c == old.positions[k]
             m == s.managed[c.id]
             key == i.key
  <2>1. k \in OpenIn(old) /\ ll.positions[k] = c
    BY <1>1, <1>3, <1>6, <1>12 DEF OpenIn
  <2>2. ManagementOK(old, c, m, at) /\ c.id \in DOMAIN s.managed
    BY <1>1, <2>1 DEF ManagedOK, IdsOf
  <2>3. c.id # p.id
    BY <1>1, <1>12, <2>1
  <2>4. key[2] # c.id /\ ll.processed \subseteq old.processed \cup {key}
    BY <1>5, <1>11, <2>3
  <2> HIDE DEF c, m, key
  <2>5. ManagementOK(ll, c, m, at)
    BY <1>0, <2>2, <2>4, ManagementKept
  <2> QED BY <2>1, <2>2, <2>3, <2>5 DEF m
<1>13. x.qty = p.qty => z.state = "CLOSED"
  BY ZenonT(40), <1>4
<1>14. ASSUME /\ DOMAIN r.managed \subseteq DOMAIN s.managed
              /\ \A id \in DOMAIN s.managed :
                    id # p.id => id \in DOMAIN r.managed /\ r.managed[id] = s.managed[id]
       PROVE  Touches(s, r, n)
  <2>1. \A k \in (Len(old.entries) + 1)..Len(ll.entries) :
           ll.entries[k].side = "SELL" /\ ll.entries[k].position = p.id
    BY SMTT(30), <1>1, <1>5, <1>7
  <2>2. \A k \in 1..Len(old.positions) :
           /\ ll.positions[k].id = old.positions[k].id
           /\ k # n => ll.positions[k] = old.positions[k]
    BY <1>6, <1>9
  <2>3. Extends(old, ll, 1) /\ Len(ll.positions) = Len(old.positions)
    BY <1>5, <1>6
  <2> QED BY ZenonT(40), <1>state, <1>8, <1>14, <2>1, <2>2, <2>3 DEF Touches, old
<1>15. ExitKept(s, r, p.id)
  <2>1. Len(old.entries) + 1 \in (Len(old.entries) + 1)..Len(ll.entries)
    BY <1>1, <1>5
  <2>2. /\ ll.entries[Len(old.entries) + 1].side = "SELL"
        /\ ll.entries[Len(old.entries) + 1].position = p.id
    BY <1>5, <1>7
  <2>3. \E k \in (Len(old.entries) + 1)..Len(r.ledger.entries) :
           r.ledger.entries[k].side = "SELL" /\ r.ledger.entries[k].position = p.id
    BY <1>8, <2>1, <2>2
  <2> QED BY <2>3 DEF ExitKept, old
<1>16. CASE z.state = "CLOSED"
  <2>1. r.managed = [id \in DOMAIN s.managed \ {p.id} |-> s.managed[id]]
    BY <1>6, <1>8, <1>16 DEF SoldManagement
  <2>2. OpenIn(ll) = OpenIn(old) \ {n} /\ n \notin OpenIn(ll)
    BY <1>1, <1>3, <1>6, <1>16 DEF OpenIn
  <2>3. DOMAIN r.managed = IdsOf(ll, OpenIn(ll))
    <3>1. DOMAIN s.managed = IdsOf(old, OpenIn(old))
      BY <1>1 DEF ManagedOK
    <3>2. IdsOf(ll, OpenIn(ll)) = IdsOf(old, OpenIn(old)) \ {p.id}
      <4>1. \A k \in OpenIn(ll) :
               ll.positions[k].id = old.positions[k].id /\ old.positions[k].id # p.id
        BY <1>1, <1>9, <2>2 DEF OpenIn
      <4>2. old.positions[n].id = p.id
        BY <1>state DEF old
      <4> QED BY <2>2, <4>1, <4>2 DEF IdsOf
    <3> QED BY <2>1, <3>1, <3>2
  <2>4. ManagedOK(ll, r.managed, at)
    <3>1. ASSUME NEW k \in OpenIn(ll)
          PROVE  ManagementOK(ll, ll.positions[k], r.managed[ll.positions[k].id], at)
      <4>1. k # n
        BY <2>2
      <4> QED BY <1>12, <2>1, <4>1
    <3> QED BY <2>3, <3>1 DEF ManagedOK
  <2>5. StateOK(r, at)
    BY <1>given, <1>8, <1>10, <2>4 DEF StateOK
  <2>6. Touches(s, r, n)
    BY <1>14, <2>1
  <2>7. p.id \notin DOMAIN r.managed
    BY <2>1
  <2>8. Remembers(s, r, n, p.id)
    BY <1>15, <2>7 DEF Remembers
  <2> QED BY <1>state, <1>8, <2>5, <2>6, <2>7, <2>8 DEF Worked, SaleEffect
<1>17. CASE z.state = "OPEN"
  <2> DEFINE exit == AcknowledgeExitFill(mm.exit, mm.pending, p, z)
             m == [exit |-> exit, pending |-> None]
  <2>1. r.managed = [s.managed EXCEPT ![p.id] = m]
    BY <1>6, <1>8, <1>17 DEF SoldManagement
  <2>2. /\ exit \in ExitStates /\ exit.opened = mm.exit.opened
        /\ exit.evaluated = mm.exit.evaluated /\ exit.high = mm.exit.high
        /\ \A k \in exit.done \ mm.exit.done :
              z.qty <= p.qty - Share(p.qty, TakeProfits[k].reduce)
    <3>1. DecisionFits(p, mm.pending) /\ mm.exit \in ExitStates
      BY <1>given DEF ManagementOK, PendingOK
    <3>2. p.qty \in Nat /\ z.state = "OPEN" /\ z.qty \in Nat
      BY <1>1, <1>4, <1>17
    <3> DEFINE d == mm.pending
               was == mm.exit
    <3>3. DecisionFits(p, d) /\ was \in ExitStates /\ exit = AcknowledgeExitFill(was, d, p, z)
      BY <3>1
    <3> HIDE DEF exit, d, was
    <3>4. /\ exit \in ExitStates /\ exit.opened = was.opened
          /\ exit.evaluated = was.evaluated /\ exit.high = was.high
          /\ \A k \in exit.done \ was.done :
                z.qty <= p.qty - Share(p.qty, TakeProfits[k].reduce)
      BY <3>2, <3>3, Acknowledged
    <3> QED BY <3>4 DEF was
  <2>3. m.exit = exit /\ m.pending = None /\ m \in [exit : ExitStates, pending : Decisions \cup {None}]
    <3> HIDE DEF exit
    <3> QED BY <2>2
  <2> HIDE DEF exit, m
  <2>4. ManagementOK(ll, z, m, at)
    <3>1. z.mark # None => m.exit.high >= z.mark
      BY <1>given, <1>4, <2>2, <2>3 DEF ManagementOK
    <3>2. \A k \in ll.processed : k[1] = "SELL" /\ k[2] = z.id => k[3] <= m.exit.evaluated
      <4>1. m.exit.evaluated = mm.exit.evaluated
        BY <2>2, <2>3
      <4>2. /\ \A k \in old.processed : k[1] = "SELL" /\ k[2] = p.id =>
                    k[3] <= mm.exit.evaluated
            /\ mm.pending.asOf <= mm.exit.evaluated
        BY <1>given DEF ManagementOK, PendingOK, old
      <4>3. \A k \in ll.processed : k \in old.processed \/ k = i.key
        BY <1>5
      <4> QED BY <1>4, <1>11, <4>1, <4>2, <4>3
    <3>3. PendingOK(ll, z, m)
      BY <2>3 DEF PendingOK
    <3> QED BY <1>given, <2>2, <2>3, <3>1, <3>2, <3>3 DEF ManagementOK
  <2>5. OpenIn(ll) = OpenIn(old) /\ n \in OpenIn(ll)
    BY <1>state, <1>1, <1>3, <1>6, <1>17 DEF OpenIn, old
  <2>6. /\ DOMAIN r.managed = DOMAIN s.managed /\ r.managed[p.id] = m
        /\ \A id \in DOMAIN s.managed : id # p.id => r.managed[id] = s.managed[id]
    BY <1>1, <2>1
  <2>7. DOMAIN r.managed = IdsOf(ll, OpenIn(ll))
    <3>1. DOMAIN s.managed = IdsOf(old, OpenIn(old))
      BY <1>1 DEF ManagedOK
    <3>2. \A k \in OpenIn(ll) : ll.positions[k].id = old.positions[k].id
      BY <1>3, <1>6, <1>9 DEF OpenIn
    <3>3. IdsOf(ll, OpenIn(ll)) = IdsOf(old, OpenIn(ll))
      BY <3>2 DEF IdsOf
    <3> QED BY <2>5, <2>6, <3>1, <3>3
  <2>8. ManagedOK(ll, r.managed, at)
    <3>1. ASSUME NEW k \in OpenIn(ll)
          PROVE  ManagementOK(ll, ll.positions[k], r.managed[ll.positions[k].id], at)
      <4>1. CASE k = n
        BY <1>4, <1>6, <2>4, <2>6, <4>1
      <4>2. CASE k # n
        BY <1>12, <2>6, <4>2
      <4> QED BY <4>1, <4>2
    <3> QED BY <2>7, <3>1 DEF ManagedOK
  <2>9. StateOK(r, at)
    BY <1>given, <1>8, <1>10, <2>8 DEF StateOK
  <2>10. Touches(s, r, n)
    BY <1>14, <2>6
  <2>11. Remembers(s, r, n, p.id)
    <3>1. Remembered(s.managed[p.id], m, p, z)
      <4>1. m.exit.high >= s.managed[p.id].exit.high
        BY <1>given, <2>2, <2>3 DEF Continues
      <4>2. m.exit.done \ s.managed[p.id].exit.done = exit.done \ mm.exit.done
        BY <1>given, <2>3 DEF Continues
      <4> QED BY <2>2, <4>1, <4>2 DEF Remembered
    <3>2. r.managed[p.id] = m /\ r.ledger.positions[n] = z /\ s.ledger.positions[n] = p
      BY <1>state, <1>6, <1>8, <2>6 DEF old
    <3> QED BY <1>15, <3>1, <3>2, Zenon DEF Remembers
  <2>12. x.qty # p.qty
    <3>1. x.qty = p.qty => z.state = "CLOSED"
      BY <1>13
    <3> QED BY <1>17, <3>1
  <2>13. r.managed[p.id].exit.high = mm.exit.high
    BY <2>2, <2>3, <2>6
  <2>14. Worked(s, r, n, at)
    BY <1>state, <1>8, <2>9, <2>10, <2>11, ZenonT(40) DEF Worked
  <2> QED BY <2>12, <2>13, <2>14 DEF SaleEffect
<1> QED BY <1>4, <1>16, <1>17, <1>13 DEF SaleEffect

\* Marking touches nothing but the marked position, whose quantity it keeps.
MarkedAs(v, r, n) ==
    /\ r.managed = v.managed /\ r.entry = v.entry
    /\ r.ledger.entries = v.ledger.entries
    /\ Len(r.ledger.positions) = Len(v.ledger.positions)
    /\ \A k \in 1..Len(v.ledger.positions) :
          /\ r.ledger.positions[k].id = v.ledger.positions[k].id
          /\ r.ledger.positions[k].qty = v.ledger.positions[k].qty
          /\ k # n => r.ledger.positions[k] = v.ledger.positions[k]

\* Marking an open position to a price its management knows keeps all in order.
LEMMA MarkingOK ==
    ASSUME NEW at \in Nat, NEW v, Working(v), StateOK(v, at), NEW n \in OpenIn(v.ledger),
           NEW c, c = v.ledger.positions[n], NEW price \in Nat \ {0},
           v.managed[c.id].exit.high >= price,
           NEW ll, ll = MarkPaperPosition(v.ledger, n, price, at),
           NEW r, r = [v EXCEPT !.ledger = ll]
    PROVE  Working(r) /\ StateOK(r, at) /\ MarkedAs(v, r, n)
<1> DEFINE l == v.ledger
           z == [c EXCEPT !.mark = price, !.updated = at]
           ps == [l.positions EXCEPT ![n] = z]
<1>1. /\ c \in Positions /\ c.qty \in Nat \ {0} /\ c.state = "OPEN"
      /\ n \in 1..Len(l.positions) /\ c.id \in DOMAIN v.managed
      /\ ManagementOK(l, c, v.managed[c.id], at)
  BY OpenPosition
<1>2. LedgerOK(l, at) /\ l \in Ledgers /\ ManagedOK(l, v.managed, at)
  BY DEF StateOK, LedgerOK
<1> HIDE DEF l
<1>3. /\ l.positions \in Seq(Positions) /\ Len(l.positions) \in Nat
      /\ DOMAIN l.positions = 1..Len(l.positions)
      /\ Len(l.entries) \in Nat /\ l.asOf \in Nat
  BY SMTT(30), <1>2, LedgerFields
<1>4. l = [cash |-> l.cash, realized |-> l.realized, costs |-> l.costs, asOf |-> l.asOf,
           positions |-> l.positions, entries |-> l.entries, processed |-> l.processed]
  BY <1>2 DEF Ledgers
<1>5. ll = [l EXCEPT !.asOf = at, !.positions = ps]
  BY Zenon DEF MarkPaperPosition, l
<1>6. /\ z \in Positions /\ z.mark = price /\ z.updated = at /\ z.state = c.state
      /\ z.qty = c.qty /\ z.basis = c.basis /\ z.id = c.id /\ z.mint = c.mint
  BY ZenonT(40), <1>1 DEF Positions
<1> HIDE DEF z
<1>7. PositionOK(z, at)
  <2>1. c.basis > 0
    BY <1>1, <1>2, <1>3 DEF LedgerOK, PositionsOK, PositionOK, l
  <2> QED BY SMTT(30), <1>1, <1>6, <2>1 DEF PositionOK
<1>8. /\ PositionsFollow(l, c.id, at, ps) /\ Len(ps) = Len(l.positions)
      /\ \A k \in 1..Len(l.positions) : ps[k] = IF k = n THEN z ELSE l.positions[k]
  <2>1. n \in OpenIn(l) /\ at <= at /\ z.id = l.positions[n].id /\ z.mint = l.positions[n].mint
    BY SMTT(30), <1>6 DEF l
  <2> QED BY <1>2, <1>6, <1>7, <2>1, ReplacedPosition
<1> HIDE DEF ps
<1>9. /\ ll = [cash |-> l.cash, realized |-> l.realized, costs |-> l.costs, asOf |-> at,
               positions |-> ps, entries |-> l.entries, processed |-> l.processed]
  BY <1>4, <1>5
<1>10. /\ ll.cash = l.cash /\ ll.asOf = at /\ ll.positions = ps /\ ll.entries = l.entries
       /\ ll.processed = l.processed
  BY <1>9
<1>11. ps[n] = z /\ \A k \in 1..Len(l.positions) : k # n => ps[k] = l.positions[k]
  BY <1>1, <1>8
<1>12. LedgerOK(ll, at)
  <2>1. ll \in Ledgers
    BY <1>2, <1>8, <1>9 DEF Ledgers, PositionsFollow
  <2>2. PositionsOK(ll, at)
    BY SMTT(30), <1>8, <1>10 DEF PositionsOK, PositionsFollow
  <2>3. c.id \in l.processed
    BY <1>1, <1>2 DEF LedgerOK, IdentitiesOK, l
  <2>4. IdentitiesOK(ll)
    BY <1>8, <1>10, <2>3 DEF IdentitiesOK, PositionsFollow
  <2>5. ExitKeysOK(ll)
    BY <1>2, <1>8, <1>10 DEF LedgerOK, ExitKeysOK, PositionsFollow
  <2>6. Balance(ll, Len(ll.entries)) = Balance(l, Len(l.entries))
    BY <1>10 DEF Balance
  <2> QED BY SMTT(30), <1>2, <1>10, <2>1, <2>2, <2>4, <2>5, <2>6 DEF LedgerOK
<1>13. /\ Working(r) /\ r.ledger = ll /\ r.managed = v.managed /\ r.entry = v.entry
  BY DEF Working
<1>14. \A k \in 1..Len(l.positions) :
          /\ ll.positions[k].id = l.positions[k].id
          /\ ll.positions[k].mint = l.positions[k].mint
          /\ ll.positions[k].state = l.positions[k].state
          /\ ll.positions[k].basis = l.positions[k].basis
          /\ ll.positions[k].qty = l.positions[k].qty
  BY SMTT(30), <1>6, <1>10, <1>11 DEF l
<1>15. OpenIn(ll) = OpenIn(l)
  <2>1. DOMAIN ll.positions = 1..Len(l.positions)
    <3>1. ps \in Seq(Positions)
      BY <1>8 DEF PositionsFollow
    <3> QED BY SMTT(30), <1>8, <1>10, <3>1
  <2> QED BY <1>3, <1>14, <2>1 DEF OpenIn
<1>16. EntryOK(ll, v.entry, at) /\ RiskOK(ll, v.entry)
  <2>1. \A k \in 1..Len(l.positions) : l.positions[k].basis \in Nat
    <3>1. \A k \in 1..Len(l.positions) : l.positions[k] \in Positions
      BY <1>3, ElementOfSeq
    <3> QED BY <3>1, PositionFields
  <2>2. \A k \in 1..Len(l.positions) :
          /\ ll.positions[k].mint = l.positions[k].mint
          /\ ll.positions[k].state = "OPEN" =>
                l.positions[k].state = "OPEN" /\ ll.positions[k].basis <= l.positions[k].basis
    BY <1>14, <2>1
  <2>3. EntryOK(l, v.entry, at) /\ RiskOK(l, v.entry)
    BY DEF StateOK, l
  <2>4. Len(ll.positions) = Len(l.positions)
    BY <1>8, <1>10
  <2> DEFINE pending == v.entry
  <2>5. EntryOK(l, pending, at) /\ RiskOK(l, pending)
    BY <2>3
  <2> HIDE DEF pending
  <2>6. EntryOK(ll, pending, at) /\ RiskOK(ll, pending)
    BY SMTT(30), <1>2, <1>12, <2>2, <2>4, <2>5, ShrunkOK
  <2> QED BY <2>6 DEF pending
<1>17. ManagedOK(ll, v.managed, at)
  <2>1. \A k \in OpenIn(l) : ll.positions[k].id = l.positions[k].id
    BY <1>3, <1>14 DEF OpenIn
  <2>2. IdsOf(ll, OpenIn(ll)) = IdsOf(l, OpenIn(l))
    BY <1>15, <2>1 DEF IdsOf
  <2>3. ASSUME NEW k \in OpenIn(l)
        PROVE  ManagementOK(ll, ll.positions[k], v.managed[l.positions[k].id], at)
    <3>1. CASE k = n
      <4> DEFINE m == v.managed[c.id]
      <4>1. ManagementOK(l, c, m, at) /\ m.exit.high >= price
        BY <1>1
      <4> HIDE DEF m
      <4>2. DecisionFits(c, m.pending) => DecisionFits(z, m.pending)
        BY SMTT(30), <1>6 DEF DecisionFits
      <4>3. PendingOK(ll, z, m)
        BY SMTT(30), <1>6, <1>10, <4>1, <4>2 DEF ManagementOK, PendingOK
      <4>4. ManagementOK(ll, z, m, at)
        BY SMTT(30), <1>6, <1>10, <4>1, <4>3 DEF ManagementOK
      <4> QED BY SMTT(30), <1>10, <1>11, <3>1, <4>4 DEF m, l
    <3>2. CASE k # n
      <4>1. ll.positions[k] = l.positions[k]
        BY <1>3, <1>10, <1>11, <3>2 DEF OpenIn
      <4> DEFINE a == l.positions[k]
                 m == v.managed[a.id]
                 key == <<"BUY">>
      <4>2. ManagementOK(l, a, m, at)
        BY <1>2 DEF ManagedOK
      <4>3. ll.processed \subseteq l.processed \cup {key} /\ key[1] # "SELL" /\ at <= at
        BY <1>10
      <4> HIDE DEF a, m, key
      <4>4. ManagementOK(ll, a, m, at)
        BY <4>2, <4>3, ManagementKept
      <4> QED BY <4>1, <4>4 DEF a, m
    <3> QED BY SMTT(30), <3>1, <3>2
  <2> QED BY <1>2, <1>15, <2>1, <2>2, <2>3 DEF ManagedOK
<1>18. StateOK(r, at)
  BY <1>12, <1>13, <1>16, <1>17 DEF StateOK
<1> QED BY SMTT(30), <1>8, <1>10, <1>11, <1>13, <1>14, <1>18 DEF l, MarkedAs

IsMarked(s, v, n, p, price, at) ==
    /\ Working(s) /\ StateOK(s, at) /\ n \in OpenIn(s.ledger) /\ p = s.ledger.positions[n]
    /\ Worked(s, v, n, at) /\ price \in Nat \ {0} /\ MayMark(v.ledger, n, at)
    /\ p.id \in DOMAIN v.managed => v.managed[p.id].exit.high >= price

LEMMA Marked ==
    ASSUME NEW at \in Nat, NEW s, NEW v, NEW n, NEW p, NEW price,
           IsMarked(s, v, n, p, price, at),
           NEW ll, ll = MarkPaperPosition(v.ledger, n, price, at),
           NEW r, r = [v EXCEPT !.ledger = ll]
    PROVE  Worked(s, r, n, at) /\ r.managed = v.managed
<1>state. Working(s) /\ StateOK(s, at) /\ n \in OpenIn(s.ledger) /\ p = s.ledger.positions[n]
  BY SMTT(30) DEF IsMarked
<1>given. /\ Worked(s, v, n, at) /\ price \in Nat \ {0} /\ MayMark(v.ledger, n, at)
          /\ p.id \in DOMAIN v.managed => v.managed[p.id].exit.high >= price
  BY SMTT(30) DEF IsMarked
<1> DEFINE c == v.ledger.positions[n]
<1>1. Working(v) /\ StateOK(v, at) /\ Touches(s, v, n) /\ Remembers(s, v, n, p.id)
  BY <1>state, <1>given DEF Worked
<1>2. n \in 1..Len(s.ledger.positions) /\ Len(s.ledger.entries) \in Nat
  BY SMTT(30), <1>state, OpenPosition
<1>3. n \in OpenIn(v.ledger) /\ c.id = p.id
  BY <1>state, <1>given, <1>1, <1>2 DEF MayMark, OpenIn, Touches
<1>4. c.id \in DOMAIN v.managed
  BY <1>1, <1>3 DEF StateOK, ManagedOK, IdsOf
<1> HIDE DEF c
<1>5. Working(r) /\ StateOK(r, at) /\ MarkedAs(v, r, n)
  <2>1. v.managed[c.id].exit.high >= price /\ c = v.ledger.positions[n]
    BY <1>given, <1>3, <1>4 DEF c
  <2> QED BY <1>given, <1>1, <1>3, <2>1, MarkingOK
<1>6. Touches(s, r, n)
  <2>1. Extends(s.ledger, r.ledger, 1)
    BY <1>1, <1>5 DEF Touches, Extends, MarkedAs
  <2>2. /\ r.ledger.entries = v.ledger.entries /\ r.managed = v.managed
        /\ r.entry = s.entry /\ Len(r.ledger.positions) = Len(s.ledger.positions)
    BY <1>1, <1>5 DEF Touches, MarkedAs
  <2>3. \A k \in 1..Len(s.ledger.positions) :
           /\ r.ledger.positions[k].id = s.ledger.positions[k].id
           /\ k # n => r.ledger.positions[k] = s.ledger.positions[k]
    BY <1>1, <1>5 DEF Touches, MarkedAs
  <2>4. \A k \in (Len(s.ledger.entries) + 1)..Len(r.ledger.entries) :
           /\ r.ledger.entries[k].side = "SELL"
           /\ r.ledger.entries[k].position = s.ledger.positions[n].id
    BY SMTT(30), <1>1, <2>2 DEF Touches
  <2>5. /\ DOMAIN r.managed \subseteq DOMAIN s.managed
        /\ \A id \in DOMAIN s.managed :
              id # s.ledger.positions[n].id =>
                  id \in DOMAIN r.managed /\ r.managed[id] = s.managed[id]
    BY <1>1, <2>2 DEF Touches
  <2> QED BY <2>1, <2>2, <2>3, <2>4, <2>5, Zenon DEF Touches
<1>7. Remembers(s, r, n, p.id)
  <2>1. r.ledger.positions[n].qty = v.ledger.positions[n].qty
    BY <1>1, <1>2, <1>5 DEF Touches, MarkedAs
  <2>2. r.ledger.entries = v.ledger.entries /\ r.managed = v.managed
    BY <1>5 DEF MarkedAs
  <2>3. \A k \in Nat : Balance(r.ledger, k) = Balance(v.ledger, k)
    <3> SUFFICES ASSUME NEW k \in Nat PROVE Balance(r.ledger, k) = Balance(v.ledger, k)
      OBVIOUS
    <3> DEFINE l == v.ledger
               m == r.ledger
    <3>1. \A j \in 1..k : m.entries[j] = l.entries[j]
      BY <2>2
    <3> HIDE DEF l, m
    <3>2. Balance(m, k) = Balance(l, k)
      BY <3>1, BalanceOfPrefix
    <3> QED BY <3>2 DEF l, m
  <2>4. ExitKept(s, v, p.id) => ExitKept(s, r, p.id)
    <3>1. \A k \in Len(s.ledger.entries)..Len(v.ledger.entries) : k \in Nat
      BY <1>2
    <3> QED BY <2>2, <2>3, <3>1 DEF ExitKept
  <2> QED BY <1>1, <2>1, <2>2, <2>4 DEF Remembers, Remembered
<1>8. r.managed = v.managed
  BY <1>5 DEF MarkedAs
<1> QED BY <1>state, <1>5, <1>6, <1>7, <1>8 DEF Worked

\* One position worked, as far as its sale: its management is mm before that.
Attempted(s, n, mm, cycle) ==
    LET p == s.ledger.positions[n]
    IN  IF mm.pending # None /\ ExitQuoteUsable(mm.pending, cycle.quotes[p.mint], cycle.at)
        THEN SellPending(s, n, mm.exit, mm.pending, cycle)
        ELSE [s EXCEPT !.managed[p.id] = mm]

LEMMA WorkExitIs ==
    ASSUME NEW s, NEW n, NEW cycle
    PROVE  LET p == s.ledger.positions[n]
               m == s.managed[p.id]
               o == cycle.observations[p.id]
           IN  WorkExit(s, n, cycle) =
                   MarkFresh(Attempted(s, n, Reassessed(p, m, o, cycle.at), cycle), n,
                             IF o = None THEN None ELSE AssessExit(p, m.exit, o, cycle.at),
                             cycle.at)
<1> DEFINE p == s.ledger.positions[n]
           m == s.managed[p.id]
           o == cycle.observations[p.id]
           mm == Reassessed(p, m, o, cycle.at)
           fresh == IF o = None THEN None ELSE AssessExit(p, m.exit, o, cycle.at)
           exit == IF o = None THEN m.exit ELSE fresh.state
           pending == IF o = None THEN m.pending ELSE Reconciled(m.pending, fresh)
<1>1. mm = [exit |-> exit, pending |-> pending]
  BY DEF Reassessed
<1>2. mm.exit = exit /\ mm.pending = pending
  <2> HIDE DEF mm, exit, pending
  <2> QED BY <1>1
<1>3. WorkExit(s, n, cycle) =
          MarkFresh(IF /\ pending # None
                       /\ ExitQuoteUsable(pending, cycle.quotes[p.mint], cycle.at)
                    THEN SellPending(s, n, exit, pending, cycle)
                    ELSE [s EXCEPT !.managed[p.id] = [exit |-> exit, pending |-> pending]],
                    n, fresh, cycle.at)
  BY DEF WorkExit
<1>4. Attempted(s, n, mm, cycle) =
          IF mm.pending # None /\ ExitQuoteUsable(mm.pending, cycle.quotes[p.mint], cycle.at)
          THEN SellPending(s, n, mm.exit, mm.pending, cycle)
          ELSE [s EXCEPT !.managed[p.id] = mm]
  BY DEF Attempted
<1> HIDE DEF mm, exit, pending, fresh
<1>5. Attempted(s, n, mm, cycle) =
          IF pending # None /\ ExitQuoteUsable(pending, cycle.quotes[p.mint], cycle.at)
          THEN SellPending(s, n, exit, pending, cycle)
          ELSE [s EXCEPT !.managed[p.id] = [exit |-> exit, pending |-> pending]]
  BY <1>1, <1>2, <1>4
<1>6. WorkExit(s, n, cycle) = MarkFresh(Attempted(s, n, mm, cycle), n, fresh, cycle.at)
  BY <1>3, <1>5, Zenon
<1> QED BY <1>6 DEF mm, fresh

\* A quote that sells the whole of a position now, for more than that costs.
Closing(p, d, q, at) ==
    /\ d.action = "EXIT" /\ q # None /\ Sells(q, p) /\ q.mint = p.mint
    /\ q.observed >= d.asOf + Latency /\ q.observed <= at
    /\ at <= d.asOf + Latency + MaxQuoteLag

MayClose(p, d, q, at, i, processed) ==
    /\ p \in Positions /\ DecisionFits(p, d) /\ q \in CycleQuotes /\ d.asOf <= at
    /\ Closing(p, d, q, at) /\ i = ExitIntent(p, d, q) /\ i.key \notin processed

ClosesFully(x, p) == x.state = "FILLED" /\ x.qty = p.qty /\ x.net >= 0

LEMMA SellsExecutable ==
    ASSUME NEW q, NEW p, Sells(q, p)
    PROVE  q.state = "EXECUTABLE"
BY DEF Sells

LEMMA ClosingFills ==
    ASSUME NEW p, NEW d, NEW q, NEW at \in Nat, NEW i, NEW processed,
           MayClose(p, d, q, at, i, processed),
           NEW x, x = ExecutePaperIntent(i, at, q, processed)
    PROVE  ClosesFully(x, p)
<1> SUFFICES ASSUME p \in Positions, DecisionFits(p, d), q \in CycleQuotes, d.asOf <= at,
                    Closing(p, d, q, at), i = ExitIntent(p, d, q), i.key \notin processed
             PROVE  ClosesFully(x, p)
  BY DEF MayClose
<1> DEFINE proceeds == p.qty * q.price
<1>1. /\ d.qty = p.qty /\ p.qty \in Nat \ {0} /\ d.asOf \in Nat
  BY SMTT(30), DecisionFields DEF DecisionFits, Closing
<1>2. /\ q.price \in Nat \ {0} /\ q.ref \in Nat \ {0} /\ q.avail \in Nat /\ q.observed \in Int
      /\ Latency \in Nat /\ MaxQuoteLag \in Nat /\ MaxSlippage \in Nat
  BY LoopAssumption, PolicyAssumption DEF CycleQuotes
<1>3. /\ i.side = "SELL" /\ i.notional = proceeds /\ i.asOf = d.asOf /\ i.mint = p.mint
      /\ i.maxSlippage = MaxSlippage
  BY <1>1, ExitIntentFacts
<1>4. proceeds \in Nat \ {0}
  BY <1>1, <1>2
<1>5. /\ q # None /\ q.state = "EXECUTABLE" /\ q.avail >= proceeds
      /\ (q.ref - q.price) * 10000 <= MaxSlippage * q.ref
      /\ proceeds >= (proceeds * SwapFeeBps) \div 10000 + NetworkFee
  BY DEF Closing, Sells
<1> DEFINE cost == (proceeds * SwapFeeBps) \div 10000 + NetworkFee
<1>6. cost \in Nat /\ proceeds >= cost
  <2> HIDE DEF proceeds
  <2> QED BY <1>4, <1>5, CostIsNat
<1>7. Quantity(proceeds, q.price) = p.qty
  BY <1>1, <1>2, LoopAssumption, QuantityExact
<1> HIDE DEF proceeds
<1>8. FillNotional(i, q) = proceeds
  BY <1>2, <1>3, <1>4, <1>5 DEF FillNotional
<1>9. Fillable(i, q)
  BY <1>3, <1>4, <1>5, <1>8 DEF Fillable, SlippageWithin
<1>10. ~Malformed(i, at, q, processed) /\ ~Waiting(i, at, q) /\ InWindow(i, q)
  BY <1>1, <1>2, <1>3, <1>5 DEF Malformed, Waiting, InWindow, EligibleAt, Deadline, Closing
<1>11. x = Filled(i, at, q)
  BY <1>5, <1>9, <1>10 DEF ExecutePaperIntent
<1>12. x = Outcome(i, at, "FILLED", proceeds, p.qty, q.price, cost, proceeds - cost)
  <2>1. ~(proceeds < proceeds)
    BY <1>4
  <2> QED BY <1>3, <1>7, <1>8, <1>11, <2>1 DEF Filled
<1> HIDE DEF cost
<1>13. x.state = "FILLED" /\ x.qty = p.qty /\ x.net = proceeds - cost
  BY <1>12 DEF Outcome
<1> QED BY <1>4, <1>6, <1>13 DEF ClosesFully

MayAttempt(s, n, p, mm, cycle, at) ==
    /\ CycleOK(cycle) /\ at = cycle.at
    /\ Working(s) /\ StateOK(s, at) /\ n \in OpenIn(s.ledger) /\ p = s.ledger.positions[n]
    /\ ManagementOK(s.ledger, p, mm, at) /\ Continues(s.managed[p.id], mm)
    /\ Exiting(s.managed[p.id]) => mm.pending = s.managed[p.id].pending

\* Without a quote nothing is sold, and a quote that closes the position does.
ExitEffect(r, p, mm, q, at) ==
    /\ q = None => p.id \in DOMAIN r.managed /\ r.managed[p.id] = mm
    /\ mm.pending # None /\ Closing(p, mm.pending, q, at) => p.id \notin DOMAIN r.managed

AttemptEffect(s, v, n, p, mm, q, at) ==
    /\ Worked(s, v, n, at)
    /\ p.id \in DOMAIN v.managed => v.managed[p.id].exit.high = mm.exit.high
    /\ ExitEffect(v, p, mm, q, at)

\* One position worked, as far as its sale.
LEMMA AttemptedOK ==
    ASSUME NEW cycle, NEW at \in Nat, NEW s, NEW n, NEW p, NEW mm,
           MayAttempt(s, n, p, mm, cycle, at),
           NEW q, q = cycle.quotes[p.mint], NEW v, v = Attempted(s, n, mm, cycle)
    PROVE  AttemptEffect(s, v, n, p, mm, q, at)
<1>state. /\ CycleOK(cycle) /\ at = cycle.at
          /\ Working(s) /\ StateOK(s, at) /\ n \in OpenIn(s.ledger) /\ p = s.ledger.positions[n]
  BY SMTT(30) DEF MayAttempt
<1>given. /\ ManagementOK(s.ledger, p, mm, at) /\ Continues(s.managed[p.id], mm)
          /\ Exiting(s.managed[p.id]) => mm.pending = s.managed[p.id].pending
  BY DEF MayAttempt
<1> SUFFICES
      /\ Worked(s, v, n, at)
      /\ p.id \in DOMAIN v.managed => v.managed[p.id].exit.high = mm.exit.high
      /\ q = None => p.id \in DOMAIN v.managed /\ v.managed[p.id] = mm
      /\ mm.pending # None /\ Closing(p, mm.pending, q, at) => p.id \notin DOMAIN v.managed
  BY DEF AttemptEffect, ExitEffect
<1> DEFINE d == mm.pending
           m == s.managed[p.id]
           kept == Manage(s, p.id, mm)
<1>1. /\ p \in Positions /\ p.qty \in Nat \ {0} /\ p.state = "OPEN" /\ p.mint \in Mints
      /\ s.ledger \in Ledgers /\ LedgerOK(s.ledger, at) /\ p.id \in DOMAIN s.managed
  BY <1>state, OpenPosition, PositionFields DEF StateOK
<1>2. /\ mm = [exit |-> mm.exit, pending |-> d] /\ mm.exit \in ExitStates
      /\ Continues(m, mm) /\ (Exiting(m) => d = m.pending)
  BY <1>given DEF ManagementOK
<1>3. Remembered(m, mm, p, p)
  BY <1>2 DEF Continues, Remembered
<1>4. Worked(s, kept, n, at) /\ kept.managed[p.id] = mm /\ p.id \in DOMAIN kept.managed
  <2> DEFINE r == kept
  <2>1. r = Manage(s, p.id, mm)
    OBVIOUS
  <2>2. DOMAIN r.managed = DOMAIN s.managed
    BY DEF Working, Manage
  <2>3. Exiting(s.managed[p.id]) =>
            mm.pending = s.managed[p.id].pending \/ Penniless(s.ledger)
    BY <1>given
  <2>4. Remembered(s.managed[p.id], mm, p, p)
    BY <1>3
  <2> HIDE DEF r, m, d
  <2>5. Worked(s, r, n, at) /\ r.managed[p.id] = mm
    <3>1. MayManage(s, n, p, mm, at)
      BY Zenon, <1>state, <1>given, <2>3, <2>4 DEF MayManage
    <3> QED BY SMTT(30), <2>1, <3>1, Remanaged
  <2> QED BY <1>1, <2>2, <2>5 DEF r
<1>5. CASE ~(d # None /\ ExitQuoteUsable(d, q, at))
  <2>1. v = kept
    BY <1>state, <1>5 DEF Attempted, Manage
  <2>2. ~(d # None /\ Closing(p, d, q, at))
    <3> SUFFICES ASSUME d # None, Closing(p, d, q, at) PROVE ExitQuoteUsable(d, q, at)
      BY <1>5
    <3> HIDE DEF d
    <3>1. Sells(q, p)
      BY DEF Closing
    <3>2. q.state = "EXECUTABLE"
      BY <3>1, SellsExecutable
    <3> QED BY <3>2 DEF Closing, ExitQuoteUsable
  <2> HIDE DEF kept
  <2> QED BY <1>4, <2>1, <2>2
<1>6. CASE d # None /\ ExitQuoteUsable(d, q, at)
  <2> DEFINE i == ExitIntent(p, d, q)
             x == ExecutePaperIntent(i, at, q, s.ledger.processed)
             l == ApplyPaperExecution(s.ledger, i, x)
             acknowledged == IF Verdict(s.ledger, i, x) = "APPLIED"
                             THEN AcknowledgeExitFill(mm.exit, d, p, l.positions[n])
                             ELSE mm.exit
             sold == [s EXCEPT
                        !.ledger = l,
                        !.managed =
                            IF l.positions[n].state = "CLOSED"
                            THEN [id \in DOMAIN @ \ {p.id} |-> @[id]]
                            ELSE [@ EXCEPT ![p.id] = Settled(acknowledged, d)]]
  <2>1. v = IF x.state = "DEFERRED"
            THEN [s EXCEPT !.managed[p.id] = [exit |-> mm.exit, pending |-> d]]
            ELSE sold
    BY ZenonT(40), <1>state, <1>6 DEF Attempted, SellPending
  <2>2. q \in CycleQuotes /\ q # None
    BY <1>state, <1>1, <1>6 DEF CycleOK, ExitQuoteUsable
  <2>3. /\ DecisionFits(p, d) /\ ExitKey(p.id, d) \notin s.ledger.processed
        /\ d.asOf <= mm.exit.evaluated /\ mm.exit.evaluated <= at
    BY <1>given, <1>6 DEF ManagementOK, PendingOK
  <2>4. d.asOf <= at
    <3>1. mm.exit.evaluated \in Nat
      BY <1>2 DEF ExitStates
    <3> HIDE DEF d
    <3>2. d.asOf \in Nat
      BY <1>1, <2>3, DecisionFields
    <3> QED BY <2>3, <3>1, <3>2
  <2>5. IntentOK(i) /\ i.key = ExitKey(p.id, d) /\ i.side = "SELL"
    <3>1. i = ExitIntent(p, d, q)
      OBVIOUS
    <3> HIDE DEF d, i
    <3> QED BY <1>1, <2>2, <2>3, <3>1, ExitIntentFacts
  <2>6. ExecutionOK(i, q, at, x) /\ x.at = at /\ x.key = i.key
    <3> HIDE DEF i
    <3>1. ExecutionOK(i, q, at, x)
      BY <2>2, <2>5, ExecutionShape
    <3> QED BY <3>1 DEF ExecutionOK
  <2>7. Closing(p, d, q, at) => ClosesFully(x, p)
    <3> SUFFICES ASSUME Closing(p, d, q, at) PROVE ClosesFully(x, p)
      OBVIOUS
    <3>1. i.key \notin s.ledger.processed
      BY <2>3, <2>5
    <3> DEFINE processed == s.ledger.processed
    <3>2. /\ x = ExecutePaperIntent(i, at, q, processed) /\ i.key \notin processed
          /\ i = ExitIntent(p, d, q)
      BY <3>1
    <3> HIDE DEF d, x, processed, i
    <3>3. MayClose(p, d, q, at, i, processed)
      BY <1>1, <2>2, <2>3, <2>4, <3>2 DEF MayClose
    <3> QED BY <3>2, <3>3, ClosingFills
  <2>8. CASE x.state = "DEFERRED"
    <3>1. v = kept
      BY <1>2, <2>1, <2>8 DEF Manage
    <3>2. ~Closing(p, d, q, at)
      <4> HIDE DEF x
      <4> QED BY <2>7, <2>8 DEF ClosesFully
    <3> HIDE DEF kept, d
    <3> QED BY <1>4, <2>2, <3>1, <3>2 DEF d
  <2>9. CASE x.state # "DEFERRED"
    <3>1. SaleBooked(s.ledger, n, i, x, l) /\ LedgerOK(l, at)
      <4> DEFINE before == s.ledger
      <4>1. /\ LedgerOK(before, at) /\ n \in OpenIn(before) /\ p = before.positions[n]
            /\ ExitKey(before.positions[n].id, d) \notin before.processed
            /\ l = ApplyPaperExecution(before, i, x)
            /\ DecisionFits(before.positions[n], d)
            /\ i = ExitIntent(before.positions[n], d, q)
            /\ at <= at
        BY <1>state, <1>1, <2>3
      <4> HIDE DEF before, d, i, x, l
      <4>2. SaleBooked(before, n, i, x, l) /\ LedgerOK(l, at)
        BY Zenon, <2>2, <2>6, <2>9, <4>1, SaleBooking
      <4> QED BY <4>2 DEF before
    <3>2. v = sold
      BY Zenon, <2>1, <2>9
    <3>3. CASE Verdict(s.ledger, i, x) # "APPLIED"
      <4>1. l = s.ledger /\ s.ledger.cash < NetworkFee /\ Unaffordable(s.ledger, x)
        <5> HIDE DEF l, i, x
        <5> QED BY <3>1, <3>3 DEF SaleBooked
      <4> DEFINE mz == [exit |-> mm.exit, pending |-> None]
      <4>2. v = Manage(s, p.id, mz)
        <5>1. acknowledged = mm.exit /\ ~(l.positions[n].state = "CLOSED")
          BY Zenon, <1>state, <1>1, <3>3, <4>1
        <5>2. sold = [s EXCEPT !.ledger = s.ledger,
                               !.managed = [@ EXCEPT ![p.id] = mz]]
          <6> HIDE DEF l, i, x, acknowledged
          <6> QED BY <4>1, <5>1 DEF Settled
        <5> HIDE DEF sold, mz
        <5> QED BY Zenon, <3>2, <5>2 DEF Working, Manage
      <4>3. ManagementOK(s.ledger, p, mz, at)
        <5>1. mz.exit = mm.exit /\ mz.pending = None
              /\ mz \in [exit : ExitStates, pending : Decisions \cup {None}]
          BY <1>2
        <5> HIDE DEF mz
        <5> QED BY <1>given, <5>1 DEF ManagementOK, PendingOK
      <4>4. Remembered(m, mz, p, p)
        <5>1. mz.exit = mm.exit
          OBVIOUS
        <5> HIDE DEF mz
        <5> QED BY <1>3, <5>1 DEF Remembered
      <4>5. ~Closing(p, d, q, at)
        <5>1. s.ledger.cash \in Nat /\ x.net \in Int
          <6> HIDE DEF x, i
          <6> QED BY <1>1, <2>6, LedgerFields DEF ExecutionOK
        <5> HIDE DEF x, i
        <5> QED BY <1>1, <2>7, <4>1, <5>1 DEF Unaffordable, ClosesFully
      <4>6. mz.exit.high = mm.exit.high
        OBVIOUS
      <4>7. p.id \in DOMAIN v.managed
        <5> HIDE DEF mz
        <5> QED BY <1>1, <4>2 DEF Working, Manage
      <4> HIDE DEF mz, m, d, sold, kept, l, i, x
      <4>8. Exiting(s.managed[p.id]) =>
                mz.pending = s.managed[p.id].pending \/ Penniless(s.ledger)
        BY <4>1 DEF Penniless
      <4>9. Remembered(s.managed[p.id], mz, p, p)
        BY <4>4 DEF m
      <4>10. Worked(s, v, n, at) /\ v.managed[p.id] = mz
        <5>1. MayManage(s, n, p, mz, at)
          BY Zenon, <1>state, <1>given, <4>3, <4>8, <4>9 DEF MayManage
        <5> QED BY SMTT(30), <4>2, <5>1, Remanaged
      <4> QED BY <2>2, <4>5, <4>6, <4>7, <4>10 DEF d
    <3>4. CASE Verdict(s.ledger, i, x) = "APPLIED"
      <4>1. v = SoldState(s, n, mm, p, l)
        <5>1. acknowledged = AcknowledgeExitFill(mm.exit, d, p, l.positions[n])
          BY <3>4
        <5>2. SoldManagement(s.managed, mm, p, l.positions[n]) =
                 IF l.positions[n].state = "CLOSED"
                 THEN [id \in DOMAIN s.managed \ {p.id} |-> s.managed[id]]
                 ELSE [s.managed EXCEPT ![p.id] = Settled(acknowledged, d)]
          <6> HIDE DEF acknowledged, l
          <6> QED BY <5>1 DEF SoldManagement, Settled
        <5> HIDE DEF acknowledged, l
        <5> QED BY <1>state, <3>2, <5>2 DEF Working, SoldState
      <4>2. SoldAs(s.ledger, n, i, x, l)
        <5> HIDE DEF i, x, l
        <5> QED BY <3>1, <3>4 DEF SaleBooked
      <4> HIDE DEF l, i, x, sold, kept, m, d
      <4>3. /\ mm.pending # None /\ i.key = ExitKey(p.id, mm.pending) /\ i.side = "SELL"
            /\ x.at = at /\ x.key = i.key /\ LedgerOK(l, at)
        BY <1>6, <2>5, <2>6, <3>1 DEF d
      <4>4. SaleEffect(s, v, n, p, mm, x, at)
        <5>1. IsSold(s, n, p, mm, i, x, l, at)
          BY <1>state, <1>given, <4>2, <4>3, Zenon DEF IsSold
        <5> QED BY <4>1, <5>1, Sold
      <4> QED BY SMTT(30), <2>2, <2>7, <4>4 DEF d, ClosesFully, SaleEffect
    <3> QED BY <3>3, <3>4
  <2> QED BY Zenon, <2>8, <2>9
<1> QED BY SMTT(30), <1>5, <1>6

MayWork(s, n, p, cycle, at) ==
    /\ CycleOK(cycle) /\ at = cycle.at
    /\ Working(s) /\ StateOK(s, at) /\ n \in OpenIn(s.ledger) /\ p = s.ledger.positions[n]
    /\ Assessable(s.managed[p.id], cycle.observations[p.id], at)

LEMMA MarkFreshIs ==
    ASSUME NEW v, NEW n, NEW fresh, NEW at, NEW r, r = MarkFresh(v, n, fresh, at)
    PROVE  \/ r = v
           \/ /\ fresh # None /\ fresh.price # None /\ MayMark(v.ledger, n, at)
              /\ r = [v EXCEPT !.ledger = MarkPaperPosition(v.ledger, n, fresh.price, at)]
BY DEF MarkFresh

\* One position worked: it is assessed, sold from if there is a quote, marked.
LEMMA WorkExitOK ==
    ASSUME NEW cycle, NEW at \in Nat, NEW s, NEW n, NEW p, MayWork(s, n, p, cycle, at),
           NEW mm, mm = Reassessed(p, s.managed[p.id], cycle.observations[p.id], at),
           NEW q, q = cycle.quotes[p.mint], NEW r, r = WorkExit(s, n, cycle)
    PROVE  Worked(s, r, n, at) /\ ExitEffect(r, p, mm, q, at)
<1> DEFINE m == s.managed[p.id]
           o == cycle.observations[p.id]
           d == AssessExit(p, m.exit, o, at)
           fresh == IF o = None THEN None ELSE d
           v == Attempted(s, n, mm, cycle)
<1>1. /\ CycleOK(cycle) /\ at = cycle.at /\ Working(s) /\ StateOK(s, at)
      /\ n \in OpenIn(s.ledger) /\ p = s.ledger.positions[n] /\ Assessable(m, o, at)
  BY Zenon DEF MayWork
<1>2. /\ p \in Positions /\ p.qty > 0 /\ s.ledger.processed \subseteq LoopKeys
      /\ ManagementOK(s.ledger, p, m, at)
  BY ZenonT(40), <1>1, OpenPosition
<1>3. /\ ManagementOK(s.ledger, p, mm, at) /\ Continues(m, mm)
      /\ Exiting(m) => mm.pending = m.pending
      /\ o # None => Seen(d, mm)
  <2> DEFINE l == s.ledger
  <2>1. MayAssess(l, p, m, o, at)
    BY Zenon, <1>1, <1>2 DEF MayAssess
  <2> HIDE DEF m, o, l
  <2>2. mm = Reassessed(p, m, o, at)
    BY DEF m, o
  <2>3. /\ ManagementOK(l, p, mm, at) /\ Continues(m, mm)
        /\ Exiting(m) => mm.pending = m.pending
        /\ o # None => Seen(AssessExit(p, m.exit, o, at), mm)
    BY SMTT(30), <2>1, <2>2, ReassessedOK
  <2> QED BY <2>3 DEF l
<1>4. r = MarkFresh(v, n, fresh, at)
  BY ZenonT(40), <1>1, WorkExitIs
<1>5. MayAttempt(s, n, p, mm, cycle, at)
  BY Zenon, <1>1, <1>3 DEF MayAttempt
<1>6. AttemptEffect(s, v, n, p, mm, q, at)
  <2> HIDE DEF v
  <2>1. v = Attempted(s, n, mm, cycle)
    BY DEF v
  <2> QED BY <1>5, <2>1, AttemptedOK
<1> HIDE DEF v, fresh
<1>7. Worked(s, v, n, at) /\ ExitEffect(v, p, mm, q, at)
      /\ (p.id \in DOMAIN v.managed => v.managed[p.id].exit.high = mm.exit.high)
  BY <1>6 DEF AttemptEffect
<1>8. CASE r = v
  BY <1>7, <1>8
<1>9. CASE r # v
  <2>1. /\ fresh # None /\ fresh.price # None /\ MayMark(v.ledger, n, at)
        /\ r = [v EXCEPT !.ledger = MarkPaperPosition(v.ledger, n, fresh.price, at)]
    BY <1>4, <1>9, MarkFreshIs
  <2>2. fresh = d /\ o # None
    BY <2>1 DEF fresh
  <2> DEFINE price == d.price
             ll == MarkPaperPosition(v.ledger, n, price, at)
  <2> HIDE DEF d, m, o
  <2>3. price \in Nat \ {0} /\ mm.exit.high >= price
    BY <1>3, <2>1, <2>2 DEF Seen
  <2>4. r = [v EXCEPT !.ledger = ll]
    BY <2>1, <2>2
  <2>5. p.id \in DOMAIN v.managed => v.managed[p.id].exit.high >= price
    <3> HIDE DEF price
    <3> QED BY <1>7, <2>3
  <2> HIDE DEF price
  <2>6. ll = MarkPaperPosition(v.ledger, n, price, at)
    OBVIOUS
  <2> HIDE DEF ll
  <2>7. Worked(s, r, n, at) /\ r.managed = v.managed
    <3>1. IsMarked(s, v, n, p, price, at)
      BY Zenon, <1>1, <1>7, <2>1, <2>3, <2>5 DEF IsMarked
    <3> QED BY SMTT(30), <2>4, <2>6, <3>1, Marked
  <2>8. ExitEffect(r, p, mm, q, at)
    BY <1>7, <2>7 DEF ExitEffect
  <2> QED BY <2>7, <2>8
<1> QED BY Zenon, <1>8, <1>9

-----------------------------------------------------------------------------
(* The exits of a cycle, one position after the other.                     *)

ExitSteps(f, s, before, cycle) ==
    /\ f[0] = s /\ f[Len(before.positions)] = WorkExits(s, before, cycle)
    /\ \A n \in 1..Len(before.positions) :
          f[n] = IF before.positions[n].state = "OPEN"
                 THEN WorkExit(f[n - 1], n, cycle) ELSE f[n - 1]

LEMMA ExitsWorked ==
    ASSUME NEW s, NEW before, NEW cycle, Len(before.positions) \in Nat
    PROVE  \E f : ExitSteps(f, s, before, cycle)
<1> DEFINE len == Len(before.positions)
           Worked1(v, n) == IF before.positions[n].state = "OPEN"
                            THEN WorkExit(v, n, cycle) ELSE v
           Step(f, n) == Worked1(f[n - 1], n)
           UpTo(f, N) == f = [n \in 0..N |-> IF n = 0 THEN s ELSE Step(f, n)]
           S == {N \in Nat : \E f : UpTo(f, N)}
<1>1. 0 \in S
  <2> DEFINE f == [n \in 0..0 |-> s]
  <2>1. UpTo(f, 0)
    OBVIOUS
  <2> QED BY <2>1
<1>2. ASSUME NEW N \in Nat, N \in S PROVE N + 1 \in S
  <2>1. PICK f : UpTo(f, N)
    BY <1>2
  <2> DEFINE g == [n \in 0..(N + 1) |-> IF n = N + 1 THEN Worked1(f[N], N + 1) ELSE f[n]]
  <2>2. ASSUME NEW n \in 0..(N + 1)
        PROVE  g[n] = IF n = 0 THEN s ELSE Step(g, n)
    <3> HIDE DEF Worked1
    <3>1. CASE n = N + 1
      <4>1. /\ g[n] = Worked1(f[N], n)
            /\ n # 0 /\ n - 1 = N /\ N \in 0..(N + 1) /\ N # N + 1
        BY <3>1
      <4>2. g[n - 1] = f[N]
        BY <4>1
      <4> QED BY <3>1, <4>1, <4>2
    <3>2. CASE n \in 0..N
      <4>1. g[n] = f[n] /\ n # N + 1
        BY <3>2
      <4>2. f[n] = IF n = 0 THEN s ELSE Step(f, n)
        BY <2>1, <3>2
      <4>3. n # 0 => g[n - 1] = f[n - 1]
        BY <3>2
      <4> QED BY <4>1, <4>2, <4>3
    <3> QED BY <3>1, <3>2
  <2>3. UpTo(g, N + 1)
    <3>1. g = [n \in 0..(N + 1) |-> g[n]]
      OBVIOUS
    <3> HIDE DEF g, Step
    <3> QED BY <2>2, <3>1
  <2> HIDE DEF UpTo, g
  <2> QED BY <2>3
<1> HIDE DEF S
<1>3. len \in S
  <2> HIDE DEF len
  <2>1. len \in Nat
    BY DEF len
  <2> QED BY <1>1, <1>2, <2>1, Induction
<1> DEFINE h == CHOOSE f : UpTo(f, len)
<1>4. UpTo(h, len)
  BY <1>3 DEF S
<1>5. WorkExits(s, before, cycle) = h[len]
  BY DEF WorkExits
<1> HIDE DEF h
<1>6. \A n \in 0..len : h[n] = IF n = 0 THEN s ELSE Step(h, n)
  <2> HIDE DEF Step
  <2> QED BY <1>4
<1>7. h[0] = s /\ \A n \in 1..len : h[n] = Step(h, n)
  <2> HIDE DEF Step
  <2> QED BY <1>6
<1> QED BY <1>5, <1>7 DEF ExitSteps

\* The position k of the state after the entries was not worked yet.
Unworked(e, r, k) ==
    LET p == e.ledger.positions[k]
    IN  /\ r.ledger.positions[k] = p
        /\ p.id \in DOMAIN r.managed /\ r.managed[p.id] = e.managed[p.id]

\* It was, from the management it had.
WorkedOff(e, r, k, cycle) ==
    LET p == e.ledger.positions[k]
    IN  ExitEffect(r, p,
            Reassessed(p, e.managed[p.id], cycle.observations[p.id], cycle.at),
            cycle.quotes[p.mint], cycle.at)

\* Working exits keeps the journal, in which it books sales, the positions'
\* places, and those that are closed.
SalesOnly(e, r) ==
    /\ r.entry = e.entry
    /\ Len(e.ledger.entries) <= Len(r.ledger.entries)
    /\ \A k \in 1..Len(e.ledger.entries) : r.ledger.entries[k] = e.ledger.entries[k]
    /\ \A k \in (Len(e.ledger.entries) + 1)..Len(r.ledger.entries) :
          r.ledger.entries[k].side = "SELL"
    /\ Len(r.ledger.positions) = Len(e.ledger.positions)
    /\ \A k \in 1..Len(e.ledger.positions) :
          /\ r.ledger.positions[k].id = e.ledger.positions[k].id
          /\ e.ledger.positions[k].state # "OPEN" =>
                r.ledger.positions[k] = e.ledger.positions[k]
    /\ DOMAIN r.managed \subseteq DOMAIN e.managed

\* After the exits of the first n positions.
SoFar(e, r, n, cycle) ==
    /\ Working(r) /\ StateOK(r, cycle.at) /\ SalesOnly(e, r)
    /\ \A k \in OpenIn(e.ledger) :
          /\ Remembers(e, r, k, e.ledger.positions[k].id)
          /\ k > n => Unworked(e, r, k)
          /\ k <= n => WorkedOff(e, r, k, cycle)

\* A step that sells from one position keeps all this.
LEMMA SalesOnlyOn ==
    ASSUME NEW at \in Nat, NEW e, StateOK(e, at), NEW s, StateOK(s, at), NEW r, StateOK(r, at),
           NEW n, e.ledger.positions[n].state = "OPEN", SalesOnly(e, s), Touches(s, r, n)
    PROVE  SalesOnly(e, r)
<1>1. /\ Len(e.ledger.entries) \in Nat /\ Len(s.ledger.entries) \in Nat
      /\ Len(r.ledger.entries) \in Nat
  BY LedgerFields DEF StateOK, LedgerOK
<1>2. /\ Len(e.ledger.entries) <= Len(r.ledger.entries)
      /\ \A k \in 1..Len(e.ledger.entries) : r.ledger.entries[k] = e.ledger.entries[k]
      /\ \A k \in (Len(e.ledger.entries) + 1)..Len(r.ledger.entries) :
            r.ledger.entries[k].side = "SELL"
  <2> DEFINE a == Len(e.ledger.entries)
             b == Len(s.ledger.entries)
             c == Len(r.ledger.entries)
  <2>1. /\ a <= b /\ b <= c
        /\ \A k \in 1..b : r.ledger.entries[k] = s.ledger.entries[k]
        /\ \A k \in 1..a : s.ledger.entries[k] = e.ledger.entries[k]
        /\ \A k \in (a + 1)..b : s.ledger.entries[k].side = "SELL"
        /\ \A k \in (b + 1)..c : r.ledger.entries[k].side = "SELL"
    BY DEF Touches, Extends, SalesOnly
  <2> HIDE DEF a, b, c
  <2>2. a \in Nat /\ b \in Nat /\ c \in Nat
    BY <1>1 DEF a, b, c
  <2>3. ASSUME NEW k \in 1..a PROVE r.ledger.entries[k] = e.ledger.entries[k]
    <3>1. k \in 1..b
      BY <2>1, <2>2
    <3> QED BY <2>1, <3>1
  <2>4. ASSUME NEW k \in (a + 1)..c PROVE r.ledger.entries[k].side = "SELL"
    <3>1. (k \in 1..b /\ k \in (a + 1)..b) \/ k \in (b + 1)..c
      BY <2>1, <2>2
    <3> QED BY <2>1, <3>1
  <2>5. a <= c
    BY <2>1, <2>2
  <2> QED BY <2>3, <2>4, <2>5 DEF a, b, c
<1>3. /\ r.entry = e.entry /\ Len(r.ledger.positions) = Len(e.ledger.positions)
      /\ \A k \in 1..Len(e.ledger.positions) :
            /\ r.ledger.positions[k].id = e.ledger.positions[k].id
            /\ e.ledger.positions[k].state # "OPEN" =>
                  r.ledger.positions[k] = e.ledger.positions[k]
      /\ DOMAIN r.managed \subseteq DOMAIN e.managed
  BY DEF Touches, SalesOnly
<1> QED BY <1>2, <1>3 DEF SalesOnly

\* What is kept of a decision to exit is kept by a step that works another
\* position, and by the step that works this one when it was as it started.
LEMMA ExitKeptOn ==
    ASSUME NEW at \in Nat, NEW e, StateOK(e, at), NEW s, StateOK(s, at), NEW r, StateOK(r, at),
           NEW n, SalesOnly(e, s), Touches(s, r, n), NEW id,
           \/ ExitKept(e, s, id) /\ (id \in DOMAIN s.managed =>
                                       id \in DOMAIN r.managed /\ r.managed[id] = s.managed[id])
           \/ ExitKept(s, r, id) /\ s.managed[id] = e.managed[id]
    PROVE  ExitKept(e, r, id)
<1> DEFINE a == Len(e.ledger.entries)
           b == Len(s.ledger.entries)
           c == Len(r.ledger.entries)
<1>1. a \in Nat /\ b \in Nat /\ c \in Nat
  BY LedgerFields DEF StateOK, LedgerOK
<1>2. /\ a <= b /\ b <= c
      /\ \A k \in 1..b : r.ledger.entries[k] = s.ledger.entries[k]
  BY DEF Touches, Extends, SalesOnly
<1> HIDE DEF a, b, c
<1>3. ASSUME NEW k \in (a + 1)..b PROVE k \in (a + 1)..c /\ k \in 1..b
  BY <1>1, <1>2
<1>4. ASSUME NEW k \in (b + 1)..c PROVE k \in (a + 1)..c
  BY <1>1, <1>2
<1>5. ASSUME NEW k \in b..c PROVE k \in a..c
  BY <1>1, <1>2
<1>6. ASSUME NEW k \in a..b PROVE k \in a..c /\ Balance(r.ledger, k) = Balance(s.ledger, k)
  <2>1. k \in Nat /\ k \in a..c /\ \A j \in 1..k : j \in 1..b
    BY <1>1, <1>2
  <2>2. \A j \in 1..k : r.ledger.entries[j] = s.ledger.entries[j]
    BY SMTT(30), <1>2, <2>1
  <2> QED BY <2>1, <2>2, BalanceOfPrefix
<1>7. CASE /\ ExitKept(e, s, id)
           /\ id \in DOMAIN s.managed => id \in DOMAIN r.managed /\ r.managed[id] = s.managed[id]
  <2>1. CASE id \in DOMAIN s.managed /\ s.managed[id].pending = e.managed[id].pending
    BY <1>7, <2>1 DEF ExitKept
  <2>2. CASE \E k \in (a + 1)..b :
                s.ledger.entries[k].side = "SELL" /\ s.ledger.entries[k].position = id
    BY <1>2, <1>3, <2>2 DEF ExitKept, a, c
  <2>3. CASE \E k \in a..b : Balance(s.ledger, k) < NetworkFee
    BY <1>6, <2>3 DEF ExitKept, a, c
  <2> QED BY <1>7, <2>1, <2>2, <2>3 DEF ExitKept, a, b
<1>8. CASE ExitKept(s, r, id) /\ s.managed[id] = e.managed[id]
  <2>1. CASE id \in DOMAIN r.managed /\ r.managed[id].pending = s.managed[id].pending
    BY <1>8, <2>1 DEF ExitKept
  <2>2. CASE \E k \in (b + 1)..c :
                r.ledger.entries[k].side = "SELL" /\ r.ledger.entries[k].position = id
    BY <1>4, <2>2 DEF ExitKept, a, c
  <2>3. CASE \E k \in b..c : Balance(r.ledger, k) < NetworkFee
    BY <1>5, <2>3 DEF ExitKept, a, c
  <2> QED BY <1>8, <2>1, <2>2, <2>3 DEF ExitKept, b, c
<1> QED BY <1>7, <1>8

MayStep(e, s, n, cycle) ==
    /\ CycleOK(cycle) /\ Working(e) /\ StateOK(e, cycle.at)
    /\ n \in OpenIn(e.ledger) /\ SoFar(e, s, n - 1, cycle)
    /\ LET id == e.ledger.positions[n].id
       IN  Assessable(e.managed[id], cycle.observations[id], cycle.at)

LEMMA ExitWorkedOn ==
    ASSUME NEW cycle, NEW e, NEW s, NEW n, MayStep(e, s, n, cycle),
           NEW r, r = WorkExit(s, n, cycle)
    PROVE  SoFar(e, r, n, cycle)
<1> DEFINE at == cycle.at
           p == e.ledger.positions[n]
           id == p.id
           o == cycle.observations[id]
           q == cycle.quotes[p.mint]
           mm == Reassessed(p, e.managed[id], o, at)
<1>given. /\ CycleOK(cycle) /\ Working(e) /\ StateOK(e, at) /\ n \in OpenIn(e.ledger)
          /\ SoFar(e, s, n - 1, cycle) /\ Assessable(e.managed[id], o, at)
  BY DEF MayStep
<1>at. at \in Nat
  BY <1>given DEF CycleOK
<1>state. /\ Working(s) /\ StateOK(s, at) /\ SalesOnly(e, s)
          /\ \A k \in OpenIn(e.ledger) :
                /\ Remembers(e, s, k, e.ledger.positions[k].id)
                /\ k > n - 1 => Unworked(e, s, k)
                /\ k <= n - 1 => WorkedOff(e, s, k, cycle)
  BY <1>given DEF SoFar
<1>1. /\ n \in Nat /\ p.state = "OPEN" /\ p \in Positions
      /\ n \in 1..Len(e.ledger.positions) /\ Len(e.ledger.positions) \in Nat
      /\ \A k \in OpenIn(e.ledger) : k # n => e.ledger.positions[k].id # id
      /\ OpenIn(e.ledger) \subseteq 1..Len(e.ledger.positions)
  <2>1. /\ p.state = "OPEN" /\ p \in Positions /\ n \in 1..Len(e.ledger.positions)
        /\ Len(e.ledger.positions) \in Nat
        /\ \A k \in OpenIn(e.ledger) : k # n => e.ledger.positions[k].id # id
        /\ DOMAIN e.ledger.positions = 1..Len(e.ledger.positions)
    <3> HIDE DEF at
    <3> QED BY SMTT(30), <1>at, <1>given, OpenPosition
  <2> QED BY SMTT(30), <2>1 DEF OpenIn
<1>2. s.ledger.positions[n] = p /\ id \in DOMAIN s.managed /\ s.managed[id] = e.managed[id]
  <2>1. n > n - 1
    BY <1>1
  <2> QED BY Zenon, <1>given, <1>state, <2>1 DEF Unworked
<1>3. n \in OpenIn(s.ledger)
  <2>1. /\ Len(s.ledger.positions) = Len(e.ledger.positions)
        /\ DOMAIN s.ledger.positions = 1..Len(s.ledger.positions)
    BY <1>state, LedgerFields DEF SalesOnly, StateOK, LedgerOK
  <2> QED BY <1>1, <1>2, <2>1 DEF OpenIn
<1>4. Worked(s, r, n, at) /\ ExitEffect(r, p, mm, q, at)
  <2>1. MayWork(s, n, p, cycle, at)
    BY <1>given, <1>state, <1>2, <1>3 DEF MayWork
  <2>2. mm = Reassessed(p, s.managed[p.id], cycle.observations[p.id], at)
    BY <1>2
  <2> HIDE DEF at, p, mm, q
  <2>3. q = cycle.quotes[p.mint]
    BY SMTT(30) DEF q
  <2> QED BY <1>at, <2>1, <2>2, <2>3, WorkExitOK
<1>5. Touches(s, r, n) /\ StateOK(r, at) /\ Working(r) /\ Remembers(s, r, n, id)
  BY SMTT(30), <1>2, <1>4 DEF Worked
<1> HIDE DEF at
<1>6. SalesOnly(e, r)
  BY <1>at, <1>given, <1>state, <1>1, <1>5, SalesOnlyOn
<1>7. ASSUME NEW k \in OpenIn(e.ledger)
      PROVE  /\ Remembers(e, r, k, e.ledger.positions[k].id)
             /\ k > n => Unworked(e, r, k)
             /\ k <= n => WorkedOff(e, r, k, cycle)
  <2>1. CASE k = n
    <3>1. Exiting(e.managed[id]) => ExitKept(e, r, id)
      <4>1. ASSUME ExitKept(s, r, id) PROVE ExitKept(e, r, id)
        <5> HIDE DEF id
        <5> QED BY SMTT(30), <1>at, <1>given, <1>state, <1>2, <1>5, <4>1, ExitKeptOn
      <4> QED BY <1>2, <1>5, <4>1 DEF Remembers
    <3>2. id \in DOMAIN r.managed =>
             Remembered(e.managed[id], r.managed[id], p, r.ledger.positions[n])
      BY <1>2, <1>5 DEF Remembers
    <3>3. WorkedOff(e, r, n, cycle)
      BY <1>4 DEF WorkedOff, at
    <3>4. ~(n > n)
      BY <1>1
    <3> QED BY SMTT(30), <2>1, <3>1, <3>2, <3>3, <3>4 DEF Remembers
  <2>2. CASE k # n
    <3> DEFINE pk == e.ledger.positions[k]
               ik == pk.id
    <3>1. /\ ik # id /\ k \in 1..Len(e.ledger.positions) /\ k \in Nat
          /\ k > n => k > n - 1
          /\ k <= n => k <= n - 1
      BY SMTT(30), <1>1, <2>2
    <3>2. /\ r.ledger.positions[k] = s.ledger.positions[k]
          /\ ik \in DOMAIN s.managed => ik \in DOMAIN r.managed /\ r.managed[ik] = s.managed[ik]
          /\ ik \in DOMAIN r.managed => ik \in DOMAIN s.managed
      <4>1. Len(s.ledger.positions) = Len(e.ledger.positions)
        BY <1>state DEF SalesOnly
      <4> QED BY <1>2, <1>5, <2>2, <3>1, <4>1 DEF Touches
    <3>3. Remembers(e, s, k, ik)
      BY SMTT(30), <1>state
    <3>4. Exiting(e.managed[ik]) => ExitKept(e, r, ik)
      <4>1. ASSUME ExitKept(e, s, ik) PROVE ExitKept(e, r, ik)
        <5> HIDE DEF ik
        <5> QED BY SMTT(30), <1>at, <1>given, <1>state, <1>5, <3>2, <4>1, ExitKeptOn
      <4> QED BY SMTT(30), <3>3, <4>1 DEF Remembers
    <3>5. ik \in DOMAIN r.managed =>
             Remembered(e.managed[ik], r.managed[ik], pk, r.ledger.positions[k])
      BY <3>2, <3>3 DEF Remembers
    <3>6. k > n => Unworked(e, r, k)
      BY Zenon, <1>state, <3>1, <3>2 DEF Unworked
    <3>7. k <= n => WorkedOff(e, r, k, cycle)
      BY Zenon, <1>state, <3>1, <3>2 DEF WorkedOff, ExitEffect
    <3> QED BY <3>4, <3>5, <3>6, <3>7 DEF Remembers
  <2> QED BY <2>1, <2>2
<1> QED BY <1>5, <1>6, <1>7 DEF SoFar, at

MayExit(e, before, cycle) ==
    /\ CycleOK(cycle) /\ Working(e) /\ StateOK(e, cycle.at)
    /\ Len(before.positions) \in Nat /\ Len(before.positions) <= Len(e.ledger.positions)
    /\ \A n \in 1..Len(before.positions) :
          /\ e.ledger.positions[n] = before.positions[n]
          /\ before.positions[n].state = "OPEN" =>
                LET id == before.positions[n].id
                IN  Assessable(e.managed[id], cycle.observations[id], cycle.at)

\* The exits of a cycle.
LEMMA ExitsOK ==
    ASSUME NEW cycle, NEW e, NEW before, MayExit(e, before, cycle),
           NEW r, r = WorkExits(e, before, cycle)
    PROVE  SoFar(e, r, Len(before.positions), cycle)
<1> DEFINE len == Len(before.positions)
<1>given. /\ CycleOK(cycle) /\ Working(e) /\ StateOK(e, cycle.at)
          /\ len \in Nat /\ len <= Len(e.ledger.positions)
          /\ \A n \in 1..len :
                /\ e.ledger.positions[n] = before.positions[n]
                /\ before.positions[n].state = "OPEN" =>
                      LET id == before.positions[n].id
                      IN  Assessable(e.managed[id], cycle.observations[id], cycle.at)
  BY DEF MayExit
<1>1. PICK f : ExitSteps(f, e, before, cycle)
  BY <1>given, ExitsWorked
<1> DEFINE S == {n \in 0..len : SoFar(e, f[n], n, cycle)}
<1>2. /\ DOMAIN e.ledger.positions = 1..Len(e.ledger.positions)
      /\ Len(e.ledger.positions) \in Nat /\ Len(e.ledger.entries) \in Nat
      /\ OpenIn(e.ledger) \subseteq 1..Len(e.ledger.positions)
  BY <1>given, LedgerFields DEF StateOK, LedgerOK, OpenIn
<1>3. 0 \in S
  <2>1. f[0] = e /\ 0 \in 0..len
    BY <1>given, <1>1 DEF ExitSteps
  <2>2. SalesOnly(e, e)
    <3>1. \A k \in (Len(e.ledger.entries) + 1)..Len(e.ledger.entries) : FALSE
      BY <1>2
    <3> QED BY <1>2, <3>1 DEF SalesOnly
  <2>3. ASSUME NEW k \in OpenIn(e.ledger)
        PROVE  /\ Remembers(e, e, k, e.ledger.positions[k].id)
               /\ Unworked(e, e, k) /\ k > 0 /\ ~(k <= 0)
    <3> DEFINE id == e.ledger.positions[k].id
    <3>1. id \in DOMAIN e.managed /\ ManagementOK(e.ledger, e.ledger.positions[k], e.managed[id], cycle.at)
      BY Zenon, <1>given DEF StateOK, ManagedOK, IdsOf
    <3>2. e.managed[id].exit.high \in Nat
      BY Zenon, <3>1 DEF ManagementOK, ExitStates
    <3>3. Remembers(e, e, k, id)
      <4>1. Remembered(e.managed[id], e.managed[id], e.ledger.positions[k], e.ledger.positions[k])
        BY Zenon, <3>2, RemembersItself
      <4>2. ExitKept(e, e, id)
        BY <3>1 DEF ExitKept
      <4> QED BY SMTT(30), <4>1, <4>2 DEF Remembers
    <3> QED BY <1>2, <3>1, <3>3 DEF Unworked
  <2> QED BY <1>given, <2>1, <2>2, <2>3 DEF SoFar
<1>4. ASSUME NEW n \in 1..len, n - 1 \in S PROVE n \in S
  <2>1. SoFar(e, f[n - 1], n - 1, cycle) /\ n \in 0..len /\ n \in 1..Len(e.ledger.positions)
    BY <1>given, <1>2, <1>4
  <2>2. CASE before.positions[n].state = "OPEN"
    <3> DEFINE s == f[n - 1]
               r1 == f[n]
    <3>1. f[n] = WorkExit(f[n - 1], n, cycle)
      BY <1>1, <2>2 DEF ExitSteps
    <3>2. n \in OpenIn(e.ledger) /\ e.ledger.positions[n] = before.positions[n]
      BY <1>given, <1>2, <2>1, <2>2 DEF OpenIn
    <3>3. LET id == e.ledger.positions[n].id
          IN  Assessable(e.managed[id], cycle.observations[id], cycle.at)
      BY <1>given, <2>2, <3>2
    <3>4. MayStep(e, f[n - 1], n, cycle)
      BY <1>given, <2>1, <3>2, <3>3 DEF MayStep
    <3> HIDE DEF s, r1
    <3>5. MayStep(e, s, n, cycle) /\ r1 = WorkExit(s, n, cycle)
      BY <3>1, <3>4 DEF s, r1
    <3>6. SoFar(e, r1, n, cycle)
      BY <3>5, ExitWorkedOn
    <3> QED BY <2>1, <3>6 DEF r1
  <2>3. CASE before.positions[n].state # "OPEN"
    <3>1. f[n] = f[n - 1] /\ n \notin OpenIn(e.ledger)
      BY <1>given, <1>1, <2>3 DEF ExitSteps, OpenIn
    <3>2. ASSUME NEW k \in OpenIn(e.ledger)
          PROVE  (k > n => k > n - 1) /\ (k <= n => k <= n - 1)
      BY <1>2, <3>1
    <3> QED BY <2>1, <3>1, <3>2 DEF SoFar
  <2> QED BY <2>2, <2>3
<1>5. 0..len \subseteq S
  <2> HIDE DEF S, len
  <2> QED BY <1>given, <1>3, <1>4, BoundedInduction
<1>6. len \in S
  <2> HIDE DEF S
  <2> QED BY <1>given, <1>5
<1> QED BY <1>1, <1>6 DEF ExitSteps

-----------------------------------------------------------------------------
(* A whole cycle.                                                          *)

Start(s) == [ledger |-> s.ledger, managed |-> s.managed, entry |-> s.entry,
             slotUsed |-> FALSE]

\* What the cycle entered: nothing, or the one intent, left pending or booked as
\* the first entry of the journal.
EntersOnly(w, entry1, l, cycle) ==
    LET len == Len(w.ledger.entries)
    IN  \/ entry1 = None /\ \A k \in (len + 1)..Len(l.entries) : l.entries[k].side # "BUY"
        \/ \E i \in EntryIntents :
              /\ Origin(w, i, cycle) /\ entry1 \in {i, None}
              /\ \A k \in (len + 1)..Len(l.entries) :
                    l.entries[k].side = "BUY" => k = len + 1 /\ l.entries[k].key = i.key

\* The entries of a cycle leave what was held as it was.
Framed(w, e, cycle) ==
    /\ Working(e) /\ StateOK(e, cycle.at)
    /\ Extends(w.ledger, e.ledger, 1)
    /\ EntersOnly(w, e.entry, e.ledger, cycle)
    /\ Len(w.ledger.positions) <= Len(e.ledger.positions)
    /\ \A n \in 1..Len(w.ledger.positions) : e.ledger.positions[n] = w.ledger.positions[n]
    /\ \A id \in DOMAIN w.managed : id \in DOMAIN e.managed /\ e.managed[id] = w.managed[id]

LEMMA EntriesFramed ==
    ASSUME NEW cycle, CycleOK(cycle), NEW t \in Nat, t <= cycle.at,
           NEW w, Working(w), StateOK(w, t), w.slotUsed = FALSE,
           NEW e, e = WorkCandidates(WorkPendingEntry(w, cycle), w.ledger, cycle)
    PROVE  Framed(w, e, cycle)
<1>1. Entered(w, e, cycle)
  BY EntriesOK
<1>2. Len(w.ledger.entries) \in Nat /\ Len(w.ledger.positions) \in Nat
      /\ Len(e.ledger.entries) \in Nat
  BY <1>1, LedgerFields DEF Entered, StateOK, LedgerOK
<1>3. CASE e = w /\ w.entry = None
  <2>1. /\ Extends(w.ledger, e.ledger, 1)
        /\ \A k \in (Len(w.ledger.entries) + 1)..Len(e.ledger.entries) : FALSE
    BY SMTT(30), <1>2, <1>3 DEF Extends
  <2>2. EntersOnly(w, e.entry, e.ledger, cycle)
    BY <1>3, <2>1 DEF EntersOnly
  <2> QED BY <1>1, <1>2, <1>3, <2>1, <2>2 DEF Framed, Entered
<1>4. CASE \E i \in EntryIntents : Origin(w, i, cycle) /\ EntryEffect(w, e, i)
  <2>1. PICK i \in EntryIntents : Origin(w, i, cycle) /\ EntryEffect(w, e, i)
    BY <1>4
  <2>2. /\ Extends(w.ledger, e.ledger, 1)
        /\ Len(w.ledger.positions) <= Len(e.ledger.positions)
        /\ \A n \in 1..Len(w.ledger.positions) : e.ledger.positions[n] = w.ledger.positions[n]
        /\ \A id \in DOMAIN w.managed : id \in DOMAIN e.managed /\ e.managed[id] = w.managed[id]
        /\ e.entry \in {i, None}
        /\ \A n \in (Len(w.ledger.entries) + 1)..Len(e.ledger.entries) :
              e.ledger.entries[n].key = i.key
    BY <2>1 DEF EntryEffect
  <2>3. ASSUME NEW k \in (Len(w.ledger.entries) + 1)..Len(e.ledger.entries)
        PROVE  k = Len(w.ledger.entries) + 1
    BY SMTT(30), <1>2, <2>2 DEF Extends
  <2>4. EntersOnly(w, e.entry, e.ledger, cycle)
    BY <2>1, <2>2, <2>3 DEF EntersOnly
  <2> QED BY <1>1, <2>2, <2>4 DEF Framed, Entered
<1> QED BY <1>1, <1>3, <1>4 DEF Entered

MayRun(s, t, cycle) ==
    /\ CycleOK(cycle) /\ t \in Nat /\ t <= cycle.at /\ s.lastCycle <= cycle.at
    /\ s.lastCycle \in Nat /\ StateOK(s, t)

\* What becomes of the position n of the state before the cycle.
PositionEffect(s, r, n, cycle) ==
    LET p == s.ledger.positions[n]
    IN  /\ Remembers(s, r, n, p.id)
        /\ ExitEffect(r, p,
               Reassessed(p, s.managed[p.id], cycle.observations[p.id], cycle.at),
               cycle.quotes[p.mint], cycle.at)

CycleEffect(s, r, cycle) ==
    /\ StateOK(r, cycle.at) /\ r.lastCycle = cycle.at
    /\ Len(s.ledger.entries) <= Len(r.ledger.entries)
    /\ \A k \in 1..Len(s.ledger.entries) : r.ledger.entries[k] = s.ledger.entries[k]
    /\ EntersOnly(s, r.entry, r.ledger, cycle)
    /\ Len(s.ledger.positions) <= Len(r.ledger.positions)
    /\ \A n \in 1..Len(s.ledger.positions) :
          /\ r.ledger.positions[n].id = s.ledger.positions[n].id
          /\ s.ledger.positions[n].state # "OPEN" =>
                r.ledger.positions[n] = s.ledger.positions[n]
    /\ \A n \in OpenIn(s.ledger) : PositionEffect(s, r, n, cycle)

\* r is made of s by the exits of e, which the entries of w make.
MadeBy(s, r, t, w, e, cycle) ==
    /\ r = Completed(WorkExits(e, s.ledger, cycle), cycle.at)
    /\ Working(w) /\ w.slotUsed = FALSE /\ StateOK(w, t)
    /\ w.ledger = s.ledger /\ w.managed = s.managed /\ w.entry = s.entry
    /\ Framed(w, e, cycle)

\* A cycle is its entries and then its exits.
LEMMA RunIs ==
    ASSUME NEW cycle, NEW t, NEW s, MayRun(s, t, cycle), NEW r, r = RunPaperCycle(s, cycle),
           NEW w, w = Start(s),
           NEW e, e = WorkCandidates(WorkPendingEntry(w, cycle), w.ledger, cycle)
    PROVE  MadeBy(s, r, t, w, e, cycle)
<1>1. /\ Working(w) /\ w.slotUsed = FALSE
      /\ w.ledger = s.ledger /\ w.managed = s.managed /\ w.entry = s.entry
  BY DEF Start, Working
<1>2. StateOK(w, t)
  BY <1>1 DEF MayRun, StateOK
<1>3. Framed(w, e, cycle)
  BY <1>1, <1>2, EntriesFramed DEF MayRun
<1>4. ~(cycle.at < s.lastCycle)
  BY DEF MayRun, CycleOK
<1>5. r = Completed(WorkExits(e, s.ledger, cycle), cycle.at)
  BY <1>1, <1>4 DEF RunPaperCycle, Start
<1> QED BY <1>1, <1>2, <1>3, <1>5 DEF MadeBy

LEMMA CompletedIs ==
    ASSUME NEW x, NEW at, NEW r, r = Completed(x, at)
    PROVE  /\ r.ledger = x.ledger /\ r.managed = x.managed /\ r.entry = x.entry
           /\ r.lastCycle = at
BY DEF Completed

\* What a decision to exit is kept by is a part of the whole cycle.
LEMMA RemembersWhole ==
    ASSUME NEW at \in Nat, NEW s, NEW e, NEW x, NEW r, NEW n, NEW id,
           NEW t, StateOK(s, t), StateOK(e, at), StateOK(x, at),
           Extends(s.ledger, e.ledger, 1), SalesOnly(e, x),
           e.ledger.positions[n] = s.ledger.positions[n], e.managed[id] = s.managed[id],
           r.ledger = x.ledger, r.managed = x.managed, Remembers(e, x, n, id)
    PROVE  Remembers(s, r, n, id)
<1> DEFINE a == Len(s.ledger.entries)
           b == Len(e.ledger.entries)
           c == Len(x.ledger.entries)
<1>1. a \in Nat /\ b \in Nat /\ c \in Nat
  BY LedgerFields DEF StateOK, LedgerOK
<1>2. a <= b /\ b <= c
  BY DEF Extends, SalesOnly
<1> HIDE DEF a, b, c
<1>3. ASSUME ExitKept(e, x, id) PROVE ExitKept(s, r, id)
  <2>1. CASE id \in DOMAIN x.managed /\ x.managed[id].pending = e.managed[id].pending
    BY <2>1 DEF ExitKept
  <2>2. CASE \E k \in (b + 1)..c :
                x.ledger.entries[k].side = "SELL" /\ x.ledger.entries[k].position = id
    <3>1. \A k \in (b + 1)..c : k \in (a + 1)..c
      BY <1>1, <1>2
    <3> QED BY <2>2, <3>1 DEF ExitKept, a, c
  <2>3. CASE \E k \in b..c : Balance(x.ledger, k) < NetworkFee
    <3>1. \A k \in b..c : k \in a..c
      BY <1>1, <1>2
    <3> QED BY <2>3, <3>1 DEF ExitKept, a, c
  <2> QED BY <1>3, <2>1, <2>2, <2>3 DEF ExitKept, b, c
<1> QED BY <1>3 DEF Remembers

\* What a whole cycle does, when every observation can be assessed.
LEMMA CycleRun ==
    ASSUME NEW cycle, NEW t, NEW s, MayRun(s, t, cycle),
           \A id \in DOMAIN s.managed : Assessable(s.managed[id], cycle.observations[id], cycle.at),
           NEW r, r = RunPaperCycle(s, cycle)
    PROVE  CycleEffect(s, r, cycle)
<1> DEFINE w == Start(s)
           e == WorkCandidates(WorkPendingEntry(w, cycle), w.ledger, cycle)
           x == WorkExits(e, s.ledger, cycle)
           at == cycle.at
           len == Len(s.ledger.positions)
<1>1. /\ r = Completed(x, at)
      /\ Working(w) /\ w.slotUsed = FALSE /\ StateOK(w, t)
      /\ w.ledger = s.ledger /\ w.managed = s.managed /\ w.entry = s.entry
      /\ Framed(w, e, cycle)
  <2> HIDE DEF w, e
  <2>1. w = Start(s)
    BY DEF w
  <2>2. e = WorkCandidates(WorkPendingEntry(w, cycle), w.ledger, cycle)
    BY DEF e
  <2>3. MadeBy(s, r, t, w, e, cycle)
    BY <2>1, <2>2, RunIs
  <2> QED BY <2>3 DEF MadeBy
<1> HIDE DEF w, e, x
<1>2. /\ r.ledger = x.ledger /\ r.managed = x.managed /\ r.entry = x.entry
      /\ r.lastCycle = at
  <2> HIDE DEF at
  <2> QED BY <1>1, CompletedIs
<1>given. CycleOK(cycle) /\ t \in Nat /\ at \in Nat /\ StateOK(s, t)
  BY DEF MayRun, CycleOK
<1>3. /\ Working(e) /\ StateOK(e, at) /\ Extends(s.ledger, e.ledger, 1)
      /\ EntersOnly(w, e.entry, e.ledger, cycle)
      /\ len <= Len(e.ledger.positions)
      /\ \A n \in 1..len : e.ledger.positions[n] = s.ledger.positions[n]
      /\ \A id \in DOMAIN s.managed : id \in DOMAIN e.managed /\ e.managed[id] = s.managed[id]
  BY <1>1 DEF Framed
<1>4. /\ DOMAIN s.ledger.positions = 1..len /\ len \in Nat
      /\ Len(s.ledger.entries) \in Nat /\ Len(e.ledger.entries) \in Nat
      /\ DOMAIN e.ledger.positions = 1..Len(e.ledger.positions)
      /\ Len(e.ledger.positions) \in Nat
  BY SMTT(30), <1>given, <1>3, LedgerFields DEF StateOK, LedgerOK
<1>5. \A n \in 1..len : s.ledger.positions[n].state = "OPEN" =>
         n \in OpenIn(s.ledger) /\ s.ledger.positions[n].id \in DOMAIN s.managed
  BY <1>given, <1>4 DEF StateOK, ManagedOK, IdsOf, OpenIn
<1>6. SoFar(e, x, len, cycle)
  <2>1. ASSUME NEW n \in 1..len, s.ledger.positions[n].state = "OPEN"
        PROVE  LET id == s.ledger.positions[n].id
               IN  Assessable(e.managed[id], cycle.observations[id], at)
    BY SMTT(30), <1>3, <1>5, <2>1
  <2>2. MayExit(e, s.ledger, cycle)
    BY <1>given, <1>3, <1>4, <2>1 DEF MayExit
  <2>3. x = WorkExits(e, s.ledger, cycle)
    BY DEF x
  <2> DEFINE before == s.ledger
  <2> HIDE DEF before
  <2>4. MayExit(e, before, cycle) /\ x = WorkExits(e, before, cycle)
    BY <2>2, <2>3 DEF before
  <2>5. SoFar(e, x, Len(before.positions), cycle)
    BY <2>4, ExitsOK
  <2> QED BY <2>5 DEF before
<1>7. /\ Working(x) /\ StateOK(x, at) /\ SalesOnly(e, x)
      /\ \A k \in OpenIn(e.ledger) :
            /\ Remembers(e, x, k, e.ledger.positions[k].id)
            /\ k <= len => WorkedOff(e, x, k, cycle)
  BY <1>6 DEF SoFar
<1>8. StateOK(r, at)
  BY <1>2, <1>7 DEF StateOK
<1>9. /\ Len(s.ledger.entries) <= Len(r.ledger.entries)
      /\ \A k \in 1..Len(s.ledger.entries) : r.ledger.entries[k] = s.ledger.entries[k]
      /\ EntersOnly(s, r.entry, r.ledger, cycle)
  <2> DEFINE a == Len(s.ledger.entries)
             b == Len(e.ledger.entries)
             c == Len(x.ledger.entries)
  <2>1. a \in Nat /\ b \in Nat /\ c \in Nat
    BY <1>given, <1>3, <1>7, LedgerFields DEF StateOK, LedgerOK
  <2>2. /\ a <= b /\ b <= a + 1 /\ b <= c /\ x.entry = e.entry
        /\ \A k \in 1..a : e.ledger.entries[k] = s.ledger.entries[k]
        /\ \A k \in 1..b : x.ledger.entries[k] = e.ledger.entries[k]
        /\ \A k \in (b + 1)..c : x.ledger.entries[k].side = "SELL"
    BY SMTT(30), <1>3, <1>7 DEF Extends, SalesOnly
  <2>3. /\ e.entry = None /\ \A k \in (a + 1)..b : e.ledger.entries[k].side # "BUY"
        \/ \E i \in EntryIntents :
              /\ Origin(s, i, cycle) /\ e.entry \in {i, None}
              /\ \A k \in (a + 1)..b :
                    e.ledger.entries[k].side = "BUY" =>
                        k = a + 1 /\ e.ledger.entries[k].key = i.key
    BY <1>1, <1>3 DEF EntersOnly, Origin
  <2>4. r.entry = e.entry /\ c = Len(r.ledger.entries) /\ r.ledger = x.ledger
    BY <1>2, <2>2
  <2> HIDE DEF a, b, c
  <2>5. a <= c
    BY <2>1, <2>2
  <2>6. ASSUME NEW k \in 1..a PROVE x.ledger.entries[k] = s.ledger.entries[k]
    <3>1. k \in 1..b
      BY <2>1, <2>2
    <3> QED BY <2>2, <3>1
  <2>7. ASSUME NEW k \in (a + 1)..c, x.ledger.entries[k].side = "BUY"
        PROVE  k \in (a + 1)..b /\ x.ledger.entries[k] = e.ledger.entries[k]
    <3>1. k \in (b + 1)..c \/ (k \in (a + 1)..b /\ k \in 1..b)
      BY <2>1, <2>2
    <3>2. "SELL" # "BUY"
      OBVIOUS
    <3> QED BY <2>2, <2>7, <3>1, <3>2
  <2>8. EntersOnly(s, e.entry, x.ledger, cycle)
    <3>1. CASE e.entry = None /\ \A k \in (a + 1)..b : e.ledger.entries[k].side # "BUY"
      <4>1. \A k \in (a + 1)..c : x.ledger.entries[k].side # "BUY"
        BY <2>7, <3>1
      <4> QED BY <3>1, <4>1 DEF EntersOnly, a, c
    <3>2. CASE \E i \in EntryIntents :
              /\ Origin(s, i, cycle) /\ e.entry \in {i, None}
              /\ \A k \in (a + 1)..b :
                    e.ledger.entries[k].side = "BUY" =>
                        k = a + 1 /\ e.ledger.entries[k].key = i.key
      <4>1. PICK i \in EntryIntents :
              /\ Origin(s, i, cycle) /\ e.entry \in {i, None}
              /\ \A k \in (a + 1)..b :
                    e.ledger.entries[k].side = "BUY" =>
                        k = a + 1 /\ e.ledger.entries[k].key = i.key
        BY <3>2
      <4>2. \A k \in (a + 1)..c :
               x.ledger.entries[k].side = "BUY" => k = a + 1 /\ x.ledger.entries[k].key = i.key
        BY <2>7, <4>1
      <4> QED BY <4>1, <4>2 DEF EntersOnly, a, c
    <3> QED BY <2>3, <3>1, <3>2
  <2>9. \A k \in 1..Len(s.ledger.entries) : r.ledger.entries[k] = s.ledger.entries[k]
    BY <2>4, <2>6 DEF a
  <2> QED BY <2>4, <2>5, <2>8, <2>9 DEF a
<1>10. /\ Len(s.ledger.positions) <= Len(r.ledger.positions)
       /\ \A n \in 1..Len(s.ledger.positions) :
             /\ r.ledger.positions[n].id = s.ledger.positions[n].id
             /\ s.ledger.positions[n].state # "OPEN" =>
                   r.ledger.positions[n] = s.ledger.positions[n]
  <2>1. \A n \in 1..len : n \in 1..Len(e.ledger.positions)
    BY <1>3, <1>4
  <2> QED BY ZenonT(40), <1>2, <1>3, <1>7, <2>1 DEF SalesOnly
<1>11. ASSUME NEW n \in OpenIn(s.ledger)
       PROVE  PositionEffect(s, r, n, cycle)
  <2> DEFINE p == s.ledger.positions[n]
             id == p.id
  <2>1. n \in 1..len /\ p.state = "OPEN" /\ id \in DOMAIN s.managed
    BY <1>4, <1>5, <1>11 DEF OpenIn
  <2>2. e.ledger.positions[n] = p /\ e.managed[id] = s.managed[id]
    BY <1>3, <2>1
  <2>3. n \in OpenIn(e.ledger) /\ n <= len
    BY <1>3, <1>4, <2>1, <2>2 DEF OpenIn
  <2>4. Remembers(e, x, n, id) /\ WorkedOff(e, x, n, cycle)
    BY <1>7, <2>2, <2>3
  <2>5. Remembers(s, r, n, id)
    <3> HIDE DEF id, at
    <3>1. /\ at \in Nat /\ StateOK(s, t) /\ StateOK(e, at) /\ StateOK(x, at)
          /\ Extends(s.ledger, e.ledger, 1) /\ SalesOnly(e, x)
          /\ e.ledger.positions[n] = s.ledger.positions[n] /\ e.managed[id] = s.managed[id]
          /\ r.ledger = x.ledger /\ r.managed = x.managed /\ Remembers(e, x, n, id)
      BY Zenon, <1>given, <1>2, <1>3, <1>7, <2>2, <2>4
    <3> QED BY <3>1, RemembersWhole
  <2>6. ExitEffect(r, p, Reassessed(p, s.managed[id], cycle.observations[id], at),
                   cycle.quotes[p.mint], at)
    BY Zenon, <1>2, <2>2, <2>4 DEF WorkedOff, ExitEffect
  <2> QED BY <2>5, <2>6 DEF PositionEffect
<1> QED BY <1>2, <1>8, <1>9, <1>10, <1>11 DEF CycleEffect

-----------------------------------------------------------------------------
(* The invariant.                                                          *)

LEMMA LocateIs ==
    ASSUME NEW t, NEW l, LedgerOK(l, t), NEW n \in DOMAIN l.positions
    PROVE  Locate(l, l.positions[n].id) = n
<1>1. DOMAIN l.positions = 1..Len(l.positions)
  BY LedgerFields DEF LedgerOK
<1>2. \A m \in DOMAIN l.positions : l.positions[m].id = l.positions[n].id <=> m = n
  BY <1>1 DEF LedgerOK, IdentitiesOK
<1> QED BY <1>2 DEF Locate

\* The position of an identity that is managed.
LEMMA ManagedPosition ==
    ASSUME NEW t, NEW s, StateOK(s, t), NEW id \in DOMAIN s.managed
    PROVE  \E n \in OpenIn(s.ledger) :
              /\ s.ledger.positions[n].id = id /\ Locate(s.ledger, id) = n
              /\ s.ledger.positions[n] \in Positions
              /\ s.ledger.positions[n].qty > 0 /\ s.ledger.positions[n].state = "OPEN"
              /\ ManagementOK(s.ledger, s.ledger.positions[n], s.managed[id], t)
<1>1. PICK n \in OpenIn(s.ledger) : s.ledger.positions[n].id = id
  BY DEF StateOK, ManagedOK, IdsOf
<1>2. n \in DOMAIN s.ledger.positions /\ s.ledger.positions[n].state = "OPEN"
  BY DEF OpenIn
<1>3. LedgerOK(s.ledger, t)
  BY DEF StateOK
<1>4. Locate(s.ledger, id) = n
  BY <1>1, <1>2, <1>3, LocateIs
<1>5. s.ledger.positions[n] \in Positions /\ s.ledger.positions[n].qty > 0
  <2>1. DOMAIN s.ledger.positions = 1..Len(s.ledger.positions)
        /\ \A k \in 1..Len(s.ledger.positions) : s.ledger.positions[k] \in Positions
    BY <1>3, LedgerFields DEF LedgerOK
  <2> QED BY <1>2, <1>3, <2>1 DEF LedgerOK, PositionsOK, PositionOK
<1>6. ManagementOK(s.ledger, s.ledger.positions[n], s.managed[id], t)
  BY <1>1 DEF StateOK, ManagedOK
<1> QED BY <1>1, <1>2, <1>4, <1>5, <1>6

LEMMA LoopInitInv == Init => LoopInv
<1> SUFFICES ASSUME Init PROVE LoopInv
  OBVIOUS
<1> DEFINE l == State.ledger
<1>1. /\ l = CreatePaperLedger(StartingCash, 0) /\ State.managed = <<>>
      /\ State.entry = None /\ lastCycle = 0
  BY DEF Init, State
<1>2. /\ l.positions = <<>> /\ l.entries = <<>> /\ l.processed = {}
      /\ l.cash = StartingCash /\ l.realized = 0 /\ l.costs = 0 /\ l.asOf = 0
  BY <1>1 DEF CreatePaperLedger
<1>3. StartingCash \in Nat /\ Horizon \in Nat /\ MaxPositions \in Nat /\ MaxRisk \in Nat
      /\ MaxPositions > 0 /\ TargetNotional \in Nat
  BY LoopAssumption
<1>4. LedgerOK(l, 0)
  <2>1. l \in Ledgers
    <3>1. l = [cash |-> StartingCash, realized |-> 0, costs |-> 0, asOf |-> 0,
               positions |-> <<>>, entries |-> <<>>, processed |-> {}]
      BY <1>1 DEF CreatePaperLedger
    <3>2. <<>> \in Seq(Positions) /\ <<>> \in Seq(Entries)
      OBVIOUS
    <3>3. {} \in SUBSET LoopKeys
      OBVIOUS
    <3> HIDE DEF l
    <3> QED BY <1>3, <3>1, <3>2, <3>3 DEF Ledgers
  <2> HIDE DEF l
  <2>2. Len(l.positions) = 0 /\ Len(l.entries) = 0
    BY <1>2
  <2>3. \A n \in 1..Len(l.positions) : FALSE
    BY <2>2
  <2>4. PositionsOK(l, 0) /\ IdentitiesOK(l) /\ ExitKeysOK(l)
    BY <1>2, <2>3 DEF PositionsOK, IdentitiesOK, ExitKeysOK
  <2>5. l.cash = Balance(l, Len(l.entries))
    <3> DEFINE none == [n \in 1..0 |-> l.entries[n].cash]
    <3>1. none \in Seq(Int) /\ Len(none) = 0
      OBVIOUS
    <3>2. Balance(l, 0) = StartingCash + Total(none)
      BY DEF Balance
    <3> HIDE DEF none
    <3>3. Total(none) = 0
      BY <3>1, TotalEmpty
    <3> QED BY <1>2, <1>3, <2>2, <3>2, <3>3
  <2> QED BY <2>1, <2>4, <2>5 DEF LedgerOK
<1>5. OpenIn(l) = {}
  <2> HIDE DEF l
  <2> QED BY <1>2 DEF OpenIn
<1>6. ManagedOK(l, State.managed, 0)
  <2> HIDE DEF l
  <2> QED BY <1>1, <1>5 DEF ManagedOK, IdsOf
<1>7. EntryOK(l, State.entry, 0) /\ RiskOK(l, State.entry)
  <2>1. Cardinality(OpenIn(l)) = 0
    BY <1>5, FS_EmptySet
  <2>2. OpenRisk(l) = 0
    <3> HIDE DEF l
    <3>1. l.positions \in Seq(Positions) /\ Len(l.positions) = 0
      BY <1>2
    <3>2. /\ Bases(l.positions) \in Seq(Int) /\ Len(Bases(l.positions)) = 0
          /\ OpenRisk(l) = Total(Bases(l.positions))
      BY <3>1, OpenRiskIs
    <3> QED BY <3>2, TotalEmpty
  <2>3. EntryCosts \in Nat
    <3> QED BY <1>3, CostIsNat DEF EntryCosts
  <2> HIDE DEF l
  <2> QED BY <1>1, <1>3, <2>1, <2>2, <2>3 DEF EntryOK, RiskOK
<1> HIDE DEF l
<1>8. StateOK(State, 0)
  BY <1>4, <1>6, <1>7 DEF StateOK, l
<1> QED BY <1>1, <1>3, <1>8 DEF LoopInv

\* The input of a cycle.
LEMMA InputIs ==
    ASSUME NEW at \in Nat, NEW candidates \in Seq(Candidates),
           NEW kinds \in [Mints -> QuoteKinds \cup {None}], NEW observations,
           NEW cycle, cycle = CycleInput(at, candidates, kinds, observations)
    PROVE  /\ CycleOK(cycle) /\ cycle.at = at /\ cycle.candidates = candidates
           /\ cycle.observations = observations
           /\ \A m \in Mints :
                cycle.quotes[m] = IF kinds[m] = None THEN None ELSE Stamped(kinds[m], m, at)
<1>1. /\ cycle.at = at /\ cycle.candidates = candidates /\ cycle.observations = observations
      /\ cycle.quotes = [m \in Mints |-> IF kinds[m] = None THEN None
                                         ELSE Stamped(kinds[m], m, at)]
  BY DEF CycleInput
<1>2. ASSUME NEW m \in Mints, NEW k \in QuoteKinds
      PROVE  Stamped(k, m, at) \in CycleQuotes
  <2>1. /\ k.age \in Nat /\ k.avail \in Nat /\ k.ref \in Nat \ {0} /\ k.price \in Nat \ {0}
        /\ k.state \in QuoteStates
    BY CycleAssumption
  <2>2. at - k.age \in Int
    BY <2>1
  <2> QED BY <2>1, <2>2 DEF Stamped, CycleQuotes
<1>3. \A m \in Mints :
         cycle.quotes[m] = IF kinds[m] = None THEN None ELSE Stamped(kinds[m], m, at)
  BY <1>1
<1>4. CycleOK(cycle)
  BY <1>1, <1>2, <1>3 DEF CycleOK
<1> QED BY <1>1, <1>3, <1>4

\* What is observed later than it was last assessed can be assessed.
LEMMA LaterAssessable ==
    ASSUME NEW t, NEW s, StateOK(s, t), NEW at \in Nat, t \in Nat, t < at,
           NEW id \in DOMAIN s.managed, NEW o \in Observations \cup {None}
    PROVE  Assessable(s.managed[id], o, at)
<1>1. PICK n \in OpenIn(s.ledger) :
          ManagementOK(s.ledger, s.ledger.positions[n], s.managed[id], t)
  BY ManagedPosition
<1>2. s.managed[id].exit.evaluated \in Nat /\ s.managed[id].exit.evaluated <= t
  BY <1>1 DEF ManagementOK, ExitStates
<1>3. s.managed[id].exit.evaluated < at
  BY <1>2
<1>4. o # None => ObservationOK(o)
  BY CycleAssumption DEF ObservationOK
<1> QED BY <1>3, <1>4 DEF Assessable

LEMMA BecomesState ==
    ASSUME NEW cycle, Cycle(cycle)
    PROVE  State' = RunPaperCycle(State, cycle)
<1> DEFINE r == RunPaperCycle(State, cycle)
<1>1. r = [ledger |-> r.ledger, managed |-> r.managed, entry |-> r.entry,
           lastCycle |-> r.lastCycle]
  BY DEF RunPaperCycle, Completed, State
<1> HIDE DEF r
<1>2. ledger' = r.ledger /\ managed' = r.managed /\ entry' = r.entry /\ lastCycle' = r.lastCycle
  BY DEF Cycle, Become, r
<1> QED BY <1>1, <1>2 DEF State, r

\* Every step is a cycle that was later than the last, or changes nothing.
LEMMA StepEffect ==
    ASSUME LoopInv, Next
    PROVE  \/ UNCHANGED vars
           \/ \E cycle : /\ cycle.at \in (lastCycle + 1)..Horizon
                         /\ CycleEffect(State, State', cycle)
<1>1. lastCycle \in Nat /\ lastCycle \in Int /\ Horizon \in Nat /\ MinStep \in Nat \ {0}
      /\ StateOK(State, lastCycle) /\ State.lastCycle = lastCycle
      /\ State.managed = managed
  BY LoopAssumption DEF LoopInv, State
<1>2. CASE \E at \in (lastCycle + MinStep)..Horizon, candidates \in CandidateLists,
              kinds \in [Mints -> QuoteKinds \cup {None}],
              observations \in [DOMAIN managed -> Observations \cup {None}] :
                  Cycle(CycleInput(at, candidates, kinds, observations))
  <2>1. PICK at \in (lastCycle + MinStep)..Horizon, candidates \in CandidateLists,
             kinds \in [Mints -> QuoteKinds \cup {None}],
             observations \in [DOMAIN managed -> Observations \cup {None}] :
                 Cycle(CycleInput(at, candidates, kinds, observations))
    BY <1>2
  <2> DEFINE cycle == CycleInput(at, candidates, kinds, observations)
  <2>2. at \in Nat /\ lastCycle < at /\ at \in (lastCycle + 1)..Horizon /\ lastCycle <= at
    BY <1>1
  <2>3. candidates \in Seq(Candidates)
    BY CycleAssumption
  <2>4. Cycle(cycle)
    BY <2>1
  <2>5. cycle = CycleInput(at, candidates, kinds, observations)
    OBVIOUS
  <2> HIDE DEF cycle
  <2>6. CycleOK(cycle) /\ cycle.at = at /\ cycle.observations = observations
    BY <2>2, <2>3, <2>5, InputIs
  <2>7. State' = RunPaperCycle(State, cycle)
    BY <1>1, <2>2, <2>4, <2>6, BecomesState
  <2>8. MayRun(State, lastCycle, cycle)
    BY <1>1, <2>2, <2>6 DEF MayRun
  <2>9. ASSUME NEW id \in DOMAIN State.managed
        PROVE  Assessable(State.managed[id], cycle.observations[id], cycle.at)
    <3>1. observations[id] \in Observations \cup {None}
      BY <1>1
    <3> QED BY <1>1, <2>2, <2>6, <3>1, LaterAssessable
  <2>10. CycleEffect(State, State', cycle)
    BY <2>7, <2>8, <2>9, CycleRun
  <2> QED BY <2>2, <2>6, <2>10
<1>3. CASE /\ lastCycle > 0
           /\ Cycle(CycleInput(lastCycle - 1, <<>>, NoQuotes,
                               [id \in DOMAIN managed |-> None]))
  <2> DEFINE cycle == CycleInput(lastCycle - 1, <<>>, NoQuotes,
                                 [id \in DOMAIN managed |-> None])
  <2>1. cycle.at = lastCycle - 1
    BY DEF CycleInput
  <2>2. cycle.at < State.lastCycle
    BY <1>1, <2>1
  <2>3. Cycle(cycle)
    BY <1>3
  <2> HIDE DEF cycle
  <2>4. RunPaperCycle(State, cycle) = State
    BY <2>2 DEF RunPaperCycle
  <2> QED BY <2>3, <2>4 DEF Cycle, Become, State, vars
<1> QED BY <1>2, <1>3 DEF Next

LEMMA LoopStepInv == LoopInv /\ [Next]_vars => LoopInv'
<1> SUFFICES ASSUME LoopInv, [Next]_vars PROVE LoopInv'
  OBVIOUS
<1>1. CASE UNCHANGED vars
  BY <1>1 DEF vars, LoopInv, State
<1>2. CASE Next
  <2>1. CASE \E cycle : /\ cycle.at \in (lastCycle + 1)..Horizon
                        /\ CycleEffect(State, State', cycle)
    <3>1. PICK cycle : /\ cycle.at \in (lastCycle + 1)..Horizon
                       /\ CycleEffect(State, State', cycle)
      BY <2>1
    <3>2. lastCycle' = cycle.at /\ StateOK(State', cycle.at)
      BY <3>1 DEF CycleEffect, State
    <3>3. cycle.at \in 0..Horizon
      BY <3>1, LoopAssumption DEF LoopInv
    <3> QED BY <3>2, <3>3 DEF LoopInv
  <2> QED BY <1>1, <1>2, <2>1, StepEffect
<1> QED BY <1>1, <1>2

LEMMA LoopInvariance == Spec => []LoopInv
BY LoopInitInv, LoopStepInv, PTL DEF Spec

-----------------------------------------------------------------------------
(* The theorems of the loop.                                               *)

LEMMA PositionIs ==
    ASSUME LoopInv, NEW id \in DOMAIN managed
    PROVE  \E n \in OpenIn(ledger) :
              /\ ledger.positions[n].id = id /\ Position(id) = ledger.positions[n]
              /\ ledger.positions[n] \in Positions /\ ledger.positions[n].qty > 0
              /\ ManagementOK(ledger, ledger.positions[n], managed[id], lastCycle)
BY ManagedPosition DEF LoopInv, State, Position

LEMMA InvConsistent == LoopInv => LoopConsistent
<1> SUFFICES ASSUME LoopInv PROVE LoopConsistent
  OBVIOUS
<1>1. /\ LedgerOK(ledger, lastCycle) /\ ManagedOK(ledger, managed, lastCycle)
      /\ EntryOK(ledger, entry, lastCycle) /\ lastCycle \in 0..Horizon
  BY DEF LoopInv, StateOK, State
<1>2. DOMAIN managed = OpenIds
  BY <1>1 DEF ManagedOK, OpenIds
<1>3. ledger.asOf <= lastCycle /\ ledger.cash \in Nat
  BY <1>1, LedgerFields DEF LedgerOK, PositionsOK
<1>4. entry # None => entry.side = "BUY" /\ entry.asOf <= lastCycle
  BY <1>1 DEF EntryOK, EntryIntents
<1>5. ASSUME NEW id \in DOMAIN managed
      PROVE  LET exit == managed[id].exit
                 pending == managed[id].pending
             IN  /\ exit.opened <= exit.evaluated /\ exit.evaluated <= lastCycle
                 /\ exit.done \subseteq DOMAIN TakeProfits
                 /\ pending # None =>
                       /\ pending.action \in {"REDUCE", "EXIT"}
                       /\ pending.qty > 0
                       /\ pending.asOf <= exit.evaluated
                       /\ pending.qty <= Position(id).qty
                       /\ pending.action = "EXIT" => pending.qty = Position(id).qty
  <2> DEFINE exit == managed[id].exit
             pending == managed[id].pending
  <2>1. PICK p \in Positions : /\ Position(id) = p
                               /\ ManagementOK(ledger, p, managed[id], lastCycle)
    BY PositionIs
  <2>2. exit.opened <= exit.evaluated /\ exit.evaluated <= lastCycle
        /\ exit.done \subseteq DOMAIN TakeProfits
    BY <2>1 DEF ManagementOK, ExitStates
  <2>3. ASSUME pending # None
        PROVE  /\ pending.action \in {"REDUCE", "EXIT"} /\ pending.qty > 0
               /\ pending.asOf <= exit.evaluated /\ pending.qty <= p.qty
               /\ pending.action = "EXIT" => pending.qty = p.qty
    <3>1. DecisionFits(p, pending) /\ pending.asOf <= exit.evaluated
      BY <2>1, <2>3 DEF ManagementOK, PendingOK
    <3> HIDE DEF pending
    <3>2. pending.qty > 0 /\ pending.qty <= p.qty
      BY <3>1, DecisionFields
    <3> QED BY <3>1, <3>2 DEF DecisionFits
  <2> QED BY <2>1, <2>2, <2>3
<1>6. TypeOK
  BY <1>1, <1>2, <1>3, <1>4, <1>5 DEF TypeOK
<1>7. PendingFitsPosition
  BY <1>5 DEF PendingFitsPosition
<1> QED BY <1>6, <1>7 DEF LoopConsistent

\* Between two cycles, however many decisions were deferred, refused, filled in
\* part or failed: exactly the open positions have exit management, and what is
\* pending for one never sells more than is held, an exit all of it.
THEOREM LoopStaysConsistent == Spec => []LoopConsistent
BY LoopInvariance, InvConsistent, PTL

LEMMA InvBounded == LoopInv => ExposureBounded
<1> SUFFICES ASSUME LoopInv PROVE ExposureBounded
  OBVIOUS
<1>1. /\ LedgerOK(ledger, lastCycle) /\ EntryOK(ledger, entry, lastCycle)
      /\ RiskOK(ledger, entry)
  BY DEF LoopInv, StateOK, State
<1>2. \A n \in DOMAIN ledger.positions : ledger.positions[n].buys = 1
  BY <1>1, LedgerFields, PositionFields DEF LedgerOK
<1>3. NeverAveragedIn
  BY <1>1, <1>2 DEF NeverAveragedIn, EntryOK
<1>4. WithinRiskLimits
  BY <1>1 DEF WithinRiskLimits, RiskOK, EntryCosts
<1> QED BY <1>3, <1>4 DEF ExposureBounded

\* The limits of the risk policy hold for what is held, although an entry may
\* fill cycles after its approval, and nothing held is bought again.
THEOREM ExposureStaysBounded == Spec => []ExposureBounded
BY LoopInvariance, InvBounded, PTL

\* At most one entry is bought in a cycle.
LEMMA OneEntry ==
    ASSUME NEW cycle, NEW s, NEW r, CycleEffect(s, r, cycle), NEW t, StateOK(s, t)
    PROVE  Cardinality({n \in DOMAIN r.ledger.entries \ DOMAIN s.ledger.entries :
                            r.ledger.entries[n].side = "BUY"}) <= 1
<1> DEFINE len == Len(s.ledger.entries)
           S == {n \in DOMAIN r.ledger.entries \ DOMAIN s.ledger.entries :
                     r.ledger.entries[n].side = "BUY"}
<1>1. /\ DOMAIN s.ledger.entries = 1..len /\ len \in Nat
      /\ DOMAIN r.ledger.entries = 1..Len(r.ledger.entries) /\ Len(r.ledger.entries) \in Nat
  BY LedgerFields DEF CycleEffect, StateOK, LedgerOK
<1>2. \A k \in (len + 1)..Len(r.ledger.entries) :
         r.ledger.entries[k].side = "BUY" => k = len + 1
  BY DEF CycleEffect, EntersOnly
<1>3. S \subseteq {len + 1}
  <2> SUFFICES ASSUME NEW n \in S PROVE n = len + 1
    OBVIOUS
  <2>1. n \in (len + 1)..Len(r.ledger.entries) /\ r.ledger.entries[n].side = "BUY"
    BY <1>1
  <2> QED BY <1>2, <2>1
<1> HIDE DEF S
<1>4. IsFiniteSet({len + 1}) /\ Cardinality({len + 1}) = 1
  BY FS_Singleton
<1>5. Cardinality(S) <= 1
  BY ZenonT(40), <1>3, <1>4, FS_Subset
<1> QED BY <1>5 DEF S

\* A cycle books at most one purchase: that of the pending entry, or that of
\* one candidate.
THEOREM OneEntryInEveryCycle == Spec => OneEntryPerCycle
<1> DEFINE One == Cardinality({n \in DOMAIN ledger'.entries \ DOMAIN ledger.entries :
                                 ledger'.entries[n].side = "BUY"}) <= 1
<1>1. ASSUME LoopInv, [Next]_vars PROVE [One]_vars
  <2> SUFFICES ASSUME Next, ~UNCHANGED vars PROVE One
    BY <1>1
  <2>1. PICK cycle : CycleEffect(State, State', cycle)
    BY <1>1, StepEffect
  <2>2. StateOK(State, lastCycle)
    BY <1>1 DEF LoopInv
  <2> DEFINE s == State
             r == State'
  <2>3. s.ledger = ledger /\ r.ledger = ledger'
    BY DEF State
  <2> HIDE DEF s, r
  <2>4. CycleEffect(s, r, cycle) /\ StateOK(s, lastCycle)
    BY <2>1, <2>2 DEF s, r
  <2> QED BY <2>3, <2>4, OneEntry
<1> QED BY <1>1, LoopInvariance, PTL DEF Spec, OneEntryPerCycle

\* What a cycle remembers of every position that was managed before it.
LEMMA MemoryOf ==
    ASSUME NEW cycle, NEW s, NEW r, CycleEffect(s, r, cycle), NEW t, StateOK(s, t),
           NEW id \in DOMAIN s.managed,
           NEW p, p = s.ledger.positions[Locate(s.ledger, id)],
           NEW q, q = r.ledger.positions[Locate(r.ledger, id)]
    PROVE  /\ id \in DOMAIN r.managed =>
                 /\ Remembered(s.managed[id], r.managed[id], p, q)
                 /\ q.mark # None => r.managed[id].exit.high >= q.mark
           /\ Exiting(s.managed[id]) => ExitKept(s, r, id)
<1>1. PICK n \in OpenIn(s.ledger) :
          s.ledger.positions[n].id = id /\ Locate(s.ledger, id) = n
  BY ManagedPosition
<1>2. Remembers(s, r, n, id)
  BY <1>1 DEF CycleEffect, PositionEffect
<1>3. Locate(r.ledger, id) = n
  <2>1. LedgerOK(s.ledger, t) /\ LedgerOK(r.ledger, cycle.at)
    BY DEF StateOK, CycleEffect
  <2>2. /\ DOMAIN s.ledger.positions = 1..Len(s.ledger.positions)
        /\ DOMAIN r.ledger.positions = 1..Len(r.ledger.positions)
        /\ Len(s.ledger.positions) \in Nat /\ Len(r.ledger.positions) \in Nat
    BY <2>1, LedgerFields DEF LedgerOK
  <2>3. n \in 1..Len(s.ledger.positions) /\ n \in DOMAIN r.ledger.positions
    BY <2>2 DEF OpenIn, CycleEffect
  <2>4. r.ledger.positions[n].id = id
    BY <1>1, <2>3 DEF CycleEffect
  <2> QED BY <2>1, <2>3, <2>4, LocateIs
<1>4. ASSUME id \in DOMAIN r.managed
      PROVE  q.mark # None => r.managed[id].exit.high >= q.mark
  <2>1. StateOK(r, cycle.at)
    BY DEF CycleEffect
  <2>2. ManagementOK(r.ledger, q, r.managed[id], cycle.at)
    BY <1>4, <2>1, ManagedPosition
  <2> QED BY <2>2 DEF ManagementOK
<1> QED BY <1>1, <1>2, <1>3, <1>4 DEF Remembers

\* From one cycle to the next a managed position keeps its high-water price, its
\* decision to exit until that was attempted, and the take-profit levels that no
\* sale earned.
THEOREM ExitMemoryIsKept == Spec => ExitMemoryKept
<1> DEFINE HighWater ==
             \A id \in DOMAIN managed \cap DOMAIN managed' :
                 /\ managed'[id].exit.high >= managed[id].exit.high
                 /\ Position(id)'.mark # None =>
                       managed'[id].exit.high >= Position(id)'.mark
           Attempt(e, id) == e.side = "SELL" /\ e.position = id
           StaysPending ==
             \A id \in DOMAIN managed :
                 LET pending == managed[id].pending
                     attempt(e) == e.side = "SELL" /\ e.position = id
                 IN  pending # None /\ pending.action = "EXIT" =>
                       \/ id \in DOMAIN managed' /\ managed'[id].pending = pending
                       \/ \E n \in DOMAIN ledger'.entries \ DOMAIN ledger.entries :
                               attempt(ledger'.entries[n])
                       \/ \E k \in Len(ledger.entries)..Len(ledger'.entries) :
                               Balance(ledger', k) < NetworkFee
           Earned ==
             \A id \in DOMAIN managed \cap DOMAIN managed' :
                 \A k \in managed'[id].exit.done \ managed[id].exit.done :
                     Position(id)'.qty <=
                         Position(id).qty - Share(Position(id).qty, TakeProfits[k].reduce)
<1>1. ASSUME LoopInv, [Next]_vars
      PROVE  [HighWater]_vars /\ [StaysPending]_vars /\ [Earned]_vars
  <2> SUFFICES ASSUME Next, ~UNCHANGED vars PROVE HighWater /\ StaysPending /\ Earned
    BY <1>1
  <2>1. PICK cycle : CycleEffect(State, State', cycle)
    BY <1>1, StepEffect
  <2> DEFINE s == State
             r == State'
             t == lastCycle
  <2>2. /\ s.ledger = ledger /\ r.ledger = ledger'
        /\ s.managed = managed /\ r.managed = managed'
    BY DEF State
  <2>3. StateOK(s, t)
    BY <1>1 DEF LoopInv
  <2> HIDE DEF s, r, t
  <2>4. CycleEffect(s, r, cycle)
    BY <2>1 DEF s, r
  <2>5. ASSUME NEW id \in DOMAIN managed
        PROVE  /\ id \in DOMAIN managed' =>
                     /\ Remembered(managed[id], managed'[id], Position(id), Position(id)')
                     /\ Position(id)'.mark # None =>
                           managed'[id].exit.high >= Position(id)'.mark
               /\ Exiting(managed[id]) => ExitKept(s, r, id)
    <3> DEFINE p == s.ledger.positions[Locate(s.ledger, id)]
               q == r.ledger.positions[Locate(r.ledger, id)]
    <3>1. p = Position(id) /\ q = Position(id)'
      BY <2>2 DEF Position
    <3> HIDE DEF p, q
    <3>2. /\ id \in DOMAIN r.managed =>
                /\ Remembered(s.managed[id], r.managed[id], p, q)
                /\ q.mark # None => r.managed[id].exit.high >= q.mark
          /\ Exiting(s.managed[id]) => ExitKept(s, r, id)
      <4>1. p = s.ledger.positions[Locate(s.ledger, id)] /\ id \in DOMAIN s.managed
        BY <2>2 DEF p
      <4>2. q = r.ledger.positions[Locate(r.ledger, id)]
        BY DEF q
      <4> QED BY <2>3, <2>4, <4>1, <4>2, MemoryOf
    <3> QED BY <2>2, <3>1, <3>2
  <2>6. HighWater
    BY <2>5 DEF Remembered
  <2>7. Earned
    BY <2>5 DEF Remembered
  <2>8. ASSUME NEW id \in DOMAIN managed, Exiting(managed[id])
        PROVE  \/ id \in DOMAIN managed' /\ managed'[id].pending = managed[id].pending
               \/ \E n \in DOMAIN ledger'.entries \ DOMAIN ledger.entries :
                       Attempt(ledger'.entries[n], id)
               \/ \E k \in Len(ledger.entries)..Len(ledger'.entries) :
                       Balance(ledger', k) < NetworkFee
    <3>1. ExitKept(s, r, id)
      BY <2>5, <2>8
    <3>2. \A k \in (Len(ledger.entries) + 1)..Len(ledger'.entries) :
             k \in DOMAIN ledger'.entries \ DOMAIN ledger.entries
      <4>1. /\ DOMAIN ledger.entries = 1..Len(ledger.entries) /\ Len(ledger.entries) \in Nat
            /\ DOMAIN ledger'.entries = 1..Len(ledger'.entries) /\ Len(ledger'.entries) \in Nat
        BY <2>2, <2>3, <2>4, LedgerFields DEF CycleEffect, StateOK, LedgerOK
      <4> QED BY <4>1
    <3> QED BY <2>2, <3>1, <3>2 DEF ExitKept
  <2>9. StaysPending
    BY <2>8 DEF Exiting
  <2> QED BY <2>6, <2>7, <2>9
<1>2. Spec => [][HighWater]_vars /\ [][StaysPending]_vars /\ [][Earned]_vars
  <2> HIDE DEF HighWater, StaysPending, Earned
  <2> QED BY <1>1, LoopInvariance, PTL DEF Spec
<1> QED BY <1>2, PTL DEF ExitMemoryKept, HighWaterKept, ExitStaysPending, TakeProfitEarned

\* A decision to exit that a quote of its window can sell for is executed by the
\* very next cycle, whatever that cycle buys or observes besides.
LEMMA InvExecutes == LoopInv => ExitExecutes
<1> SUFFICES ASSUME LoopInv, NEW id \in DOMAIN managed,
                    managed[id].pending # None, managed[id].pending.action = "EXIT",
                    NEW at \in lastCycle..Horizon,
                    at <= managed[id].pending.asOf + Latency + MaxQuoteLag,
                    NEW candidates \in CandidateLists,
                    NEW kinds \in [Mints -> QuoteKinds],
                    NEW o \in Observations \cup {None}
             PROVE  LET cycle == CycleInput(at, candidates, kinds,
                                   [j \in DOMAIN managed |-> IF j = id THEN o ELSE None])
                        next == RunPaperCycle(State, cycle)
                        q == cycle.quotes[Position(id).mint]
                    IN  Sells(q, Position(id))
                        /\ q.observed >= managed[id].pending.asOf + Latency =>
                            id \notin DOMAIN next.managed
  BY DEF ExitExecutes
<1> DEFINE cycle == CycleInput(at, candidates, kinds,
                               [j \in DOMAIN managed |-> IF j = id THEN o ELSE None])
           q == cycle.quotes[Position(id).mint]
<1> SUFFICES ASSUME Sells(q, Position(id)), q.observed >= managed[id].pending.asOf + Latency
             PROVE  id \notin DOMAIN RunPaperCycle(State, cycle).managed
  OBVIOUS
<1> DEFINE m == managed[id]
           s == State
           next == RunPaperCycle(State, cycle)
<1>1. PICK n \in OpenIn(ledger) :
         /\ ledger.positions[n].id = id /\ Position(id) = ledger.positions[n]
         /\ ledger.positions[n] \in Positions /\ ledger.positions[n].qty > 0
         /\ ManagementOK(ledger, ledger.positions[n], m, lastCycle)
  BY PositionIs
<1> DEFINE p == ledger.positions[n]
<1>2. /\ s.ledger = ledger /\ s.managed = managed /\ s.lastCycle = lastCycle
      /\ lastCycle \in Nat /\ at \in Nat /\ lastCycle <= at /\ StateOK(s, lastCycle)
  BY LoopAssumption DEF State, LoopInv
<1>3. /\ CycleOK(cycle) /\ cycle.at = at
      /\ cycle.observations = [j \in DOMAIN managed |-> IF j = id THEN o ELSE None]
      /\ q = Stamped(kinds[p.mint], p.mint, at) /\ kinds[p.mint] \in QuoteKinds
  <2>1. candidates \in Seq(Candidates) /\ kinds \in [Mints -> QuoteKinds \cup {None}]
    BY CycleAssumption
  <2>2. p.mint \in Mints /\ p = Position(id)
    BY <1>1, PositionFields
  <2> DEFINE observations == [j \in DOMAIN managed |-> IF j = id THEN o ELSE None]
  <2>3. cycle = CycleInput(at, candidates, kinds, observations) /\ q = cycle.quotes[p.mint]
    BY <2>2
  <2> HIDE DEF observations, p, cycle, q
  <2>4. /\ CycleOK(cycle) /\ cycle.at = at /\ cycle.observations = observations
        /\ \A mint \in Mints : cycle.quotes[mint] =
               IF kinds[mint] = None THEN None ELSE Stamped(kinds[mint], mint, at)
    BY <1>2, <2>1, <2>3, InputIs
  <2>5. kinds[p.mint] \in QuoteKinds /\ kinds[p.mint] # None
    BY <2>2, NoneAssumption
  <2> QED BY <2>2, <2>3, <2>4, <2>5 DEF observations
<1> HIDE DEF m, s, cycle
<1>4. ASSUME NEW j \in DOMAIN s.managed
      PROVE  Assessable(s.managed[j], cycle.observations[j], cycle.at)
  <2>1. CASE j = id /\ o # None
    <3>1. ObservationOK(o)
      BY <2>1, CycleAssumption DEF ObservationOK
    <3> QED BY <1>2, <1>3, <2>1, <3>1 DEF Assessable
  <2>2. CASE j # id \/ o = None
    BY <1>2, <1>3, <2>2 DEF Assessable
  <2> QED BY <2>1, <2>2
<1>5. CycleEffect(s, next, cycle)
  <2>1. MayRun(s, lastCycle, cycle)
    BY <1>2, <1>3 DEF MayRun
  <2>2. next = RunPaperCycle(s, cycle)
    BY DEF s
  <2> HIDE DEF next
  <2> QED BY <1>4, <2>1, <2>2, CycleRun
<1> HIDE DEF next
<1> DEFINE mm == Reassessed(p, m, cycle.observations[id], at)
<1>6. ExitEffect(next, p, mm, q, at)
  <2>1. PositionEffect(s, next, n, cycle)
    BY <1>1, <1>2, <1>5 DEF CycleEffect
  <2>2. s.ledger.positions[n] = p /\ p.id = id /\ s.managed[id] = m
    BY <1>1, <1>2 DEF m
  <2>3. q = cycle.quotes[p.mint]
    BY <1>1
  <2> HIDE DEF p
  <2> QED BY <1>3, <2>1, <2>2, <2>3 DEF PositionEffect
<1>7. mm.pending = m.pending
  <2> DEFINE ob == cycle.observations[id]
  <2>1. MayAssess(ledger, p, m, ob, at)
    <3>1. ledger.processed \subseteq LoopKeys
      BY <1>2, LedgerFields DEF StateOK, LedgerOK
    <3>2. ManagementOK(ledger, p, m, at)
      <4>1. ManagedOK(ledger, managed, lastCycle)
        BY <1>2 DEF StateOK
      <4>2. ManagedOK(ledger, managed, at)
        BY <1>2, <4>1, ManagedLater
      <4> QED BY <1>1, <4>2 DEF ManagedOK, m
    <3>3. Assessable(m, ob, at)
      BY <1>2, <1>3, <1>4 DEF m
    <3> QED BY <1>1, <3>1, <3>2, <3>3 DEF MayAssess
  <2>2. Exiting(m)
    BY DEF Exiting, m
  <2>3. mm = Reassessed(p, m, ob, at)
    BY SMTT(30)
  <2> HIDE DEF mm, ob, p
  <2> QED BY <1>2, <2>1, <2>2, <2>3, ReassessedOK
<1>8. Closing(p, m.pending, q, at)
  <2>1. q.mint = p.mint /\ q.observed = at - kinds[p.mint].age /\ kinds[p.mint].age \in Nat
    BY <1>3, CycleAssumption DEF Stamped
  <2>2. q.observed <= at
    BY <1>2, <2>1
  <2>3. Stamped(kinds[p.mint], p.mint, at) \in CycleQuotes
    <3>1. p.mint \in Mints
      BY SMTT(30), <1>1, PositionFields
    <3> DEFINE k == kinds[p.mint]
    <3>2. /\ k.age \in Nat /\ k.avail \in Nat /\ k.ref \in Nat \ {0} /\ k.price \in Nat \ {0}
          /\ k.state \in QuoteStates
      BY <1>3, CycleAssumption
    <3> HIDE DEF k
    <3>3. at - k.age \in Int
      BY <1>2, <3>2
    <3> HIDE DEF p
    <3>4. Stamped(k, p.mint, at) \in CycleQuotes
      BY <3>1, <3>2, <3>3 DEF Stamped, CycleQuotes
    <3> QED BY <3>4 DEF k
  <2>4. q # None
    BY <1>3, <2>3, NoneAssumption
  <2> QED BY SMTT(30), <1>1, <2>1, <2>2, <2>4 DEF Closing, m
<1>9. mm.pending # None
  BY <1>7 DEF m
<1>10. p.id = id
  BY <1>1
<1> HIDE DEF mm, p, q
<1>11. id \notin DOMAIN next.managed
  BY <1>6, <1>7, <1>8, <1>9, <1>10 DEF ExitEffect
<1> QED BY <1>11 DEF next

\* From every state the loop can reach, and whatever else the next cycle does, a
\* pending exit is executed by a quote that can take the position inside its
\* window.
THEOREM ExitIsExecuted == Spec => []ExitExecutes
BY LoopInvariance, InvExecutes, PTL

-----------------------------------------------------------------------------
(* A cycle without quotes: nothing is sold, and every position is left with*)
(* the management its assessment made.  An assessment at the time of the   *)
(* last cycle is included, which may decide again what was settled.        *)

Quoteless(s, n, p, mm, cycle) ==
    /\ Working(s) /\ "positions" \in DOMAIN s.ledger /\ p = s.ledger.positions[n]
    /\ cycle.quotes[p.mint] = None
    /\ mm = Reassessed(p, s.managed[p.id], cycle.observations[p.id], cycle.at)

OnlyManaged(s, r, n, p, mm) ==
    /\ Working(r) /\ "positions" \in DOMAIN r.ledger
    /\ r.managed = [s.managed EXCEPT ![p.id] = mm]
    /\ DOMAIN r.ledger.positions = DOMAIN s.ledger.positions
    /\ \A k \in DOMAIN s.ledger.positions :
          k # n => r.ledger.positions[k] = s.ledger.positions[k]

LEMMA ManageIs ==
    ASSUME NEW s, Working(s), NEW id, NEW m, NEW v, v = Manage(s, id, m)
    PROVE  /\ Working(v) /\ v.managed = [s.managed EXCEPT ![id] = m] /\ v.ledger = s.ledger
BY DEF Working, Manage

LEMMA LedgerIs ==
    ASSUME NEW v, Working(v), NEW l, NEW r, r = [v EXCEPT !.ledger = l]
    PROVE  Working(r) /\ r.managed = v.managed /\ r.ledger = l
BY DEF Working

LEMMA QuotelessExit ==
    ASSUME NEW s, NEW n, NEW p, NEW mm, NEW cycle, Quoteless(s, n, p, mm, cycle),
           NEW r, r = WorkExit(s, n, cycle)
    PROVE  OnlyManaged(s, r, n, p, mm)
<1> DEFINE v == Manage(s, p.id, mm)
           o == cycle.observations[p.id]
           d == AssessExit(p, s.managed[p.id].exit, o, cycle.at)
           fresh == IF o = None THEN None ELSE d
<1>given. /\ Working(s) /\ "positions" \in DOMAIN s.ledger /\ p = s.ledger.positions[n]
          /\ cycle.quotes[p.mint] = None
          /\ mm = Reassessed(p, s.managed[p.id], cycle.observations[p.id], cycle.at)
  BY Zenon DEF Quoteless
<1>2. /\ Working(v) /\ v.managed = [s.managed EXCEPT ![p.id] = mm] /\ v.ledger = s.ledger
  <2> DEFINE id == p.id
  <2>1. Working(s) /\ v = Manage(s, id, mm)
    BY <1>given, Zenon
  <2> HIDE DEF v, id
  <2>2. /\ Working(v) /\ v.managed = [s.managed EXCEPT ![id] = mm] /\ v.ledger = s.ledger
    BY <2>1, ManageIs
  <2> QED BY <2>2 DEF id
<1>3. Attempted(s, n, mm, cycle) = v
  BY <1>given, Zenon DEF Attempted, ExitQuoteUsable, Manage
<1> HIDE DEF v, fresh
<1>4. r = MarkFresh(v, n, fresh, cycle.at)
  BY <1>given, <1>3, WorkExitIs, Zenon DEF fresh
<1>5. r = v \/ r = [v EXCEPT !.ledger = MarkPaperPosition(v.ledger, n, fresh.price, cycle.at)]
  BY <1>4, Zenon DEF MarkFresh
<1>6. CASE r = v
  BY <1>given, <1>2, <1>6, Zenon DEF OnlyManaged
<1>7. CASE r = [v EXCEPT !.ledger = MarkPaperPosition(v.ledger, n, fresh.price, cycle.at)]
  <2> DEFINE l == v.ledger
             z == [l.positions[n] EXCEPT !.mark = fresh.price, !.updated = cycle.at]
             ps == [l.positions EXCEPT ![n] = z]
             ll == MarkPaperPosition(l, n, fresh.price, cycle.at)
  <2>1. ll = [l EXCEPT !.asOf = cycle.at, !.positions = ps]
    BY DEF MarkPaperPosition
  <2>2. r = [v EXCEPT !.ledger = ll]
    BY <1>7
  <2> HIDE DEF l, z, ps, ll
  <2>3. Working(r) /\ r.managed = v.managed /\ r.ledger = ll
    BY <1>2, <2>2, LedgerIs
  <2>4. l = s.ledger /\ "positions" \in DOMAIN l
    BY <1>given, <1>2, Zenon DEF l
  <2>5. ll.positions = ps /\ "positions" \in DOMAIN ll
    BY <2>1, <2>4
  <2>6. /\ DOMAIN ps = DOMAIN l.positions
        /\ \A k \in DOMAIN l.positions : k # n => ps[k] = l.positions[k]
    BY DEF ps
  <2> QED BY <1>2, <2>3, <2>4, <2>5, <2>6 DEF OnlyManaged
<1> QED BY <1>5, <1>6, <1>7

\* After the exits of the first n positions, none of which had a quote.
Quieted(e, r, n, cycle) ==
    /\ Working(r) /\ "positions" \in DOMAIN r.ledger
    /\ DOMAIN r.ledger.positions = DOMAIN e.ledger.positions
    /\ DOMAIN r.managed = DOMAIN e.managed
    /\ \A k \in OpenIn(e.ledger) :
          LET p == e.ledger.positions[k]
          IN  /\ k > n => Unworked(e, r, k)
              /\ k <= n => r.managed[p.id] =
                     Reassessed(p, e.managed[p.id], cycle.observations[p.id], cycle.at)

NoQuote(cycle) == \A m \in Mints : cycle.quotes[m] = None

MayQuiet(e, s, n, cycle) ==
    /\ StateOK(e, cycle.at) /\ n \in OpenIn(e.ledger)
    /\ NoQuote(cycle) /\ Quieted(e, s, n - 1, cycle)

LEMMA QuietedOn ==
    ASSUME NEW cycle, NEW e, NEW s, NEW n, MayQuiet(e, s, n, cycle),
           NEW r, r = WorkExit(s, n, cycle)
    PROVE  Quieted(e, r, n, cycle)
<1> DEFINE p == e.ledger.positions[n]
           id == p.id
           mm == Reassessed(p, e.managed[id], cycle.observations[id], cycle.at)
<1>given. /\ StateOK(e, cycle.at) /\ n \in OpenIn(e.ledger) /\ NoQuote(cycle)
          /\ Quieted(e, s, n - 1, cycle)
  BY Zenon DEF MayQuiet
<1>1. /\ DOMAIN e.ledger.positions = 1..Len(e.ledger.positions)
      /\ Len(e.ledger.positions) \in Nat
      /\ \A k \in 1..Len(e.ledger.positions) : e.ledger.positions[k] \in Positions
      /\ LedgerOK(e.ledger, cycle.at)
  <2>1. LedgerOK(e.ledger, cycle.at)
    BY <1>given, Zenon DEF StateOK
  <2> QED BY <2>1, LedgerFields DEF LedgerOK
<1>2. n \in DOMAIN e.ledger.positions /\ n \in Nat /\ p \in Positions /\ p.state = "OPEN"
  BY <1>given, <1>1 DEF OpenIn
<1>3. /\ Working(s) /\ "positions" \in DOMAIN s.ledger
      /\ DOMAIN s.ledger.positions = DOMAIN e.ledger.positions
      /\ DOMAIN s.managed = DOMAIN e.managed
      /\ \A k \in OpenIn(e.ledger) :
            /\ k > n - 1 => Unworked(e, s, k)
            /\ k <= n - 1 => s.managed[e.ledger.positions[k].id] =
                   Reassessed(e.ledger.positions[k], e.managed[e.ledger.positions[k].id],
                              cycle.observations[e.ledger.positions[k].id], cycle.at)
  BY <1>given, Zenon DEF Quieted
<1>4. s.ledger.positions[n] = p /\ id \in DOMAIN s.managed /\ s.managed[id] = e.managed[id]
  <2>1. n > n - 1
    BY <1>2
  <2> QED BY <1>given, <1>3, <2>1, Zenon DEF Unworked
<1>5. OnlyManaged(s, r, n, p, mm)
  <2>1. cycle.quotes[p.mint] = None
    BY <1>given, <1>2, PositionFields DEF NoQuote
  <2>2. Quoteless(s, n, p, mm, cycle)
    BY <1>3, <1>4, <2>1, Zenon DEF Quoteless
  <2> HIDE DEF p, mm
  <2> QED BY <2>2, QuotelessExit
<1>6. /\ Working(r) /\ "positions" \in DOMAIN r.ledger
      /\ r.managed = [s.managed EXCEPT ![id] = mm]
      /\ DOMAIN r.ledger.positions = DOMAIN s.ledger.positions
      /\ \A k \in DOMAIN s.ledger.positions :
            k # n => r.ledger.positions[k] = s.ledger.positions[k]
  BY <1>5, Zenon DEF OnlyManaged
<1> HIDE DEF mm
<1>7. /\ r.managed[id] = mm /\ DOMAIN r.managed = DOMAIN s.managed
      /\ \A j \in DOMAIN s.managed : j # id => r.managed[j] = s.managed[j]
  <2> HIDE DEF id
  <2> QED BY <1>4, <1>6
<1>8. ASSUME NEW k \in OpenIn(e.ledger)
      PROVE  LET pk == e.ledger.positions[k]
             IN  /\ k > n => Unworked(e, r, k)
                 /\ k <= n => r.managed[pk.id] =
                        Reassessed(pk, e.managed[pk.id], cycle.observations[pk.id], cycle.at)
  <2> DEFINE pk == e.ledger.positions[k]
             ik == pk.id
  <2>1. CASE k = n
    <3>1. ~(k > n)
      BY <1>2, <2>1
    <3> QED BY <1>7, <2>1, <3>1 DEF mm
  <2>2. CASE k # n
    <3>1. k \in DOMAIN e.ledger.positions /\ k \in Nat
      BY <1>1 DEF OpenIn
    <3>2. (k > n => k > n - 1) /\ (k <= n => k <= n - 1)
      BY <1>2, <2>2, <3>1
    <3>3. ik # id
      BY <1>1, <1>2, <2>2, <3>1 DEF LedgerOK, IdentitiesOK
    <3>4. ik \in DOMAIN s.managed
      BY <1>given, <1>3 DEF StateOK, ManagedOK, IdsOf
    <3>5. r.managed[ik] = s.managed[ik] /\ r.ledger.positions[k] = s.ledger.positions[k]
      BY <1>3, <1>6, <1>7, <2>2, <3>1, <3>3, <3>4, Zenon
    <3>6. k > n => Unworked(e, r, k)
      <4>1. ASSUME Unworked(e, s, k) PROVE Unworked(e, r, k)
        BY <1>7, <3>5, <4>1, Zenon DEF Unworked
      <4> QED BY <1>3, <3>2, <4>1, Zenon
    <3>7. k <= n => r.managed[ik] =
              Reassessed(pk, e.managed[ik], cycle.observations[ik], cycle.at)
      BY <1>3, <3>2, <3>5, Zenon
    <3> QED BY <3>6, <3>7
  <2> QED BY <2>1, <2>2
<1>9. DOMAIN r.ledger.positions = DOMAIN e.ledger.positions /\ DOMAIN r.managed = DOMAIN e.managed
  BY <1>3, <1>6, <1>7, Zenon
<1> QED BY <1>6, <1>8, <1>9, Zenon DEF Quieted

\* A cycle without quotes and candidates.
LEMMA QuietRun ==
    ASSUME NEW cycle, NEW t, NEW s, MayRun(s, t, cycle), NoQuote(cycle),
           NEW r, r = RunPaperCycle(s, cycle), NEW n \in OpenIn(s.ledger),
           NEW p, p = s.ledger.positions[n]
    PROVE  /\ p.id \in DOMAIN r.managed
           /\ r.managed[p.id] =
                 Reassessed(p, s.managed[p.id], cycle.observations[p.id], cycle.at)
<1> DEFINE w == Start(s)
           e == WorkCandidates(WorkPendingEntry(w, cycle), w.ledger, cycle)
           before == s.ledger
           x == WorkExits(e, before, cycle)
           len == Len(before.positions)
<1>1. /\ r = Completed(x, cycle.at)
      /\ w.ledger = s.ledger /\ w.managed = s.managed /\ Framed(w, e, cycle)
  <2> HIDE DEF w, e
  <2>1. w = Start(s)
    BY DEF w
  <2>2. e = WorkCandidates(WorkPendingEntry(w, cycle), w.ledger, cycle)
    BY DEF e
  <2>3. MadeBy(s, r, t, w, e, cycle)
    BY <2>1, <2>2, RunIs
  <2> QED BY <2>3 DEF MadeBy
<1> HIDE DEF w, e, x
<1>2. r.managed = x.managed
  <2> DEFINE at == cycle.at
  <2>1. r = Completed(x, at)
    BY <1>1
  <2> HIDE DEF at
  <2> QED BY <2>1, CompletedIs
<1>3. /\ StateOK(s, t) /\ Working(e) /\ StateOK(e, cycle.at)
      /\ len <= Len(e.ledger.positions)
      /\ \A k \in 1..len : e.ledger.positions[k] = before.positions[k]
      /\ \A id \in DOMAIN s.managed : id \in DOMAIN e.managed /\ e.managed[id] = s.managed[id]
  BY <1>1, Zenon DEF MayRun, Framed
<1>4. /\ DOMAIN before.positions = 1..len /\ len \in Nat
      /\ DOMAIN e.ledger.positions = 1..Len(e.ledger.positions)
      /\ Len(e.ledger.positions) \in Nat /\ e.ledger \in Ledgers
  BY <1>3, LedgerFields DEF StateOK, LedgerOK
<1>5. /\ n \in 1..len /\ p.state = "OPEN" /\ e.ledger.positions[n] = p /\ n \in OpenIn(e.ledger)
      /\ p.id \in DOMAIN s.managed /\ e.managed[p.id] = s.managed[p.id]
  <2>1. n \in 1..len /\ p.state = "OPEN"
    BY <1>4 DEF OpenIn
  <2>2. e.ledger.positions[n] = p /\ n \in 1..Len(e.ledger.positions)
    BY <1>3, <1>4, <2>1
  <2>3. p.id \in DOMAIN s.managed
    BY <1>3 DEF StateOK, ManagedOK, IdsOf
  <2> QED BY <1>3, <1>4, <2>1, <2>2, <2>3 DEF OpenIn
<1>6. PICK f : ExitSteps(f, e, before, cycle)
  <2> HIDE DEF before
  <2>1. Len(before.positions) \in Nat
    BY <1>4
  <2> QED BY SMTT(30), <2>1, ExitsWorked
<1> DEFINE S == {k \in 0..len : Quieted(e, f[k], k, cycle)}
<1>7. 0 \in S
  <2>1. f[0] = e /\ 0 \in 0..len
    BY <1>4, <1>6 DEF ExitSteps
  <2>2. "positions" \in DOMAIN e.ledger
    BY <1>4 DEF Ledgers
  <2>3. ASSUME NEW k \in OpenIn(e.ledger) PROVE Unworked(e, e, k) /\ ~(k <= 0)
    <3>1. e.ledger.positions[k].id \in DOMAIN e.managed
      BY <1>3 DEF StateOK, ManagedOK, IdsOf
    <3>2. ~(k <= 0)
      BY <1>4 DEF OpenIn
    <3> QED BY <3>1, <3>2 DEF Unworked
  <2> QED BY <1>3, <2>1, <2>2, <2>3 DEF Quieted
<1>8. ASSUME NEW k \in 1..len, k - 1 \in S PROVE k \in S
  <2>1. Quieted(e, f[k - 1], k - 1, cycle) /\ k \in 0..len /\ k \in 1..Len(e.ledger.positions)
    BY <1>3, <1>4, <1>8
  <2>2. CASE before.positions[k].state = "OPEN"
    <3> DEFINE v == f[k - 1]
               y == f[k]
    <3>1. y = WorkExit(v, k, cycle)
      BY <1>6, <2>2 DEF ExitSteps
    <3>2. k \in OpenIn(e.ledger)
      BY <1>3, <1>4, <2>1, <2>2 DEF OpenIn
    <3> HIDE DEF v, y
    <3>3. MayQuiet(e, v, k, cycle)
      BY <1>3, <2>1, <3>2 DEF MayQuiet, v
    <3>4. Quieted(e, y, k, cycle)
      BY SMTT(30), <3>1, <3>3, QuietedOn
    <3> QED BY <2>1, <3>4 DEF y
  <2>3. CASE before.positions[k].state # "OPEN"
    <3>1. f[k] = f[k - 1] /\ k \notin OpenIn(e.ledger)
      BY <1>3, <1>6, <2>3 DEF ExitSteps, OpenIn
    <3>2. ASSUME NEW j \in OpenIn(e.ledger)
          PROVE  (j > k => j > k - 1) /\ (j <= k => j <= k - 1)
      <4>1. j # k /\ j \in DOMAIN e.ledger.positions
        BY <3>1 DEF OpenIn
      <4> QED BY <1>4, <4>1
    <3> QED BY <2>1, <3>1, <3>2 DEF Quieted
  <2> QED BY <2>2, <2>3
<1>9. 0..len \subseteq S
  <2> HIDE DEF S, len
  <2>1. len \in Nat
    BY <1>4
  <2> QED BY <2>1, <1>7, <1>8, BoundedInduction
<1>10. Quieted(e, x, len, cycle)
  <2>1. len \in S
    BY <1>4, <1>9
  <2>2. f[len] = x
    BY <1>6 DEF ExitSteps, x
  <2> QED BY <2>1, <2>2
<1>11. n <= len
  BY SMTT(30), <1>4, <1>5
<1>12. /\ p.id \in DOMAIN x.managed
       /\ x.managed[p.id] = Reassessed(p, e.managed[p.id], cycle.observations[p.id], cycle.at)
  BY <1>3, <1>5, <1>10, <1>11 DEF Quieted
<1> QED BY <1>2, <1>5, <1>12

\* The kill switch makes a decision to exit of what is pending for every
\* position that is observed, in the very next cycle and without any quote.
LEMMA InvHalts == LoopInv => KillSwitchForcesExit
<1> SUFFICES ASSUME LoopInv, NEW id \in DOMAIN managed, NEW at \in lastCycle..Horizon,
                    NEW o \in Observations, o.halt
             PROVE  LET cycle == CycleInput(at, <<>>, NoQuotes,
                                   [j \in DOMAIN managed |-> IF j = id THEN o ELSE None])
                        next == RunPaperCycle(State, cycle)
                    IN  /\ id \in DOMAIN next.managed
                        /\ next.managed[id].pending # None
                        /\ next.managed[id].pending.action = "EXIT"
  BY DEF KillSwitchForcesExit
<1> DEFINE observations == [j \in DOMAIN managed |-> IF j = id THEN o ELSE None]
           none == <<>>
           cycle == CycleInput(at, none, NoQuotes, observations)
           s == State
           next == RunPaperCycle(s, cycle)
           m == managed[id]
<1>1. PICK n \in OpenIn(ledger) :
         /\ ledger.positions[n].id = id
         /\ ledger.positions[n] \in Positions /\ ledger.positions[n].qty > 0
         /\ ManagementOK(ledger, ledger.positions[n], m, lastCycle)
  BY PositionIs
<1> DEFINE p == ledger.positions[n]
<1>2. /\ s.ledger = ledger /\ s.managed = managed /\ s.lastCycle = lastCycle
      /\ lastCycle \in Nat /\ at \in Nat /\ lastCycle <= at /\ StateOK(s, lastCycle)
  BY LoopAssumption DEF State, LoopInv
<1>3. /\ CycleOK(cycle) /\ cycle.at = at /\ cycle.observations = observations
      /\ NoQuote(cycle)
  <2>1. none \in Seq(Candidates) /\ NoQuotes \in [Mints -> QuoteKinds \cup {None}]
    BY DEF NoQuotes
  <2>2. cycle = CycleInput(at, none, NoQuotes, observations)
    OBVIOUS
  <2> HIDE DEF cycle, observations, none
  <2> DEFINE kinds == NoQuotes
  <2>3. kinds = [mint \in Mints |-> None]
    BY DEF NoQuotes
  <2> HIDE DEF kinds
  <2>4. cycle = CycleInput(at, none, kinds, observations)
        /\ kinds \in [Mints -> QuoteKinds \cup {None}]
    BY <2>1, <2>2 DEF kinds
  <2>5. /\ CycleOK(cycle) /\ cycle.at = at /\ cycle.observations = observations
        /\ \A mint \in Mints : cycle.quotes[mint] =
               IF kinds[mint] = None THEN None ELSE Stamped(kinds[mint], mint, at)
    BY <1>2, <2>1, <2>4, InputIs
  <2>6. \A mint \in Mints : cycle.quotes[mint] = None
    BY <2>3, <2>5
  <2> QED BY <2>5, <2>6 DEF NoQuote
<1> HIDE DEF cycle, s, m
<1>4. observations[id] = o
  OBVIOUS
<1> HIDE DEF observations
<1> DEFINE mm == Reassessed(p, m, o, at)
<1>5. id \in DOMAIN next.managed /\ next.managed[id] = mm
  <2> HIDE DEF next, p
  <2>1. MayRun(s, lastCycle, cycle)
    BY <1>2, <1>3 DEF MayRun
  <2>2. next = RunPaperCycle(s, cycle) /\ n \in OpenIn(s.ledger) /\ p = s.ledger.positions[n]
    BY <1>1, <1>2 DEF next, p
  <2>3. /\ p.id \in DOMAIN next.managed
        /\ next.managed[p.id] =
              Reassessed(p, s.managed[p.id], cycle.observations[p.id], cycle.at)
    BY <1>3, <2>1, <2>2, QuietRun
  <2>4. p.id = id /\ s.managed[id] = m /\ cycle.observations[id] = o /\ cycle.at = at
    BY <1>1, <1>2, <1>3, <1>4 DEF p, m
  <2> QED BY <2>3, <2>4
<1> DEFINE d == AssessExit(p, m.exit, o, at)
<1>6. d.action = "EXIT" /\ d \in Decisions
  <2> DEFINE exit == m.exit
  <2>1. /\ exit \in ExitStates /\ exit.opened <= exit.evaluated /\ exit.evaluated <= lastCycle
    BY <1>1 DEF ManagementOK
  <2>2. exit.evaluated <= at
    BY <1>2, <2>1 DEF ExitStates
  <2>3. ObservationOK(o)
    BY CycleAssumption DEF ObservationOK
  <2> HIDE DEF exit, p
  <2>4. AssessedAs(p, exit, at, AssessExit(p, exit, o, at))
        /\ (o.halt => AssessExit(p, exit, o, at).action = "EXIT")
    BY <1>1, <1>2, <2>1, <2>2, <2>3, AssessExitOK DEF p
  <2> QED BY <2>4 DEF AssessedAs, exit
<1>7. m.pending = None \/ m.pending.action \in {"REDUCE", "EXIT"}
  BY <1>1 DEF ManagementOK, PendingOK, DecisionFits
<1> HIDE DEF d
<1>8. mm.pending = Reconciled(m.pending, d)
  BY NoneAssumption DEF Reassessed, d
<1>9. mm.pending # None /\ mm.pending.action = "EXIT"
  <2>1. d # None
    BY <1>6, NoneAssumption
  <2> HIDE DEF mm
  <2> QED BY <1>6, <1>7, <1>8, <2>1 DEF Reconciled
<1> HIDE DEF mm, next
<1>10. /\ id \in DOMAIN next.managed /\ next.managed[id].pending # None
       /\ next.managed[id].pending.action = "EXIT"
  BY <1>5, <1>9
<1> QED BY <1>10 DEF next, cycle, s, observations

\* From every state the loop can reach, the operator's kill switch in a position's
\* observation leaves an exit pending for it: no price and no quote is needed, and
\* no earlier decision stands in its way.
THEOREM KillSwitchWins == Spec => []KillSwitchForcesExit
BY LoopInvariance, InvHalts, PTL

-----------------------------------------------------------------------------
(* The crashing service implements the paper loop.  The invariant for this *)
(* needs nothing of what a cycle computes: it says that the state in memory*)
(* is one cycle of the loop on the checkpoint the process restored, with   *)
(* the inputs it was given after the overlay of the controls.              *)

USE LoopAssumption, OverlayAssumption

\* The state a cycle at time `at' may compute from the checkpoint.
Successor(next, at) ==
    \E candidates \in CandidateLists,
       kinds \in [Mints -> QuoteKinds \cup {None}],
       observations \in [DOMAIN managed -> Observations \cup {None}] :
           next = RunPaperCycle(State, CycleInput(at, candidates, kinds, observations))

FlagsOK == halt \in BOOLEAN /\ kill \in BOOLEAN /\ controls \in Controls

InMemory ==
    /\ pc \in {"ready", "computed", "recorded"} => asOf \in Nat /\ asOf > lastCycle /\ asOf <= Horizon
    /\ pc \in {"computed", "recorded"} => Successor(working, asOf)

CampaignInv == FlagsOK /\ lastCycle \in Nat /\ InMemory

LEMMA CampaignInitInv == CampaignInit => CampaignInv
<1> SUFFICES ASSUME CampaignInit PROVE CampaignInv
  OBVIOUS
<1>1. halt = FALSE /\ kill = FALSE /\ controls = NoControls /\ pc = "idle" /\ lastCycle = 0
  BY DEF CampaignInit, Init, Operator!Init
<1> QED BY <1>1 DEF NoControls, Controls, CampaignInv, FlagsOK, InMemory

\* What the overlay makes of an input is an input.
LEMMA OverlaidInput ==
    ASSUME FlagsOK, NEW at,
           NEW candidates \in CandidateLists,
           NEW kinds \in [Mints -> QuoteKinds \cup {None}],
           NEW observations \in [DOMAIN managed -> Observations \cup {None}]
    PROVE  /\ OverlaidCandidates(candidates, controls) \in CandidateLists
           /\ OverlaidObservations(observations, controls)
                  \in [DOMAIN managed -> Observations \cup {None}]
           /\ Overlaid(CycleInput(at, candidates, kinds, observations))
                  = CycleInput(at, OverlaidCandidates(candidates, controls), kinds,
                               OverlaidObservations(observations, controls))
<1> DEFINE approved == OverlaidCandidates(candidates, controls)
           observed == OverlaidObservations(observations, controls)
           quotes == [m \in Mints |-> IF kinds[m] = None THEN None
                                       ELSE Stamped(kinds[m], m, at)]
           Input(c, o) == [at |-> at, candidates |-> c, observations |-> o,
                           quotes |-> quotes]
<1>1. approved \in CandidateLists
  BY DEF OverlayAssumption, FlagsOK
<1>2. observed \in [DOMAIN managed -> Observations \cup {None}]
  BY DEF OverlayAssumption, FlagsOK, OverlaidObservations
<1>3. Overlaid(Input(candidates, observations)) = Input(approved, observed)
  <2> DEFINE given == Input(candidates, observations)
  <2>1. given.candidates = candidates /\ given.observations = observations
    OBVIOUS
  <2> HIDE DEF given, Input, approved, observed
  <2>2. Overlaid(given) = [given EXCEPT !.candidates = approved, !.observations = observed]
    BY <2>1 DEF Overlaid, approved, observed
  <2> HIDE DEF quotes
  <2>3. [given EXCEPT !.candidates = approved, !.observations = observed]
            = Input(approved, observed)
    <3>1. [given EXCEPT !.candidates = approved] = Input(approved, observations)
      BY DEF given, Input
    <3>2. [Input(approved, observations) EXCEPT !.observations = observed]
              = Input(approved, observed)
      BY DEF Input
    <3> QED BY <3>1, <3>2
  <2> QED BY <2>2, <2>3 DEF given
<1> QED BY <1>1, <1>2, <1>3 DEF CycleInput

LEMMA OverlaidIsInput ==
    ASSUME FlagsOK,
           NEW at, NEW candidates \in CandidateLists,
           NEW kinds \in [Mints -> QuoteKinds \cup {None}],
           NEW observations \in [DOMAIN managed -> Observations \cup {None}]
    PROVE  Successor(RunPaperCycle(State, Overlaid(CycleInput(at, candidates, kinds, observations))), at)
BY OverlaidInput DEF Successor

\* A cycle's time is the time of the state it computes.
LEMMA SavedTime ==
    ASSUME lastCycle \in Nat, asOf \in Nat, asOf > lastCycle, Successor(working, asOf)
    PROVE  working.lastCycle = asOf
<1>1. PICK candidates \in CandidateLists,
           kinds \in [Mints -> QuoteKinds \cup {None}],
           observations \in [DOMAIN managed -> Observations \cup {None}] :
          working = RunPaperCycle(State, CycleInput(asOf, candidates, kinds, observations))
  BY DEF Successor
<1> DEFINE cycle == CycleInput(asOf, candidates, kinds, observations)
<1>2. cycle.at = asOf /\ State.lastCycle = lastCycle
  BY DEF CycleInput, State
<1>3. \A s, at : Completed(s, at).lastCycle = at
  BY DEF Completed
<1> HIDE DEF cycle
<1>4. RunPaperCycle(State, cycle).lastCycle = cycle.at
  BY <1>2, <1>3 DEF RunPaperCycle
<1> QED BY <1>1, <1>2, <1>4 DEF cycle

LEMMA BeginInv ==
    ASSUME CampaignInv, NEW at \in 0..Horizon, Begin(at)
    PROVE  CampaignInv'
<1> USE DEF Begin, checkpoint, file
<1>1. FlagsOK'
  BY DEF CampaignInv, FlagsOK, CurrentControls, Controls
<1>2. lastCycle' \in Nat /\ InMemory'
  BY DEF CampaignInv, InMemory
<1> QED BY <1>1, <1>2 DEF CampaignInv

LEMMA ComputeInv ==
    ASSUME CampaignInv,
           NEW candidates \in CandidateLists,
           NEW kinds \in [Mints -> QuoteKinds \cup {None}],
           NEW observations \in [DOMAIN managed -> Observations \cup {None}],
           Compute(CycleInput(asOf, candidates, kinds, observations))
    PROVE  CampaignInv'
<1> USE DEF Compute, checkpoint, file
<1>1. Successor(working', asOf)
  BY OverlaidIsInput DEF CampaignInv
<1>2. Successor(working, asOf)'
  BY <1>1 DEF Successor, State
<1>3. FlagsOK' /\ lastCycle' \in Nat
  BY DEF CampaignInv, FlagsOK
<1>4. InMemory'
  BY <1>1, <1>2 DEF CampaignInv, InMemory
<1> QED BY <1>3, <1>4 DEF CampaignInv

LEMMA CampaignStepInv == CampaignInv /\ [Environment \/ Process]_campaignVars => CampaignInv'
<1> SUFFICES ASSUME CampaignInv, [Environment \/ Process]_campaignVars PROVE CampaignInv'
  OBVIOUS
<1> USE DEF checkpoint, file, memory
<1>1. CASE UNCHANGED campaignVars
  BY <1>1 DEF campaignVars, CampaignInv, FlagsOK, InMemory, Successor, State
<1>2. CASE Operate
  <2>1. halt' \in BOOLEAN /\ kill' \in BOOLEAN
    BY <1>2 DEF Operate, CampaignInv, FlagsOK, Operator!Next, Operator!HaltNewEntries,
       Operator!EmergencyKill, Operator!ResetKillSwitch, Operator!ClearEntryHalt
  <2> QED BY <1>2, <2>1 DEF Operate, CampaignInv, FlagsOK, InMemory, Successor, State
<1>3. CASE LoseOrRepairFile \/ Restart
  BY <1>3 DEF LoseOrRepairFile, Restart, CampaignInv, FlagsOK, InMemory, Successor, State
<1>4. CASE Crash
  BY <1>4 DEF Crash, CampaignInv, FlagsOK, InMemory
<1>5. CASE \E at \in {t \in 0..Horizon : t >= lastCycle - 1} : Begin(at)
  BY <1>5, BeginInv
<1>6. CASE \E candidates \in CandidateLists,
              kinds \in [Mints -> QuoteKinds \cup {None}],
              observations \in [DOMAIN managed -> Observations \cup {None}] :
                  Compute(CycleInput(asOf, candidates, kinds, observations))
  BY <1>6, ComputeInv
<1>7. CASE RecordEvidence
  BY <1>7 DEF RecordEvidence, CampaignInv, FlagsOK, InMemory, Successor, State
<1>8. CASE SaveCheckpoint
  <2>1. lastCycle' = asOf
    BY <1>8, SavedTime DEF SaveCheckpoint, CampaignInv, InMemory
  <2> QED BY <1>8, <2>1 DEF SaveCheckpoint, CampaignInv, FlagsOK, InMemory
<1> QED BY <1>1, <1>2, <1>3, <1>4, <1>5, <1>6, <1>7, <1>8 DEF Environment, Process

LEMMA CampaignInvariance == CampaignSpec => []CampaignInv
<1> QED BY CampaignInitInv, CampaignStepInv, PTL DEF CampaignSpec

\* However often the service crashes, and whatever the operator does meanwhile,
\* the checkpoints it saves are those of a paper loop that never stopped: every
\* save is one cycle on the checkpoint before, and nothing else changes it.
THEOREM ImplementsPaperLoop == CampaignSpec => CheckpointsAreCycles
<1>1. CampaignInit => Init
  BY DEF CampaignInit
<1>2. CampaignInv /\ [Environment \/ Process]_campaignVars => [Next]_vars
  <2> SUFFICES ASSUME CampaignInv, Environment \/ Process PROVE [Next]_vars
    BY DEF campaignVars, checkpoint, vars
  <2>1. CASE SaveCheckpoint
    <3>1. asOf \in (lastCycle + MinStep)..Horizon
      BY <2>1 DEF SaveCheckpoint, CampaignInv, InMemory, LoopAssumption, OverlayAssumption
    <3>2. PICK candidates \in CandidateLists,
               kinds \in [Mints -> QuoteKinds \cup {None}],
               observations \in [DOMAIN managed -> Observations \cup {None}] :
              working = RunPaperCycle(State, CycleInput(asOf, candidates, kinds, observations))
      BY <2>1 DEF SaveCheckpoint, CampaignInv, InMemory, Successor
    <3>3. Cycle(CycleInput(asOf, candidates, kinds, observations))
      BY <2>1, <3>2 DEF Cycle, Become, SaveCheckpoint
    <3> QED BY <3>1, <3>3 DEF Next
  <2>2. CASE UNCHANGED checkpoint
    BY <2>2 DEF checkpoint, vars
  <2> QED
    BY <2>1, <2>2 DEF Environment, Process, Operate, LoseOrRepairFile, Crash,
       Begin, Compute, RecordEvidence, Restart
<1> QED BY <1>1, <1>2, CampaignInvariance, PTL DEF CampaignSpec, CheckpointsAreCycles, Spec

-----------------------------------------------------------------------------
(* Evidence, and what a cycle that read a halt enters.                     *)

LEMMA CampaignLoopInv == CampaignSpec => []LoopInv
BY ImplementsPaperLoop, LoopInvariance, PTL DEF CheckpointsAreCycles

\* What a cycle with input of these does to the checkpoint.
LEMMA InputEffect ==
    ASSUME LoopInv, NEW at \in Nat, lastCycle < at,
           NEW candidates \in CandidateLists,
           NEW kinds \in [Mints -> QuoteKinds \cup {None}],
           NEW observations \in [DOMAIN managed -> Observations \cup {None}],
           NEW cycle, cycle = CycleInput(at, candidates, kinds, observations)
    PROVE  /\ CycleEffect(State, RunPaperCycle(State, cycle), cycle)
           /\ cycle.candidates = candidates
<1>1. lastCycle \in Nat /\ StateOK(State, lastCycle) /\ State.lastCycle = lastCycle
      /\ State.managed = managed
  BY DEF LoopInv, State
<1>2. candidates \in Seq(Candidates)
  BY CycleAssumption
<1>3. /\ CycleOK(cycle) /\ cycle.at = at /\ cycle.observations = observations
      /\ cycle.candidates = candidates
  BY <1>2, InputIs
<1>4. MayRun(State, lastCycle, cycle)
  BY <1>1, <1>3 DEF MayRun
<1>5. ASSUME NEW id \in DOMAIN State.managed
      PROVE  Assessable(State.managed[id], cycle.observations[id], cycle.at)
  <2>1. observations[id] \in Observations \cup {None}
    BY <1>1
  <2> QED BY <1>1, <1>3, <2>1, LaterAssessable
<1> DEFINE next == RunPaperCycle(State, cycle)
<1>6. next = RunPaperCycle(State, cycle)
  OBVIOUS
<1> HIDE DEF next
<1>7. CycleEffect(State, next, cycle)
  BY <1>4, <1>5, <1>6, CycleRun
<1> QED BY <1>3, <1>7 DEF next

LEMMA SuccessorEffect ==
    ASSUME LoopInv, NEW at \in Nat, lastCycle < at, NEW next, Successor(next, at)
    PROVE  \E cycle : CycleEffect(State, next, cycle)
BY InputEffect DEF Successor

\* The evidence ev has what the ledger l booked on positions and closed.
Covers(ev, l) ==
    /\ \A n \in DOMAIN l.entries :
         l.entries[n].position # None =>
             [id |-> <<"EXECUTION", n>>, content |-> l.entries[n]] \in ev
    /\ \A n \in DOMAIN l.positions :
         l.positions[n].state = "CLOSED" =>
             [id |-> <<"CLOSURE", l.positions[n].id>>, content |-> l.positions[n]] \in ev

\* What is captured of a cycle is all that the evidence lacks: a cycle changes
\* neither the entries it found nor the positions it found closed.
LEMMA CoversNext ==
    ASSUME NEW cycle, NEW t, NEW s, NEW r, NEW ev, StateOK(s, t), CycleEffect(s, r, cycle),
           Covers(ev, s.ledger), Captured(s.ledger, r.ledger) \subseteq ev
    PROVE  Covers(ev, r.ledger)
<1> DEFINE l == s.ledger
           ll == r.ledger
<1>1. LedgerOK(l, t) /\ LedgerOK(ll, cycle.at)
  BY DEF StateOK, CycleEffect
<1>2. /\ DOMAIN l.entries = 1..Len(l.entries) /\ DOMAIN l.positions = 1..Len(l.positions)
      /\ \A n \in 1..Len(l.positions) : l.positions[n].state \in {"OPEN", "CLOSED"}
  BY <1>1, LedgerFields, PositionFields DEF LedgerOK
<1>3. /\ \A n \in DOMAIN l.entries : ll.entries[n] = l.entries[n]
      /\ \A n \in DOMAIN l.positions :
            l.positions[n].state = "CLOSED" => ll.positions[n] = l.positions[n]
  BY <1>2 DEF CycleEffect
<1>4. Covers(ev, l) /\ Captured(l, ll) \subseteq ev
  OBVIOUS
<1> HIDE DEF l, ll
<1>5. ASSUME NEW n \in DOMAIN ll.entries, ll.entries[n].position # None
      PROVE  [id |-> <<"EXECUTION", n>>, content |-> ll.entries[n]] \in ev
  <2>1. CASE n \in DOMAIN l.entries
    BY <1>3, <1>4, <1>5, <2>1 DEF Covers
  <2>2. CASE n \notin DOMAIN l.entries
    <3>1. [id |-> <<"EXECUTION", n>>, content |-> ll.entries[n]] \in Captured(l, ll)
      BY <1>5, <2>2 DEF Captured
    <3> QED BY <1>4, <3>1
  <2> QED BY <2>1, <2>2
<1>6. ASSUME NEW n \in DOMAIN ll.positions, ll.positions[n].state = "CLOSED"
      PROVE  [id |-> <<"CLOSURE", ll.positions[n].id>>, content |-> ll.positions[n]] \in ev
  <2>1. CASE n \in DOMAIN l.positions /\ l.positions[n].state = "CLOSED"
    BY <1>3, <1>4, <2>1 DEF Covers
  <2>2. CASE n \in DOMAIN l.positions => l.positions[n].state = "OPEN"
    <3>1. [id |-> <<"CLOSURE", ll.positions[n].id>>, content |-> ll.positions[n]]
              \in Captured(l, ll)
      BY <1>6, <2>2 DEF Captured
    <3> QED BY <1>4, <3>1
  <2> QED BY <1>2, <2>1, <2>2
<1>7. Covers(ev, ll)
  BY <1>5, <1>6 DEF Covers
<1> QED BY <1>7 DEF ll

\* The evidence is ahead of the checkpoint by exactly the cycle recorded.
SoundInv ==
    /\ pc \in {"down", "idle", "ready", "computed", "recorded"}
    /\ kill => halt
    /\ controls.kill => controls.halt
    /\ working # None => pc \in {"computed", "recorded"}
    /\ Covers(evidence, ledger)
    /\ pc = "recorded" => Captured(ledger, working.ledger) \subseteq evidence

LEMMA SoundInitInv == CampaignInit => SoundInv
<1> SUFFICES ASSUME CampaignInit PROVE SoundInv
  OBVIOUS
<1>1. /\ pc = "idle" /\ kill = FALSE /\ controls.kill = FALSE /\ working = None
      /\ ledger.entries = <<>> /\ ledger.positions = <<>>
  BY DEF CampaignInit, Init, Operator!Init, NoControls, CreatePaperLedger
<1>2. Covers(evidence, ledger)
  BY <1>1 DEF Covers
<1> QED BY <1>1, <1>2 DEF SoundInv

LEMMA SoundStepInv ==
    ASSUME SoundInv, CampaignInv, LoopInv, [Environment \/ Process]_campaignVars
    PROVE  SoundInv'
<1> USE DEF checkpoint, file, memory
<1>1. CASE UNCHANGED campaignVars
  BY <1>1 DEF campaignVars, SoundInv
<1>2. CASE Operate
  <2>1. kill' => halt'
    BY <1>2 DEF Operate, SoundInv, Operator!Next, Operator!HaltNewEntries,
       Operator!EmergencyKill, Operator!ResetKillSwitch, Operator!ClearEntryHalt
  <2> QED BY <1>2, <2>1 DEF Operate, SoundInv
<1>3. CASE LoseOrRepairFile
  BY <1>3 DEF LoseOrRepairFile, SoundInv
<1>4. CASE Crash
  BY <1>4 DEF Crash, SoundInv
<1>5. CASE \E at \in {t \in 0..Horizon : t >= lastCycle - 1} : Begin(at)
  BY <1>5 DEF Begin, CurrentControls, SoundInv
<1>6. CASE \E candidates \in CandidateLists,
              kinds \in [Mints -> QuoteKinds \cup {None}],
              observations \in [DOMAIN managed -> Observations \cup {None}] :
                  Compute(CycleInput(asOf, candidates, kinds, observations))
  BY <1>6 DEF Compute, SoundInv
<1>7. CASE RecordEvidence
  <2> DEFINE captured == Captured(ledger, working.ledger)
  <2>1. CASE Conflicting(evidence, captured)
    BY <1>7, <2>1 DEF RecordEvidence, SoundInv
  <2>2. CASE ~Conflicting(evidence, captured)
    <3> HIDE DEF captured
    <3>1. /\ pc' = "recorded" /\ evidence' = evidence \cup captured /\ working' = working
          /\ UNCHANGED <<checkpoint, file, controls, asOf>>
      BY <1>7, <2>2 DEF RecordEvidence, captured
    <3>2. Covers(evidence', ledger)
      BY <3>1 DEF SoundInv, Covers
    <3> QED BY <3>1, <3>2 DEF SoundInv, captured
  <2> QED BY <2>1, <2>2
<1>8. CASE SaveCheckpoint
  <2>1. /\ pc = "recorded" /\ ledger' = working.ledger /\ pc' = "idle" /\ working' = None
        /\ UNCHANGED <<file, controls, evidence>>
    BY <1>8 DEF SaveCheckpoint
  <2>2. PICK cycle : CycleEffect(State, working, cycle)
    <3>1. asOf \in Nat /\ lastCycle < asOf /\ Successor(working, asOf)
      BY <2>1 DEF CampaignInv, InMemory
    <3> QED BY <3>1, SuccessorEffect
  <2>3. StateOK(State, lastCycle) /\ State.ledger = ledger
    BY DEF LoopInv, State
  <2>4. Covers(evidence, working.ledger)
    <3> DEFINE s == State
    <3>1. Covers(evidence, s.ledger) /\ Captured(s.ledger, working.ledger) \subseteq evidence
      BY <2>1, <2>3 DEF SoundInv
    <3>2. StateOK(s, lastCycle) /\ CycleEffect(s, working, cycle)
      BY <2>2, <2>3
    <3> HIDE DEF s
    <3> QED BY <3>1, <3>2, CoversNext
  <2> QED BY <2>1, <2>4 DEF SoundInv
<1>9. CASE Restart
  BY <1>9 DEF Restart, SoundInv
<1> QED BY <1>1, <1>2, <1>3, <1>4, <1>5, <1>6, <1>7, <1>8, <1>9 DEF Environment, Process

\* However the crashes fall between the two writes, the evidence file covers all
\* that the saved checkpoint booked and closed, with the checkpoint's content.
THEOREM CheckpointIsSound == CampaignSpec => []CheckpointSound
<1>1. SoundInv /\ CampaignInv => CheckpointSound
  <2> SUFFICES ASSUME SoundInv, CampaignInv PROVE CheckpointSound
    OBVIOUS
  <2>1. ASSUME pc \in {"computed", "recorded"}
        PROVE  working.lastCycle = asOf /\ asOf > lastCycle
    <3>1. asOf \in Nat /\ asOf > lastCycle /\ lastCycle \in Nat /\ Successor(working, asOf)
      BY <2>1 DEF CampaignInv, InMemory
    <3> QED BY <3>1, SavedTime
  <2>2. CampaignTypeOK
    BY <2>1 DEF SoundInv, CampaignTypeOK
  <2>3. EvidenceCoversCheckpoint
    BY SMTT(30) DEF SoundInv, Covers, EvidenceCoversCheckpoint
  <2> QED BY <2>2, <2>3 DEF CheckpointSound
<1> QED BY <1>1, SoundInitInv, SoundStepInv, CampaignInvariance, CampaignLoopInv, PTL
        DEF CampaignSpec

\* A cycle that read an entry halt enters at most what was pending before it.
THEOREM HaltStopsNewApprovals == CampaignSpec => HaltStopsApprovals
<1> DEFINE Stops ==
             working' # None /\ working = None /\ controls.halt =>
               /\ working'.entry \in {entry, None}
               /\ \A n \in DOMAIN working'.ledger.entries \ DOMAIN ledger.entries :
                    working'.ledger.entries[n].side = "BUY" =>
                        entry # None /\ working'.ledger.entries[n].key = entry.key
<1>1. ASSUME CampaignInv, LoopInv, [Environment \/ Process]_campaignVars
      PROVE  [Stops]_campaignVars
  <2> SUFFICES ASSUME Environment \/ Process, working' # None, working = None, controls.halt
               PROVE  /\ working'.entry \in {entry, None}
                      /\ \A n \in DOMAIN working'.ledger.entries \ DOMAIN ledger.entries :
                           working'.ledger.entries[n].side = "BUY" =>
                               entry # None /\ working'.ledger.entries[n].key = entry.key
    BY <1>1
  <2> USE DEF checkpoint, file, memory
  <2>1. PICK candidates \in CandidateLists,
             kinds \in [Mints -> QuoteKinds \cup {None}],
             observations \in [DOMAIN managed -> Observations \cup {None}] :
                 Compute(CycleInput(asOf, candidates, kinds, observations))
    BY DEF Environment, Process, Operate, LoseOrRepairFile, Crash, Begin, RecordEvidence,
       SaveCheckpoint, Restart
  <2> DEFINE given == CycleInput(asOf, candidates, kinds, observations)
             cycle == Overlaid(given)
             r == working'
             s == State
  <2>2. r = RunPaperCycle(s, cycle) /\ pc = "ready"
    BY <2>1 DEF Compute
  <2>3. asOf \in Nat /\ lastCycle < asOf
    BY <1>1, <2>2 DEF CampaignInv, InMemory
  <2>4. /\ OverlaidCandidates(candidates, controls) \in CandidateLists
        /\ OverlaidObservations(observations, controls)
               \in [DOMAIN managed -> Observations \cup {None}]
        /\ cycle = CycleInput(asOf, OverlaidCandidates(candidates, controls), kinds,
                              OverlaidObservations(observations, controls))
    BY <1>1, OverlaidInput DEF CampaignInv
  <2>5. CycleEffect(s, r, cycle) /\ cycle.candidates = OverlaidCandidates(candidates, controls)
    <3> HIDE DEF cycle, s, r
    <3>1. r = RunPaperCycle(State, cycle)
      BY <2>2 DEF s
    <3>2. /\ CycleEffect(State, RunPaperCycle(State, cycle), cycle)
          /\ cycle.candidates = OverlaidCandidates(candidates, controls)
      <4> DEFINE list == OverlaidCandidates(candidates, controls)
                 seen == OverlaidObservations(observations, controls)
      <4>1. list \in CandidateLists /\ cycle = CycleInput(asOf, list, kinds, seen)
            /\ seen \in [DOMAIN managed -> Observations \cup {None}]
        BY <2>4
      <4> HIDE DEF list, seen
      <4>2. /\ CycleEffect(State, RunPaperCycle(State, cycle), cycle)
            /\ cycle.candidates = list
        BY <1>1, <2>3, <4>1, InputEffect
      <4> QED BY <4>2 DEF list
    <3> QED BY <3>1, <3>2 DEF s
  <2>6. \A n \in 1..Len(cycle.candidates) : ~cycle.candidates[n].approved
    <3>1. candidates \in Seq(Candidates)
      BY CycleAssumption
    <3>2. DOMAIN candidates = 1..Len(candidates) /\ Len(candidates) \in Nat
      BY <3>1
    <3>3. \A n \in DOMAIN candidates :
             OverlaidCandidates(candidates, controls)[n] =
                 [candidates[n] EXCEPT !.approved = @ /\ ~controls.halt /\ ~controls.kill]
      BY DEF OverlaidCandidates
    <3>4. ASSUME NEW n \in DOMAIN candidates
          PROVE  OverlaidCandidates(candidates, controls)[n].approved = FALSE
      <4>1. candidates[n] \in Candidates
        BY <3>1, <3>2
      <4> QED BY <3>3, <4>1 DEF Candidates
    <3>5. Len(OverlaidCandidates(candidates, controls)) = Len(candidates)
      BY <3>2 DEF OverlaidCandidates
    <3> HIDE DEF cycle
    <3> QED BY <2>5, <3>2, <3>4, <3>5
  <2>7. s.entry = entry /\ s.ledger = ledger
    BY DEF State
  <2> HIDE DEF cycle, s, r
  <2>8. /\ DOMAIN s.ledger.entries = 1..Len(s.ledger.entries)
        /\ DOMAIN r.ledger.entries = 1..Len(r.ledger.entries)
        /\ Len(s.ledger.entries) \in Nat /\ Len(r.ledger.entries) \in Nat
    <3>1. StateOK(s, lastCycle) /\ StateOK(r, cycle.at)
      BY <1>1, <2>5 DEF LoopInv, CycleEffect, s
    <3> QED BY <3>1, LedgerFields DEF StateOK, LedgerOK
  <2>9. EntersOnly(s, r.entry, r.ledger, cycle)
    BY <2>5 DEF CycleEffect
  <2>10. ASSUME NEW n \in DOMAIN r.ledger.entries \ DOMAIN s.ledger.entries
         PROVE  n \in (Len(s.ledger.entries) + 1)..Len(r.ledger.entries)
    BY <2>8
  <2>11. CASE /\ r.entry = None
              /\ \A k \in (Len(s.ledger.entries) + 1)..Len(r.ledger.entries) :
                    r.ledger.entries[k].side # "BUY"
    BY <2>7, <2>10, <2>11 DEF r
  <2>12. CASE \E i \in EntryIntents :
              /\ Origin(s, i, cycle) /\ r.entry \in {i, None}
              /\ \A k \in (Len(s.ledger.entries) + 1)..Len(r.ledger.entries) :
                    r.ledger.entries[k].side = "BUY" =>
                        k = Len(s.ledger.entries) + 1 /\ r.ledger.entries[k].key = i.key
    <3>1. PICK i \in EntryIntents :
              /\ Origin(s, i, cycle) /\ r.entry \in {i, None}
              /\ \A k \in (Len(s.ledger.entries) + 1)..Len(r.ledger.entries) :
                    r.ledger.entries[k].side = "BUY" =>
                        k = Len(s.ledger.entries) + 1 /\ r.ledger.entries[k].key = i.key
      BY <2>12
    <3>2. i = entry /\ i # None
      BY <2>6, <2>7, <3>1, NoneAssumption DEF Origin
    <3> QED BY <2>7, <2>10, <3>1, <3>2 DEF r
  <2> QED BY <2>9, <2>11, <2>12 DEF EntersOnly
<1> QED BY <1>1, CampaignInvariance, CampaignLoopInv, PTL DEF CampaignSpec, HaltStopsApprovals
=============================================================================
