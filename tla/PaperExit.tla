----------------------------- MODULE PaperExit ------------------------------
(***************************************************************************)
(* The exit engine (shreks_brain/exits/engine.py): what to do with one open*)
(* position, given the evidence of this instant and the state kept for it. *)
(*                                                                         *)
(* An observation is [halt, price, signals].  Its price is None when the   *)
(* market or the execution evidence is stale, from the future or unpriced: *)
(* the engine treats these alike.  Its signals are the triggers that read  *)
(* evidence other than the price: MARKET_ALARM stands for the ones that go *)
(* before the stops (route, liquidity, impact, capacity), FLOW_ALARM for   *)
(* the ones after them (wallet distribution, flow, momentum).              *)
(*                                                                         *)
(* Fractions are in percent; a fraction of a position is rounded up to a   *)
(* whole atom, since the code's is never zero.                             *)
(***************************************************************************)
EXTENDS PaperAccounting

CONSTANTS
    MaxHold,         \* max_hold_seconds, or None
    HardStop,        \* hard_stop_loss_pct
    TrailActivation, \* trailing_activation_return_pct
    TrailDrawdown,   \* trailing_stop_drawdown_pct
    TakeProfits      \* take_profit_levels: a sequence of [trigger, reduce]

ASSUME ExitPolicyAssumption ==
    /\ MaxHold = None \/ MaxHold \in Nat \ {0}
    /\ HardStop \in 1..100 /\ TrailActivation \in Nat /\ TrailDrawdown \in 1..100
    /\ \A k \in DOMAIN TakeProfits : /\ TakeProfits[k].trigger \in Nat \ {0}
                                     /\ TakeProfits[k].reduce \in 1..100

Precedence ==
    <<"GLOBAL_HALT", "MAX_HOLD", "MARKET_ALARM", "HARD_STOP", "TRAILING_STOP",
      "FLOW_ALARM", "TAKE_PROFIT">>

Triggers == {Precedence[k] : k \in DOMAIN Precedence}

Primary(triggers) ==
    LET rank(t) == CHOOSE k \in DOMAIN Precedence : Precedence[k] = t
    IN  CHOOSE t \in triggers : \A u \in triggers : rank(t) <= rank(u)

CreateExitState(p) ==
    [opened |-> p.updated, evaluated |-> p.updated, done |-> {},
     high |-> IF p.mark # None /\ p.mark > p.entry THEN p.mark ELSE p.entry]

Share(quantity, percent) == (quantity * percent + 99) \div 100

\* price is at least `percent' above (below, when negative) the base
Returned(price, base, percent) == price * 100 >= base * (100 + percent)
Fallen(price, base, percent) == price * 100 <= base * (100 - percent)

\* The first level not completed, if its return is reached; later levels wait.
TakeProfitLevel(p, s, price) ==
    {k \in DOMAIN TakeProfits \ s.done :
        /\ \A j \in DOMAIN TakeProfits \ s.done : k <= j
        /\ Returned(price, p.entry, TakeProfits[k].trigger)}

Forced(s, o, at) ==
    (IF o.halt THEN {"GLOBAL_HALT"} ELSE {}) \cup
    (IF MaxHold # None /\ at - s.opened >= MaxHold THEN {"MAX_HOLD"} ELSE {})

Priced(p, s, o) ==
    o.signals \cup
    (IF Fallen(o.price, p.entry, HardStop) THEN {"HARD_STOP"} ELSE {}) \cup
    (IF /\ Returned(s.high, p.entry, TrailActivation)
        /\ Fallen(o.price, s.high, TrailDrawdown) THEN {"TRAILING_STOP"} ELSE {}) \cup
    (IF TakeProfitLevel(p, s, o.price) # {} THEN {"TAKE_PROFIT"} ELSE {})

\* the exit state after priced evidence
Observed(s, price, at) ==
    [s EXCEPT !.evaluated = at, !.high = IF price > @ THEN price ELSE @]

Hold(s, price) ==
    [action |-> "HOLD", reason |-> "NONE", qty |-> 0, level |-> None,
     price |-> price, asOf |-> s.evaluated, state |-> s]

ExitAll(p, s, reason, level, price) ==
    [action |-> "EXIT", reason |-> reason, qty |-> p.qty, level |-> level,
     price |-> price, asOf |-> s.evaluated, state |-> s]

TakeProfit(p, s, level, price) ==
    LET percent == TakeProfits[level].reduce
    IN  [ExitAll(p, s, "TAKE_PROFIT", level, price) EXCEPT
            !.action = IF percent = 100 THEN "EXIT" ELSE "REDUCE",
            !.qty = Share(p.qty, percent)]

\* With usable evidence: the primary trigger decides, and only a take-profit
\* that no graver trigger accompanies may sell less than everything.
AssessPriced(p, s, o, at) ==
    LET next == Observed(s, o.price, at)
        triggers == Forced(s, o, at) \cup Priced(p, next, o)
        levels == TakeProfitLevel(p, s, o.price)
        level == IF levels = {} THEN None ELSE CHOOSE k \in levels : TRUE
    IN  IF triggers = {} THEN Hold(next, o.price)
        ELSE IF Primary(triggers) = "TAKE_PROFIT"
             THEN TakeProfit(p, next, level, o.price)
        ELSE ExitAll(p, next, Primary(triggers), level, o.price)

\* Mutant: without usable evidence even a forced exit waits.
AssessExitNeedingPrice(p, s, o, at) ==
    IF at < s.opened \/ at < s.evaluated \/ o.price = None
    THEN Hold(s, None) ELSE AssessPriced(p, s, o, at)

AssessExit(p, s, o, at) ==
    IF at < s.opened \/ at < s.evaluated THEN Hold(s, None)
    ELSE IF o.price # None THEN AssessPriced(p, s, o, at)
    ELSE IF Forced(s, o, at) # {}
         THEN ExitAll(p, [s EXCEPT !.evaluated = at], Primary(Forced(s, o, at)),
                      None, None)
    ELSE Hold(s, None)

\* A level is completed once the ledger shows that enough was sold.
AcknowledgeExitFill(s, decision, before, after) ==
    IF /\ decision.reason = "TAKE_PROFIT"
       /\ \/ after.state = "CLOSED"
          \/ before.qty - after.qty >= decision.qty
    THEN [s EXCEPT !.done = @ \cup {decision.level}] ELSE s
=============================================================================
