--------------------------- MODULE PaperExecution ---------------------------
(***************************************************************************)
(* One simulated execution attempt of the paper trading engine             *)
(* (shreks_brain/paper/engine.py, execute_paper_intent): a pure function   *)
(* of an intent, the quote at hand, the time it is evaluated and the set   *)
(* of intent keys already settled.                                         *)
(*                                                                         *)
(* Money and prices are integers.  A price is the cost of Unit atoms of a  *)
(* token, and a quantity is rounded up to whole atoms, since the code's is *)
(* never zero.  Reason codes are left out: the engine's callers distinguish*)
(* an outcome by its state, its cost and its cash flow.  UNAVAILABLE also stands for a quote without prices, and *)
(* `avail' is the lesser of the quoted and the available notional, 0 when  *)
(* either is missing: all of these fail alike, at no cost.                 *)
(***************************************************************************)
EXTENDS Integers

CONSTANTS
    Latency,            \* assumed_latency_ms
    MaxQuoteLag,        \* max_quote_lag_ms
    SwapFeeBps,         \* swap_fee_bps
    NetworkFee,         \* network_fee_usd
    AllowPartialFills,  \* allow_partial_fills
    MinPartialPct,      \* min_partial_fill_fraction, in percent
    Unit,               \* atoms of a token one price is quoted for
    None                \* absence of a quote, of a mark, of an intent

ASSUME PolicyAssumption ==
    /\ Latency \in Nat /\ MaxQuoteLag \in Nat
    /\ SwapFeeBps \in 0..10000 /\ NetworkFee \in Nat
    /\ AllowPartialFills \in BOOLEAN
    /\ MinPartialPct \in 1..100
    /\ Unit \in Nat \ {0}

Sides == {"BUY", "SELL"}
QuoteStates == {"EXECUTABLE", "UNAVAILABLE", "FAILED_AFTER_SUBMISSION"}
ExecutionStates == {"DEFERRED", "FAILED", "PARTIAL", "FILLED"}
Fills == {"PARTIAL", "FILLED"}

EligibleAt(i) == i.asOf + Latency
Deadline(i) == EligibleAt(i) + MaxQuoteLag

\* The attempt is malformed: a settled key, a clock before the intent, a quote
\* from the future, a quote of another token.
Malformed(i, at, q, processed) ==
    \/ i.key \in processed
    \/ at < i.asOf
    \/ q # None /\ (q.observed > at \/ q.mint # i.mint)

\* Nothing is known yet and something may still come before the deadline.
Waiting(i, at, q) ==
    \/ at < EligibleAt(i)
    \/ at <= Deadline(i) /\ (q = None \/ q.observed < EligibleAt(i))

InWindow(i, q) ==
    q # None /\ q.observed >= EligibleAt(i) /\ q.observed <= Deadline(i)

FillNotional(i, q) == IF q.avail < i.notional THEN q.avail ELSE i.notional

\* signed slippage in basis points, compared without dividing
SlippageWithin(i, q) ==
    LET adverse == IF i.side = "BUY" THEN q.price - q.ref ELSE q.ref - q.price
    IN  adverse * 10000 <= i.maxSlippage * q.ref

Fillable(i, q) ==
    LET fill == FillNotional(i, q)
    IN  /\ fill > 0
        /\ fill < i.notional =>
              AllowPartialFills /\ fill * 100 >= MinPartialPct * i.notional
        /\ SlippageWithin(i, q)

Outcome(i, at, state, fill, qty, price, cost, net) ==
    [key |-> i.key, mint |-> i.mint, side |-> i.side, notional |-> i.notional,
     at |-> at, state |-> state, fill |-> fill, qty |-> qty, price |-> price,
     cost |-> cost, net |-> net]

\* An attempt without a fill; only a failed submission costs its network fee.
Terminal(i, at, state, fee) == Outcome(i, at, state, 0, 0, 0, fee, -fee)

\* How many atoms a notional is worth.
Quantity(fill, price) == (fill * Unit + price - 1) \div price

Filled(i, at, q) ==
    LET fill == FillNotional(i, q)
        cost == (fill * SwapFeeBps) \div 10000 + NetworkFee
    IN  Outcome(i, at,
                IF fill < i.notional THEN "PARTIAL" ELSE "FILLED",
                fill,
                Quantity(fill, q.price),
                q.price,
                cost,
                IF i.side = "BUY" THEN -(fill + cost) ELSE fill - cost)

ExecutePaperIntent(i, at, q, processed) ==
    IF Malformed(i, at, q, processed) THEN Terminal(i, at, "FAILED", 0)
    ELSE IF Waiting(i, at, q) THEN Terminal(i, at, "DEFERRED", 0)
    ELSE IF ~InWindow(i, q) \/ q.state = "UNAVAILABLE"
         THEN Terminal(i, at, "FAILED", 0)
    ELSE IF q.state = "FAILED_AFTER_SUBMISSION"
         THEN Terminal(i, at, "FAILED", NetworkFee)
    ELSE IF Fillable(i, q) THEN Filled(i, at, q)
    ELSE Terminal(i, at, "FAILED", 0)
=============================================================================
