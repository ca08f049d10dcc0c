----------------------------- MODULE FastTrader -----------------------------
(***************************************************************************)
(* What the authoritative Fast PAPER runtime promises its books: the       *)
(* records of the feed are consumed one by one and in order, each at most  *)
(* buys or closes the position of its own market, a purchase that has to   *)
(* wait holds back every later record, and no record buys twice.           *)
(***************************************************************************)
EXTENDS Naturals

CONSTANTS Records,    \* the sequence numbers of feed records
          Markets

VARIABLES consumed,   \* the last record whose decision was executed
          open,       \* the markets with an open position
          pending,    \* the record whose purchase waits, or 0
          bought      \* the records that bought
tvars == <<consumed, open, pending, bought>>

TInit == consumed = 0 /\ open = {} /\ pending = 0 /\ bought = {}

Purchase(r) ==
    /\ r \notin bought
    /\ \E m \in Markets \ open : open' = open \cup {m}
    /\ bought' = bought \cup {r}
    /\ pending' = 0

Consume(r) ==
    /\ pending = 0
    /\ r = consumed + 1
    /\ consumed' = r
    /\ \/ open' = open /\ pending' \in {0, r} /\ bought' = bought
       \/ \E m \in open : open' = open \ {m} /\ pending' = 0 /\ bought' = bought
       \/ Purchase(r)

Retry ==
    /\ pending # 0
    /\ consumed' = consumed
    /\ \/ open' = open /\ pending' \in {0, pending} /\ bought' = bought
       \/ Purchase(pending)

TNext == Retry \/ \E r \in Records : Consume(r)
TSpec == TInit /\ [][TNext]_tvars
=============================================================================
