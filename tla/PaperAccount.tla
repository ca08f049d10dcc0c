---------------------------- MODULE PaperAccount ----------------------------
(***************************************************************************)
(* What a paper trading account promises, without positions, journal or    *)
(* times: every intent is settled at most once, the balance never becomes  *)
(* negative, and money is never created: it moves between the balance and  *)
(* what is invested, and the rest is the recorded gain or loss.            *)
(* PaperLedger implements this specification.                              *)
(***************************************************************************)
EXTENDS Integers

CONSTANTS
    Keys,          \* the intents that may be settled
    StartingCash   \* the balance of the new account

VARIABLES
    settled,       \* keys settled so far
    balance,       \* cash
    invested,      \* cost of what is held
    gain           \* realized profit or loss

accountVars == <<settled, balance, invested, gain>>

Init ==
    /\ settled = {}
    /\ balance = StartingCash
    /\ invested = 0
    /\ gain = 0

\* A purchase turns balance into investment, costs included.
Invest ==
    /\ gain' = gain
    /\ invested' > invested
    /\ balance' = balance - (invested' - invested)

\* A sale releases part of the investment; proceeds beyond it are the gain.
Liquidate ==
    /\ invested' <= invested
    /\ gain' = gain + (balance' - balance) + (invested' - invested)

\* A failed attempt can only cost money, and every cost is a realized loss.
Lose ==
    /\ invested' = invested
    /\ balance' <= balance
    /\ gain' = gain + (balance' - balance)

Settle(k) ==
    /\ k \notin settled
    /\ settled' = settled \cup {k}
    /\ balance' \in Nat /\ invested' \in Int /\ gain' \in Int
    /\ Invest \/ Liquidate \/ Lose

Next == \E k \in Keys : Settle(k)

Spec == Init /\ [][Next]_accountVars
=============================================================================
