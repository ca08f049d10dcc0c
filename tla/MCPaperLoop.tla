---------------------------- MODULE MCPaperLoop -----------------------------
(* A small paper loop: two tokens that compete for the entry slot and the   *)
(* risk limits, and the exits of what was bought.                           *)
EXTENDS PaperLoop

CONSTANTS m1, m2

Kind(age, price, avail, state) ==
    [age |-> age, ref |-> price, price |-> price, avail |-> avail, state |-> state]

Observation(price, halt, signals) ==
    [price |-> price, halt |-> halt, signals |-> signals]

Candidate(m) == [mint |-> m, approved |-> TRUE]

\* An entry at 2, then 4 is a doubling and 1 a halving.
ExitLevels == << [trigger |-> 50, reduce |-> 50], [trigger |-> 100, reduce |-> 100] >>

BothCandidates ==
    { <<>>, <<Candidate(m1), Candidate(m2)>>, <<Candidate(m2)>> }
BothQuotes ==
    { Kind(0, 2, 8, "EXECUTABLE"), Kind(0, 2, 4, "EXECUTABLE"),
      Kind(0, 2, 8, "FAILED_AFTER_SUBMISSION") }
BothObservations ==
    { Observation(1, FALSE, {}), Observation(4, FALSE, {}), Observation(None, TRUE, {}) }
=============================================================================
