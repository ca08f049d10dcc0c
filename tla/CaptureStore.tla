---------------------------- MODULE CaptureStore ----------------------------
(***************************************************************************)
(* What the observer's database does with the realtime lane: the ledger of *)
(* coverage sessions (shreks-storage/src/fast_realtime_coverage.rs) and    *)
(* the immutable trade evidence with its conflict quarantine               *)
(* (shreks-storage/src/fast_lane.rs, conflict_quarantine.rs).  Pure        *)
(* operators on the rows; the modules that keep the tables extend this     *)
(* one.                                                                    *)
(*                                                                         *)
(* A notification is identified by its transaction's signature and carries *)
(* TradesOf[signature] trades; what a trade says (amounts, reserves, side) *)
(* is abstracted to a number, its economics, since the store only asks     *)
(* whether two of them are equal.                                          *)
(***************************************************************************)
EXTENDS Naturals, Sequences

CONSTANTS
    Signatures,   \* the transactions that may be notified
    TradesOf,     \* how many trades each of them carries
    Economics     \* what a trade may say; a fork may say another thing

ASSUME StoreAssumption ==
    /\ TradesOf \in [Signatures -> Nat]
    /\ Economics \subseteq Nat \ {0}

(* The identity of a trade: its transaction and its ordinal in it. *)
Trades == UNION {{<<s, k>> : k \in 1..TradesOf[s]} : s \in Signatures}

NotStored == [economics |-> 0, at |-> 0]

(***************************************************************************)
(* Trade evidence.  The first delivery of an identity is stored, one that  *)
(* says the same again changes nothing, one that says another thing is     *)
(* kept beside it in the quarantine; what is stored is never replaced.     *)
(***************************************************************************)
Stored(evidence, trade) == evidence[trade].economics # 0

RecordTrade(evidence, trade, economics, at) ==
    IF Stored(evidence, trade)
    THEN evidence
    ELSE [evidence EXCEPT ![trade] = [economics |-> economics, at |-> at]]

(* Mutant: a delivery that disagrees is dropped like a repeated one. *)
QuarantineNothing(evidence, conflicts, trade, economics) == conflicts

Quarantine(evidence, conflicts, trade, economics) ==
    IF Stored(evidence, trade) /\ evidence[trade].economics # economics
    THEN conflicts \union {<<trade, economics>>}
    ELSE conflicts

Quarantined(conflicts, trade) == \E c \in conflicts : c[1] = trade

(* A delivered trade is accounted for when it is stored with what it said, *)
(* or its disagreement with what is stored is in the quarantine.           *)
Accounted(evidence, conflicts, trade, economics) ==
    \/ evidence[trade].economics = economics
    \/ <<trade, economics>> \in conflicts

(***************************************************************************)
(* Coverage sessions.  A row is written for the first notification of a    *)
(* session and its end moves with each further one.  `counted' is the      *)
(* sequence of the notifications the row counts, of which the table keeps  *)
(* the number, the first and the last.                                     *)
(***************************************************************************)
BeginSession(sessions, source, sequence, at, notification) ==
    Append(sessions, [source   |-> source,
                      sequence |-> sequence,
                      first    |-> at,
                      last     |-> at,
                      counted  |-> <<notification>>])

ExtendSession(sessions, row, at, notification) ==
    [sessions EXCEPT ![row].last    = at,
                     ![row].counted = Append(@, notification)]

(* Mutant: two notifications of one millisecond count as going backward. *)
ExtendRefusedStrictly(sessions, row, source, sequence, at) ==
    row # Len(sessions) \/ at <= sessions[row].last

(* The checks an extension must pass: only the latest row may grow, its    *)
(* identity may not change and its time may not move backward.             *)
ExtendRefused(sessions, row, source, sequence, at) ==
    \/ row # Len(sessions)
    \/ sessions[row].source # source
    \/ sessions[row].sequence # sequence
    \/ at < sessions[row].last
=============================================================================
