------------------------- MODULE FastRuntimeProofs --------------------------
(***************************************************************************)
(* Theorems about FastRuntime, for any markets, feeds, latencies, times    *)
(* and numbers of crashes.                                                 *)
(*                                                                         *)
(* The runtime re-reads its cursors in every cycle and decides from them   *)
(* alone.  The invariant says why that is enough: the two cursors and the  *)
(* recorded evidence stand in one of few relations (OneDecisionAhead), a   *)
(* step that a cycle prepared is still the one the cursors ask for         *)
(* (Prepared), and the rows of the database are those of a trader that     *)
(* never bought for a record twice (Trades).                               *)
(***************************************************************************)
EXTENDS FastRuntime, TLAPS

USE RuntimeAssumption DEF RuntimeAssumption

\* The record a row bought for, given the row before.
BoughtFor(before, row) == IF before.pending # 0 THEN before.pending ELSE row.decision
Bought ==
    {IF rows[i - 1].pending # 0 THEN rows[i - 1].pending ELSE rows[i].decision :
        i \in {j \in 2..Len(rows) : rows[j].did = "FILLED"}}

Prepared ==
    /\ pc = "commit" => /\ decided = Latest.decision + 1
                        /\ execution[decided] = Checkpoint
    /\ pc = "checkpoint" =>
          /\ decided = Latest.decision /\ FeedHas(Next1)
          /\ evidence[Next1] # None
          /\ evidence[Next1].open = OpenMarket(feed[Next1].market)

Trades ==
    /\ \A i \in 1..Len(rows) : rows[i].decision <= Latest.decision
    /\ \A i \in 2..Len(rows) : rows[i].decision >= 1
    /\ \A r \in Recorded : evidence[r].open <=> evidence[r].action \in {"HOLD", "SELL"}
    /\ Latest.pending \in {0, Latest.decision}
    /\ Latest.pending # 0 => /\ feed[Latest.pending].market \notin Latest.open
                             /\ Latest.pending \notin Bought
    /\ \A r \in Bought : r <= Latest.decision

IndInv == DecisionsFit /\ Prepared /\ Trades

-----------------------------------------------------------------------------
LEMMA InitInv == Init => IndInv
<1> SUFFICES ASSUME Init PROVE IndInv
  OBVIOUS
<1> USE DEF Init
<1>1. Len(rows) = 1 /\ Latest = rows[1] /\ Recorded = {}
  BY DEF Latest, Checkpoint, Recorded
<1>2. RuntimeTypeOK
  <2>1. rows[1] \in Row
    BY DEF Row, Effects
  <2> QED BY <1>1, <2>1 DEF RuntimeTypeOK, Phases, Records
<1>3. DecisionFitsBooks /\ OneDecisionAhead
  BY <1>1 DEF DecisionFitsBooks, OneDecisionAhead
<1>4. Bought = {}
  BY <1>1 DEF Bought
<1> QED BY <1>1, <1>2, <1>3, <1>4 DEF IndInv, DecisionsFit, Prepared, Trades

\* What the guards of the coordinator say, in the relations that occur.
LEMMA Cursors ==
    ASSUME RuntimeTypeOK, OneDecisionAhead
    PROVE  /\ Ahead => decided = Latest.decision + 1
           /\ Level => decided = Latest.decision
<1>1. Latest \in Row /\ Checkpoint \in Nat
  BY DEF RuntimeTypeOK, Latest, Checkpoint
<1>2. Latest.decision \in Nat /\ decided \in Nat
  BY <1>1 DEF RuntimeTypeOK, Row
<1> QED BY <1>2 DEF Ahead, Level, CursorsAgree, ExecutionCursor, Pristine,
           OneDecisionAhead, Next1

\* The ranges that the proofs below calculate with.
LEMMA Ranges ==
    ASSUME IndInv
    PROVE  /\ Latest \in Row /\ Checkpoint = Len(rows) /\ Checkpoint \in Nat /\ Checkpoint >= 1
           /\ \A i \in 1..Len(rows) : /\ rows[i] \in Row /\ rows[i].decision \in Nat
                                      /\ rows[i].decision <= Latest.decision
           /\ decided \in Nat /\ decided <= Len(feed) /\ Len(feed) \in Nat /\ Len(feed) <= MaxFeed
           /\ \A r \in 1..Len(feed) : feed[r].market \in Markets /\ feed[r].at \in Nat
           /\ Latest.decision \in Nat /\ Latest.decision <= decided
           /\ Latest.pending \in Nat /\ Latest.pending <= Latest.decision
<1> USE DEF IndInv, DecisionsFit, RuntimeTypeOK
<1>1. /\ Checkpoint = Len(rows) /\ Checkpoint \in Nat /\ Checkpoint >= 1
      /\ \A i \in 1..Len(rows) : rows[i] \in Row
  BY DEF Checkpoint
<1>2. Latest \in Row
  BY <1>1 DEF Latest
<1>3. \A row \in Row : row.decision \in Nat /\ row.pending \in Nat
  BY DEF Row
<1>4. /\ Latest.pending \in {0, Latest.decision}
      /\ \A i \in 1..Len(rows) : rows[i].decision <= Latest.decision
      /\ \A i \in 2..Len(rows) : rows[i].decision >= 1
  BY DEF Trades
<1>5. decided \in Nat /\ Latest.decision <= decided
  BY <1>2, <1>3 DEF OneDecisionAhead
<1>6. \A r \in 1..Len(feed) : feed[r].market \in Markets /\ feed[r].at \in Nat
  <2> DEFINE observed == [market : Markets, at : 0..FeedUntil]
  <2>1. feed \in Seq(observed)
    OBVIOUS
  <2> HIDE DEF IndInv, DecisionsFit, RuntimeTypeOK, observed
  <2>2. \A r \in 1..Len(feed) : feed[r] \in observed
    BY <2>1
  <2> QED BY <2>2 DEF observed
<1> QED BY <1>1, <1>2, <1>3, <1>4, <1>5, <1>6, SMTT(30)

\* A step that leaves feed, cursors, evidence and books alone keeps what is
\* said of them.
LEMMA Unmoved ==
    ASSUME IndInv, RuntimeTypeOK',
           decided' = decided, evidence' = evidence, execution' = execution,
           rows' = rows,
           \A r \in 1..Len(feed) : feed'[r] = feed[r],
           Len(feed) <= Len(feed'),
           pc' \in {"commit", "checkpoint"} => pc' = pc
    PROVE  IndInv'
<1>1. Latest' = Latest /\ Checkpoint' = Checkpoint /\ Recorded' = Recorded /\ Bought' = Bought
      /\ Next1' = Next1
  BY DEF Latest, Checkpoint, Recorded, Bought, Next1
<1>2. \A r \in 1..decided : feed'[r] = feed[r]
  BY SMTT(30), Ranges
<1>3. DecisionFitsBooks'
  <2> SUFFICES ASSUME NEW i \in 2..Len(rows), rows[i].decision # rows[i - 1].decision
               PROVE  /\ execution[rows[i].decision] = i - 1
                      /\ evidence[rows[i].decision].open
                            = (feed'[rows[i].decision].market \in rows[i - 1].open)
                      /\ feed'[rows[i].decision].at >= rows[i - 1].asOf
    BY DEF DecisionFitsBooks
  <2>1. i \in 1..Len(rows)
    OBVIOUS
  <2>2. rows[i].decision \in 1..decided
    BY <2>1, Ranges, SMTT(30) DEF IndInv, Trades, Row
  <2>3. feed'[rows[i].decision] = feed[rows[i].decision]
    BY <2>2, <1>2
  <2> QED BY <2>3 DEF IndInv, DecisionsFit, DecisionFitsBooks
<1>4. OneDecisionAhead'
  <2>1. decided \in {Latest.decision, Latest.decision + 1} /\ Recorded \in {1..decided, 1..Next1}
    BY DEF IndInv, DecisionsFit, OneDecisionAhead
  <2>2. ASSUME decided > Latest.decision PROVE evidence[decided].open = (feed'[decided].market \in Latest.open)
    BY <2>2, <1>2, Ranges DEF IndInv, DecisionsFit, OneDecisionAhead, OpenMarket
  <2> QED BY <1>1, <2>1, <2>2 DEF OneDecisionAhead, OpenMarket
<1>5. Prepared'
  <2>1. ASSUME pc = "checkpoint" PROVE feed'[Next1] = feed[Next1] /\ Next1 <= Len(feed')
    BY <2>1, Ranges DEF IndInv, Prepared, FeedHas, Next1
  <2> QED BY <1>1, <2>1 DEF IndInv, Prepared, OpenMarket, FeedHas
<1>6. Trades'
  <2>1. ASSUME Latest.pending # 0 PROVE feed'[Latest.pending] = feed[Latest.pending]
    BY <2>1, <1>2, Ranges
  <2> QED BY <1>1, <2>1 DEF IndInv, Trades
<1> QED BY <1>3, <1>4, <1>5, <1>6 DEF IndInv, DecisionsFit

-----------------------------------------------------------------------------
(* The steps that leave feed, cursors, evidence and books alone.           *)

LEMMA Environment ==
    ASSUME IndInv, Tick \/ (\E m \in Markets : Observe(m)) \/ Crash \/ Restart \/ BeginCycle
    PROVE  IndInv'
<1>1. CASE Tick \/ Crash \/ Restart \/ BeginCycle
  <2>1. RuntimeTypeOK'
    BY SMTT(30), <1>1 DEF Tick, Crash, Restart, BeginCycle, GoTo, sources, IndInv,
       DecisionsFit, RuntimeTypeOK, Phases
  <2>2. /\ decided' = decided /\ evidence' = evidence /\ execution' = execution
        /\ rows' = rows /\ feed' = feed
    BY <1>1 DEF Tick, Crash, Restart, BeginCycle, GoTo, sources
  <2>3. pc' \in {"commit", "checkpoint"} => pc' = pc
    BY <1>1 DEF Tick, Crash, Restart, BeginCycle, GoTo
  <2>4. Len(feed) <= Len(feed') /\ \A r \in 1..Len(feed) : feed'[r] = feed[r]
    BY <2>2, Ranges
  <2> QED BY Zenon, <2>1, <2>2, <2>3, <2>4, Unmoved
<1>2. ASSUME NEW m \in Markets, Observe(m) PROVE IndInv'
  <2>1. feed \in Seq([market : Markets, at : 0..FeedUntil]) /\ clock \in Nat
    BY DEF IndInv, DecisionsFit, RuntimeTypeOK
  <2>2. /\ feed' \in Seq([market : Markets, at : 0..FeedUntil])
        /\ Len(feed') = Len(feed) + 1 /\ Len(feed') <= MaxFeed
        /\ \A r \in 1..Len(feed) : feed'[r] = feed[r]
    BY <1>2, <2>1, Ranges DEF Observe
  <2>3. RuntimeTypeOK'
    BY <1>2, <2>2, Ranges, SMTT(30) DEF Observe, sources, IndInv, DecisionsFit, RuntimeTypeOK
  <2>4. /\ decided' = decided /\ evidence' = evidence /\ execution' = execution
        /\ rows' = rows /\ pc' = pc
    BY <1>2 DEF Observe, sources
  <2>5. Len(feed) <= Len(feed')
    BY <2>2, Ranges
  <2> QED BY Zenon, <2>2, <2>3, <2>4, <2>5, Unmoved
<1> QED BY <1>1, <1>2

LEMMA WriterInv == ASSUME IndInv, Publishes \/ WritesNothing PROVE IndInv'
<1> USE DEF GoTo, Phases, sources
<1>1. ASSUME NEW m \in Markets, WriteReduction(m) PROVE IndInv'
  <2>1. reduction' \subseteq Nat \X Markets
    BY SMTT(30), <1>1, Ranges DEF WriteReduction, IndInv, DecisionsFit, RuntimeTypeOK
  <2>2. RuntimeTypeOK'
    BY <1>1, <2>1 DEF WriteReduction, IndInv, DecisionsFit, RuntimeTypeOK
  <2> QED BY <1>1, <2>2, Unmoved, Ranges DEF WriteReduction
<1>2. ASSUME NEW r \in Records, WriteQuoteUsd(r) \/ WriteBuyAuthority(r) PROVE IndInv'
  <2>1. RuntimeTypeOK'
    BY <1>2 DEF WriteQuoteUsd, WriteBuyAuthority, IndInv, DecisionsFit, RuntimeTypeOK
  <2> QED BY <1>2, <2>1, Unmoved, Ranges DEF WriteQuoteUsd, WriteBuyAuthority
<1>3. CASE WriteRetry
  <2>1. now \in 0..MaxTime /\ retry \subseteq Nat \X (0..MaxTime)
    BY DEF IndInv, DecisionsFit, RuntimeTypeOK
  <2>2. retry' \subseteq Nat \X (0..MaxTime)
    BY <1>3, <2>1, Ranges DEF WriteRetry
  <2>3. RuntimeTypeOK'
    BY <1>3, <2>2 DEF WriteRetry, IndInv, DecisionsFit, RuntimeTypeOK
  <2> QED BY <1>3, <2>3, Unmoved, Ranges DEF WriteRetry
<1>4. CASE WritesNothing
  <2>1. RuntimeTypeOK'
    BY <1>4 DEF WritesNothing, IndInv, DecisionsFit, RuntimeTypeOK
  <2> QED BY <1>4, <2>1, Unmoved, Ranges DEF WritesNothing
<1> QED BY <1>1, <1>2, <1>3, <1>4 DEF Publishes

LEMMA NoWorkInv == ASSUME IndInv, Idles \/ Fails PROVE IndInv'
<1>1. pc' \in {"idle", "down"} /\ UNCHANGED <<feed, clock, now, crashes, decided, evidence, sources, rows>>
  BY DEF Idles, Fails, Waits, Refuses, GoTo
<1>2. RuntimeTypeOK'
  BY <1>1 DEF sources, IndInv, DecisionsFit, RuntimeTypeOK, Phases
<1> QED BY <1>1, <1>2, Unmoved, Ranges DEF sources

-----------------------------------------------------------------------------
(* Executing a decision.                                                   *)

LEMMA PublishInv == ASSUME IndInv, PublishExecution \/ ConsumeExecution PROVE IndInv'
<1> USE DEF PublishExecution, ConsumeExecution, GoTo, sources
<1>1. decided = Latest.decision + 1 /\ decided \in Records
  BY Cursors DEF IndInv, DecisionsFit, Recorded
<1>2. /\ execution' \in [Records -> Nat] /\ execution'[decided] = Checkpoint
      /\ \A r \in Records : execution[r] # 0 => execution'[r] = execution[r]
  BY <1>1, Ranges DEF IndInv, DecisionsFit, RuntimeTypeOK
<1>3. RuntimeTypeOK'
  BY <1>2 DEF IndInv, DecisionsFit, RuntimeTypeOK, Phases
<1>4. Latest' = Latest /\ Checkpoint' = Checkpoint /\ Recorded' = Recorded /\ Bought' = Bought
      /\ Next1' = Next1
  BY DEF Latest, Checkpoint, Recorded, Bought, Next1
<1>5. DecisionFitsBooks'
  <2> SUFFICES ASSUME NEW i \in 2..Len(rows), rows[i].decision # rows[i - 1].decision
               PROVE  execution'[rows[i].decision] = i - 1
    BY DEF DecisionFitsBooks, IndInv, DecisionsFit
  <2>1. execution[rows[i].decision] = i - 1
    BY DEF DecisionFitsBooks, IndInv, DecisionsFit
  <2>2. i \in 1..Len(rows) /\ i - 1 # 0
    BY Ranges
  <2>3. rows[i].decision \in Records
    BY SMTT(30), <1>1, <2>2, Ranges DEF IndInv, Trades, Row, Records
  <2> QED BY <1>2, <2>1, <2>2, <2>3
<1>6. OneDecisionAhead'
  BY <1>4 DEF IndInv, DecisionsFit, OneDecisionAhead, OpenMarket
<1>7. Prepared'
  BY <1>1, <1>2, <1>4 DEF Prepared
<1>8. Trades'
  BY <1>4 DEF IndInv, Trades
<1> QED BY <1>3, <1>5, <1>6, <1>7, <1>8 DEF IndInv, DecisionsFit

\* One more row.
LEMMA Appended ==
    ASSUME IndInv, NEW row \in Row, rows' = Append(rows, row)
    PROVE  /\ rows' \in Seq(Row) /\ rows' # <<>> /\ Len(rows') = Checkpoint + 1
           /\ Latest' = row /\ Checkpoint' = Checkpoint + 1
           /\ \A i \in 1..Checkpoint : rows'[i] = rows[i]
           /\ rows'[Checkpoint + 1] = row /\ rows[Checkpoint] = Latest
           /\ Bought' = Bought \cup
                  (IF row.did = "FILLED" THEN {BoughtFor(Latest, row)} ELSE {})
<1>1. rows \in Seq(Row) /\ Checkpoint = Len(rows) /\ Checkpoint \in Nat /\ Checkpoint >= 1
  BY Ranges DEF IndInv, DecisionsFit, RuntimeTypeOK
<1>2. /\ rows' \in Seq(Row) /\ Len(rows') = Checkpoint + 1
      /\ \A i \in 1..Checkpoint : rows'[i] = rows[i]
      /\ rows'[Checkpoint + 1] = row
  BY <1>1
<1>3. Latest' = row /\ Checkpoint' = Checkpoint + 1 /\ rows[Checkpoint] = Latest
  BY <1>1, <1>2 DEF Latest, Checkpoint
<1>4. ASSUME NEW b PROVE b \in Bought' <=> b \in Bought \/ (row.did = "FILLED" /\ b = BoughtFor(Latest, row))
  <2> DEFINE For(table, i) ==
               IF table[i - 1].pending # 0 THEN table[i - 1].pending ELSE table[i].decision
  <2>1. b \in Bought <=> \E i \in 2..Checkpoint : rows[i].did = "FILLED" /\ b = For(rows, i)
    BY <1>1 DEF Bought
  <2>2. b \in Bought' <=> \E i \in 2..Checkpoint + 1 : rows'[i].did = "FILLED" /\ b = For(rows', i)
    BY <1>2 DEF Bought
  <2>3. \A i \in 2..Checkpoint : rows'[i] = rows[i] /\ For(rows', i) = For(rows, i)
    BY <1>1, <1>2
  <2>4. rows'[Checkpoint + 1] = row /\ For(rows', Checkpoint + 1) = BoughtFor(Latest, row)
    <3>1. Checkpoint + 1 - 1 = Checkpoint /\ Checkpoint \in 1..Checkpoint
      BY <1>1
    <3> QED BY <1>2, <1>3, <3>1 DEF BoughtFor
  <2>5. \A i \in 2..Checkpoint + 1 : i \in 2..Checkpoint \/ i = Checkpoint + 1
    BY <1>1
  <2>6. 2..Checkpoint \subseteq 2..Checkpoint + 1 /\ Checkpoint + 1 \in 2..Checkpoint + 1
    BY <1>1
  <2> HIDE DEF For
  <2> QED BY <2>1, <2>2, <2>3, <2>4, <2>5, <2>6
<1> QED BY <1>1, <1>2, <1>3, <1>4

LEMMA BoughtRange ==
    ASSUME IndInv
    PROVE  \A r \in Bought : r \in Nat /\ r <= Latest.decision
<1>1. ASSUME NEW i \in 2..Len(rows)
      PROVE  rows[i - 1].pending \in Nat /\ rows[i].decision \in Nat
  <2>1. rows[i] \in Row /\ rows[i - 1] \in Row
    BY Ranges
  <2> QED BY SMTT(30), <2>1 DEF Row
<1> QED BY <1>1 DEF Bought, IndInv, Trades

LEMMA RecordedFacts ==
    ASSUME IndInv
    PROVE  /\ \A r \in 1..decided : r \in Recorded
           /\ \A r \in Recorded : /\ r \in Records /\ evidence[r] \in Evidence
                                  /\ evidence[r].open <=> evidence[r].action \in {"HOLD", "SELL"}
<1>1. Recorded \in {1..decided, 1..Next1} /\ decided \in Nat /\ Next1 = decided + 1
  BY Ranges DEF IndInv, DecisionsFit, OneDecisionAhead, Next1
<1>2. \A r \in 1..decided : r \in Recorded
  BY <1>1
<1>3. \A r \in Recorded : r \in Records /\ evidence[r] \in Evidence
  BY DEF Recorded, IndInv, DecisionsFit, RuntimeTypeOK
<1>4. \A r \in Recorded : evidence[r].open <=> evidence[r].action \in {"HOLD", "SELL"}
  BY DEF IndInv, Trades
<1> QED BY <1>2, <1>3, <1>4

\* What a decision that is executed does to the books.
LEMMA CommitFacts ==
    ASSUME IndInv, Commit
    PROVE  \E effect \in EffectsOf(decided) :
              /\ rows' = Append(rows, FreshRow(decided, effect))
              /\ FreshRow(decided, effect) \in Row
              /\ decided = Latest.decision + 1 /\ decided \in Recorded /\ decided \in 1..Len(feed)
              /\ execution[decided] = Checkpoint /\ FitsBooks(decided)
              /\ effect \in {"FILLED", "DEFERRED"} => feed[decided].market \notin Latest.open
              /\ effect = "SOLD" => feed[decided].market \in Latest.open
<1>1. PICK effect \in EffectsOf(decided) : rows' = Append(rows, FreshRow(decided, effect))
  BY DEF Commit, Store
<1>2. decided = Latest.decision + 1 /\ execution[decided] = Checkpoint /\ FitsBooks(decided)
  BY DEF Commit, IndInv, Prepared
<1>3. decided \in Nat /\ decided \in 1..Len(feed) /\ decided \in 0..MaxFeed
  BY <1>2, Ranges
<1>4. decided \in Recorded /\ evidence[decided] \in Evidence
      /\ (evidence[decided].open <=> evidence[decided].action \in {"HOLD", "SELL"})
  BY <1>3, RecordedFacts
<1>5. evidence[decided].open = (feed[decided].market \in Latest.open)
  BY <1>2 DEF FitsBooks, OpenMarket
<1>6. effect \in Effects
      /\ (effect \in {"FILLED", "DEFERRED"} => evidence[decided].action = "BUY")
      /\ (effect = "SOLD" => evidence[decided].action = "SELL")
  BY <1>4 DEF EffectsOf, Fills, Effects, Evidence, Actions
<1>7. Latest.open \subseteq Markets /\ Latest.asOf \in 0..MaxTime /\ feed[decided].market \in Markets
  BY <1>3, Ranges DEF Row
<1>8. Traded(feed[decided].market, effect) \subseteq Markets
  BY <1>7 DEF Traded
<1>9. Later(Latest.asOf, evidence[decided].at) \in 0..MaxTime
  BY <1>4, <1>7 DEF Later, Evidence
<1>10. FreshRow(decided, effect) \in Row
  BY <1>3, <1>6, <1>8, <1>9 DEF FreshRow, Row
<1> QED BY <1>1, <1>2, <1>3, <1>4, <1>5, <1>6, <1>10

LEMMA CommitInv == ASSUME IndInv, Commit PROVE IndInv'
<1> USE DEF GoTo, sources
<1>1. PICK effect \in EffectsOf(decided) :
          /\ rows' = Append(rows, FreshRow(decided, effect))
          /\ FreshRow(decided, effect) \in Row
          /\ decided = Latest.decision + 1 /\ decided \in Recorded /\ decided \in 1..Len(feed)
          /\ execution[decided] = Checkpoint /\ FitsBooks(decided)
          /\ effect \in {"FILLED", "DEFERRED"} => feed[decided].market \notin Latest.open
          /\ effect = "SOLD" => feed[decided].market \in Latest.open
  BY CommitFacts
<1> DEFINE row == FreshRow(decided, effect)
<1>2. /\ row.decision = decided /\ row.did = effect
      /\ row.pending = (IF effect = "DEFERRED" THEN decided ELSE 0)
      /\ row.open = Traded(feed[decided].market, effect)
  BY DEF FreshRow
<1>3. UNCHANGED <<feed, clock, now, crashes, decided, evidence, sources>> /\ pc' = "idle"
  BY DEF Commit
<1> HIDE DEF row
<1>4. row \in Row /\ rows' = Append(rows, row)
  BY <1>1 DEF row
<1>5. /\ rows' \in Seq(Row) /\ rows' # <<>> /\ Len(rows') = Checkpoint + 1
      /\ Latest' = row /\ Checkpoint' = Checkpoint + 1
      /\ \A i \in 1..Checkpoint : rows'[i] = rows[i]
      /\ rows'[Checkpoint + 1] = row /\ rows[Checkpoint] = Latest
      /\ Bought' = Bought \cup (IF effect = "FILLED" THEN {BoughtFor(Latest, row)} ELSE {})
  BY <1>2, <1>4, Appended
<1>6. Recorded' = Recorded /\ Next1' = Next1
  BY <1>3 DEF Recorded, Next1
<1>7. RuntimeTypeOK'
  BY <1>3, <1>5 DEF IndInv, DecisionsFit, RuntimeTypeOK, Phases
<1>8. Latest.pending = 0 /\ evidence[decided].open = (feed[decided].market \in Latest.open)
      /\ feed[decided].at >= Latest.asOf
  BY <1>1 DEF FitsBooks, OpenMarket
<1>9. DecisionFitsBooks'
  <2> SUFFICES ASSUME NEW i \in 2..Checkpoint + 1, rows'[i].decision # rows'[i - 1].decision
               PROVE  /\ execution[rows'[i].decision] = i - 1
                      /\ evidence[rows'[i].decision].open
                            = (feed[rows'[i].decision].market \in rows'[i - 1].open)
                      /\ feed[rows'[i].decision].at >= rows'[i - 1].asOf
    BY <1>3, <1>5 DEF DecisionFitsBooks
  <2>1. CASE i = Checkpoint + 1
    <3>1. i - 1 = Checkpoint /\ Checkpoint \in 1..Checkpoint
      BY <2>1, Ranges
    <3> QED BY SMTT(30), <2>1, <3>1, <1>1, <1>2, <1>5, <1>8
  <2>2. CASE i \in 2..Checkpoint
    <3>1. rows'[i] = rows[i] /\ rows'[i - 1] = rows[i - 1] /\ Checkpoint = Len(rows)
      BY <2>2, <1>5, Ranges
    <3> QED BY <2>2, <3>1 DEF IndInv, DecisionsFit, DecisionFitsBooks
  <2> QED BY SMTT(30), <2>1, <2>2, Ranges
<1>10. OneDecisionAhead'
  BY <1>1, <1>2, <1>3, <1>5, <1>6, Ranges DEF IndInv, DecisionsFit, OneDecisionAhead
<1>11. Prepared'
  BY <1>3 DEF Prepared
<1>12. Trades'
  <2>1. \A i \in 1..Len(rows') : rows'[i].decision <= decided
    BY SMTT(30), <1>1, <1>2, <1>5, Ranges
  <2>2. \A i \in 2..Len(rows') : rows'[i].decision >= 1
    BY SMTT(30), <1>1, <1>2, <1>5, Ranges DEF IndInv, Trades
  <2>3. BoughtFor(Latest, row) = decided
    BY <1>2, <1>8 DEF BoughtFor
  <2>4. \A r \in Bought' : r <= decided
    BY <2>3, <1>1, <1>5, BoughtRange, Ranges
  <2>5. row.pending # 0 => /\ feed[row.pending].market \notin row.open
                           /\ row.pending \notin Bought'
    <3> SUFFICES ASSUME effect = "DEFERRED"
                 PROVE  feed[decided].market \notin row.open /\ decided \notin Bought'
      BY <1>2, Ranges
    <3>1. decided \notin Bought
      BY <1>1, BoughtRange, Ranges
    <3> QED BY <1>1, <1>2, <1>5, <3>1 DEF Traded
  <2> QED BY <1>2, <1>3, <1>5, <1>6, <2>1, <2>2, <2>4, <2>5 DEF IndInv, Trades
<1> QED BY <1>7, <1>9, <1>10, <1>11, <1>12 DEF IndInv, DecisionsFit

\* What the evaluation of a purchase that waits does to the books.
LEMMA RetryFacts ==
    ASSUME IndInv, RetryPending
    PROVE  \E effect \in {"DEFERRED", "FILLED", "ABORTED"}, t \in 0..MaxTime :
              /\ rows' = Append(rows, RetryRow(Latest.pending, effect, t))
              /\ RetryRow(Latest.pending, effect, t) \in Row
              /\ decided = Latest.decision /\ Latest.pending = Latest.decision
              /\ Latest.pending \in 1..Len(feed)
<1>1. PICK t \in 0..MaxTime :
          \E effect \in Fills(t, feed[Latest.pending].at) :
              rows' = Append(rows, RetryRow(Latest.pending, effect, t))
  BY DEF RetryPending, Store
<1>2. decided = Latest.decision /\ Latest.pending = Latest.decision
  BY Cursors DEF RetryPending, IndInv, DecisionsFit, Trades
<1>3. Latest.pending \in 1..Len(feed) /\ Latest.decision \in 0..MaxFeed /\ Latest.pending \in 0..MaxFeed
  BY <1>2, Ranges DEF RetryPending
<1>0. PICK effect \in Fills(t, feed[Latest.pending].at) :
          rows' = Append(rows, RetryRow(Latest.pending, effect, t))
  BY <1>1
<1>4. effect \in {"DEFERRED", "FILLED", "ABORTED"}
  BY DEF Fills
<1>5. Latest.open \subseteq Markets /\ Latest.asOf \in 0..MaxTime /\ feed[Latest.pending].market \in Markets
  BY <1>3, Ranges DEF Row
<1>6. Traded(feed[Latest.pending].market, effect) \subseteq Markets
  BY <1>5 DEF Traded
<1>7. Later(Latest.asOf, t) \in 0..MaxTime
  BY <1>5 DEF Later
<1>8. RetryRow(Latest.pending, effect, t) \in Row
  BY <1>3, <1>4, <1>6, <1>7 DEF RetryRow, Row, Effects
<1> QED BY <1>0, <1>2, <1>3, <1>4, <1>8

LEMMA RetryInv == ASSUME IndInv, RetryPending PROVE IndInv'
<1> USE DEF GoTo, sources
<1>1. PICK effect \in {"DEFERRED", "FILLED", "ABORTED"}, t \in 0..MaxTime :
          /\ rows' = Append(rows, RetryRow(Latest.pending, effect, t))
          /\ RetryRow(Latest.pending, effect, t) \in Row
          /\ decided = Latest.decision /\ Latest.pending = Latest.decision
          /\ Latest.pending \in 1..Len(feed)
  BY RetryFacts
<1> DEFINE row == RetryRow(Latest.pending, effect, t)
<1>2. /\ row.decision = Latest.decision /\ row.did = effect
      /\ row.pending = (IF effect = "DEFERRED" THEN Latest.pending ELSE 0)
      /\ row.open = Traded(feed[Latest.pending].market, effect)
  BY DEF RetryRow
<1>3. UNCHANGED <<feed, clock, now, crashes, decided, evidence, sources>> /\ pc' = "idle"
  BY DEF RetryPending
<1> HIDE DEF row
<1>4. row \in Row /\ rows' = Append(rows, row)
  BY <1>1 DEF row
<1>5. /\ rows' \in Seq(Row) /\ rows' # <<>> /\ Len(rows') = Checkpoint + 1
      /\ Latest' = row /\ Checkpoint' = Checkpoint + 1
      /\ \A i \in 1..Checkpoint : rows'[i] = rows[i]
      /\ rows'[Checkpoint + 1] = row /\ rows[Checkpoint] = Latest
      /\ Bought' = Bought \cup (IF effect = "FILLED" THEN {BoughtFor(Latest, row)} ELSE {})
  BY <1>2, <1>4, Appended
<1>6. Recorded' = Recorded /\ Next1' = Next1
  BY <1>3 DEF Recorded, Next1
<1>7. RuntimeTypeOK'
  BY <1>3, <1>5 DEF IndInv, DecisionsFit, RuntimeTypeOK, Phases
<1>8. DecisionFitsBooks'
  <2> SUFFICES ASSUME NEW i \in 2..Checkpoint + 1, rows'[i].decision # rows'[i - 1].decision
               PROVE  /\ execution[rows'[i].decision] = i - 1
                      /\ evidence[rows'[i].decision].open
                            = (feed[rows'[i].decision].market \in rows'[i - 1].open)
                      /\ feed[rows'[i].decision].at >= rows'[i - 1].asOf
    BY <1>3, <1>5 DEF DecisionFitsBooks
  <2>1. i \in 2..Checkpoint
    <3>1. ASSUME i = Checkpoint + 1 PROVE i - 1 = Checkpoint /\ Checkpoint \in 1..Checkpoint
      BY <3>1, Ranges
    <3>2. i # Checkpoint + 1
      BY <3>1, <1>2, <1>5
    <3>3. Checkpoint \in Nat
      BY Ranges
    <3> QED BY <3>2, <3>3
  <2>2. rows'[i] = rows[i] /\ rows'[i - 1] = rows[i - 1] /\ Checkpoint = Len(rows)
    BY <2>1, <1>5, Ranges
  <2> QED BY <2>1, <2>2 DEF IndInv, DecisionsFit, DecisionFitsBooks
<1>9. OneDecisionAhead'
  BY SMTT(30), <1>1, <1>2, <1>3, <1>5, <1>6, Ranges DEF IndInv, DecisionsFit, OneDecisionAhead
<1>10. Prepared'
  BY <1>3 DEF Prepared
<1>11. Trades'
  <2>1. ASSUME NEW i \in 1..Checkpoint + 1 PROVE rows'[i].decision <= Latest.decision
    <3>1. CASE i = Checkpoint + 1
      BY <3>1, <1>2, <1>5, Ranges
    <3>2. CASE i \in 1..Checkpoint
      BY <3>2, <1>5, Ranges
    <3> QED BY <3>1, <3>2, Ranges
  <2>2. \A i \in 2..Len(rows') : rows'[i].decision >= 1
    BY SMTT(30), <1>1, <1>2, <1>5, Ranges DEF IndInv, Trades
  <2>3. BoughtFor(Latest, row) = Latest.pending
    BY <1>1 DEF BoughtFor
  <2>4. \A r \in Bought' : r <= Latest.decision
    BY <2>3, <1>1, <1>5, BoughtRange, Ranges
  <2>5. row.pending # 0 => /\ feed[row.pending].market \notin row.open
                           /\ row.pending \notin Bought'
    BY <1>1, <1>2, <1>5 DEF Traded, IndInv, Trades
  <2> QED BY SMTT(30), <1>1, <1>2, <1>3, <1>5, <1>6, <2>1, <2>2, <2>4, <2>5 DEF IndInv, Trades
<1> QED BY <1>7, <1>8, <1>9, <1>10, <1>11 DEF IndInv, DecisionsFit

-----------------------------------------------------------------------------
(* Deciding.                                                               *)

LEMMA DecideInv == ASSUME IndInv, Decide PROVE IndInv'
<1> USE DEF GoTo, sources
<1>1. /\ decided = Latest.decision /\ Latest.pending = 0 /\ Next1 = decided + 1
      /\ Next1 \in 1..Len(feed) /\ Next1 \in Records
  BY Cursors, Ranges DEF Decide, MayDecide, FeedHas, Next1, IndInv, DecisionsFit, Records
<1>2. PICK e \in Decisions(Next1) : evidence' = [evidence EXCEPT ![Next1] = e]
  BY DEF Decide
<1>3. /\ e.open = OpenMarket(feed[Next1].market) /\ now \in 0..MaxTime
      /\ e.open <=> e.action \in {"HOLD", "SELL"}
      /\ e \in [action : Actions, at : {now}, open : BOOLEAN]
  <2>1. now \in 0..MaxTime
    BY DEF IndInv, DecisionsFit, RuntimeTypeOK
  <2>2. OpenMarket(feed[Next1].market) \in BOOLEAN
    BY DEF OpenMarket
  <2>3. CASE OpenMarket(feed[Next1].market)
    BY <2>1, <2>2, <2>3 DEF Decisions, Actions
  <2>4. CASE ~OpenMarket(feed[Next1].market)
    BY <2>1, <2>2, <2>4 DEF Decisions, Actions
  <2> QED BY <2>3, <2>4
<1>4. e \in Evidence /\ e # None /\ (e.open <=> e.action \in {"HOLD", "SELL"})
  BY <1>3 DEF Evidence
<1>5. /\ evidence' \in [Records -> Evidence \cup {None}] /\ evidence'[Next1] = e
      /\ \A r \in Records : r # Next1 => evidence'[r] = evidence[r]
      /\ evidence[Next1] = None
  BY <1>1, <1>2, <1>4 DEF Decide, IndInv, DecisionsFit, RuntimeTypeOK
<1>6. Recorded' = Recorded \cup {Next1} /\ Next1 \notin Recorded
  BY <1>1, <1>4, <1>5 DEF Recorded
<1>7. UNCHANGED <<feed, clock, now, crashes, decided, sources, rows>> /\ pc' = "checkpoint"
  BY DEF Decide
<1>8. Latest' = Latest /\ Checkpoint' = Checkpoint /\ Bought' = Bought /\ Next1' = Next1
  BY <1>7 DEF Latest, Checkpoint, Bought, Next1
<1>9. RuntimeTypeOK'
  BY <1>5, <1>7 DEF IndInv, DecisionsFit, RuntimeTypeOK, Phases
<1>10. DecisionFitsBooks'
  <2> SUFFICES ASSUME NEW i \in 2..Len(rows), rows[i].decision # rows[i - 1].decision
               PROVE  evidence'[rows[i].decision] = evidence[rows[i].decision]
    BY <1>7 DEF DecisionFitsBooks, IndInv, DecisionsFit
  <2>1. i \in 1..Len(rows) /\ rows[i].decision >= 1
    BY Ranges DEF IndInv, Trades
  <2>2. rows[i].decision \in Records /\ rows[i].decision # Next1
    BY SMTT(30), <1>1, <2>1, Ranges DEF Records
  <2> QED BY <1>5, <2>2
<1>11. OneDecisionAhead'
  <2>1. Recorded' = 1..Next1
    BY <1>1, <1>6, Ranges DEF IndInv, DecisionsFit, OneDecisionAhead
  <2> QED BY <1>1, <1>7, <1>8, <2>1, Ranges DEF OneDecisionAhead
<1>12. Prepared'
  BY <1>1, <1>3, <1>4, <1>5, <1>7, <1>8 DEF Prepared, FeedHas, OpenMarket
<1>13. Trades'
  <2>1. \A r \in Recorded' : evidence'[r].open <=> evidence'[r].action \in {"HOLD", "SELL"}
    BY <1>4, <1>5, <1>6, RecordedFacts
  <2> QED BY <1>7, <1>8, <2>1 DEF IndInv, Trades
<1> QED BY <1>9, <1>10, <1>11, <1>12, <1>13 DEF IndInv, DecisionsFit

LEMMA ReplayInv == ASSUME IndInv, ReplayDecision PROVE IndInv'
<1> USE DEF GoTo, sources
<1>1. decided = Latest.decision /\ FeedHas(Next1) /\ evidence[Next1] # None
      /\ evidence[Next1].open = OpenMarket(feed[Next1].market)
  BY Cursors DEF ReplayDecision, MayDecide, SameInputs, IndInv, DecisionsFit
<1>2. UNCHANGED <<feed, clock, now, crashes, decided, evidence, sources, rows>> /\ pc' = "checkpoint"
  BY DEF ReplayDecision
<1>3. Latest' = Latest /\ Checkpoint' = Checkpoint /\ Recorded' = Recorded /\ Bought' = Bought
      /\ Next1' = Next1
  BY <1>2 DEF Latest, Checkpoint, Recorded, Bought, Next1
<1>4. RuntimeTypeOK'
  BY <1>2 DEF IndInv, DecisionsFit, RuntimeTypeOK, Phases
<1>5. DecisionFitsBooks' /\ OneDecisionAhead'
  BY <1>2, <1>3 DEF IndInv, DecisionsFit, DecisionFitsBooks, OneDecisionAhead, OpenMarket
<1>6. Prepared'
  BY <1>1, <1>2, <1>3 DEF Prepared, FeedHas, OpenMarket
<1>7. Trades'
  BY <1>2, <1>3 DEF IndInv, Trades
<1> QED BY <1>4, <1>5, <1>6, <1>7 DEF IndInv, DecisionsFit

LEMMA AdvanceInv == ASSUME IndInv, AdvanceCursor PROVE IndInv'
<1> USE DEF GoTo, sources
<1>1. /\ decided = Latest.decision /\ Next1 = decided + 1 /\ Next1 \in 1..Len(feed)
      /\ evidence[Next1] # None /\ evidence[Next1].open = OpenMarket(feed[Next1].market)
  BY Ranges DEF AdvanceCursor, IndInv, Prepared, FeedHas, Next1
<1>2. /\ UNCHANGED <<feed, clock, now, crashes, evidence, sources, rows>>
      /\ decided' = Next1 /\ pc' = "idle"
  BY DEF AdvanceCursor
<1>3. Latest' = Latest /\ Checkpoint' = Checkpoint /\ Recorded' = Recorded /\ Bought' = Bought
      /\ Next1' = Next1 + 1
  BY <1>2 DEF Latest, Checkpoint, Recorded, Bought, Next1
<1>4. RuntimeTypeOK'
  <2>1. decided' \in 0..MaxFeed /\ decided' <= Len(feed)
    BY SMTT(30), <1>1, <1>2, Ranges
  <2> QED BY <1>2, <2>1 DEF IndInv, DecisionsFit, RuntimeTypeOK, Phases
<1>5. DecisionFitsBooks'
  BY <1>2 DEF IndInv, DecisionsFit, DecisionFitsBooks
<1>6. OneDecisionAhead'
  <2>1. Next1 \in Recorded
    BY <1>1, Ranges DEF Recorded, Records
  <2>2. Recorded = 1..Next1
    BY <1>1, <2>1, Ranges DEF IndInv, DecisionsFit, OneDecisionAhead
  <2> QED BY <1>1, <1>2, <1>3, <2>2, Ranges DEF OneDecisionAhead, OpenMarket
<1>7. Prepared'
  BY <1>2 DEF Prepared
<1>8. Trades'
  BY <1>2, <1>3 DEF IndInv, Trades
<1> QED BY <1>4, <1>5, <1>6, <1>7, <1>8 DEF IndInv, DecisionsFit

-----------------------------------------------------------------------------
LEMMA StepInv == IndInv /\ [Next]_vars => IndInv'
<1> SUFFICES ASSUME IndInv, [Next]_vars PROVE IndInv'
  OBVIOUS
<1>1. CASE UNCHANGED vars
  <2>1. RuntimeTypeOK'
    BY <1>1 DEF vars, sources, IndInv, DecisionsFit, RuntimeTypeOK
  <2> QED BY <1>1, <2>1, Unmoved, Ranges DEF vars, sources
<1>2. CASE Tick \/ (\E m \in Markets : Observe(m)) \/ Crash \/ Restart \/ BeginCycle
  BY <1>2, Environment
<1>3. CASE Publishes \/ WritesNothing
  BY <1>3, WriterInv
<1>4. CASE Coordinates
  BY <1>4, PublishInv, CommitInv, RetryInv, DecideInv, ReplayInv, AdvanceInv,
     NoWorkInv DEF Coordinates
<1> QED BY <1>1, <1>2, <1>3, <1>4 DEF Next, Service

LEMMA Invariance == Spec => []IndInv
<1> QED BY InitInv, StepInv, PTL DEF Spec

(***************************************************************************)
(* Theorems.                                                               *)
(***************************************************************************)

\* However often and wherever the process dies: a row of the database executes
\* a decision that was taken on the books the row before leaves, and at most
\* one decision is ahead of the books.
THEOREM DecisionsAlwaysFit == Spec => []DecisionsFit
<1>1. IndInv => DecisionsFit
  BY DEF IndInv
<1> QED BY <1>1, Invariance, PTL

\* The runtime implements the sequential trader: each row is a record consumed
\* in the order of the feed, or the waiting purchase tried again, and none buys
\* twice or where a position is open.
THEOREM ImplementsFastTrader == Spec => ImplementsTrader
<1>1. Init => Trader!TInit
  <2> SUFFICES ASSUME Init PROVE Trader!TInit
    OBVIOUS
  <2>1. Len(rows) = 1 /\ Latest = [decision |-> 0, open |-> {}, pending |-> 0, asOf |-> 0, did |-> "INIT"]
    BY DEF Init, Latest, Checkpoint
  <2> QED BY <2>1 DEF Trader!TInit
<1>2. IndInv /\ [Next]_vars => [Trader!TNext]_(Trader!tvars)
  <2> SUFFICES ASSUME IndInv, [Next]_vars
               PROVE  Trader!TNext \/ UNCHANGED Trader!tvars
    OBVIOUS
  <2>1. CASE UNCHANGED rows
    BY <2>1 DEF Trader!tvars, Latest, Checkpoint
  <2>2. CASE Commit
    <3>1. PICK effect \in EffectsOf(decided) :
              /\ rows' = Append(rows, FreshRow(decided, effect))
              /\ FreshRow(decided, effect) \in Row
              /\ decided = Latest.decision + 1 /\ decided \in Recorded /\ decided \in 1..Len(feed)
              /\ execution[decided] = Checkpoint /\ FitsBooks(decided)
              /\ effect \in {"FILLED", "DEFERRED"} => feed[decided].market \notin Latest.open
              /\ effect = "SOLD" => feed[decided].market \in Latest.open
      BY <2>2, CommitFacts
    <3> DEFINE m == feed[decided].market
    <3>2. /\ Latest'.decision = decided
          /\ Latest'.pending = (IF effect = "DEFERRED" THEN decided ELSE 0)
          /\ Latest'.open = Traded(m, effect)
          /\ Bought' = Bought \cup (IF effect = "FILLED" THEN {decided} ELSE {})
      BY <3>1, Appended DEF FreshRow, BoughtFor, FitsBooks
    <3>3. Latest.pending = 0 /\ m \in Markets /\ decided \in Records /\ decided \notin Bought
      BY SMTT(30), <3>1, Ranges, BoughtRange, RecordedFacts DEF FitsBooks
    <3>4. PICK r \in Records : r = decided
      BY <3>3
    <3>5. Trader!Consume(r)
      BY <3>1, <3>2, <3>3, <3>4 DEF Trader!Consume, Trader!Purchase, Traded, Bought
    <3> QED BY <3>5 DEF Trader!TNext
  <2>3. CASE RetryPending
    <3>1. PICK effect \in {"DEFERRED", "FILLED", "ABORTED"}, t \in 0..MaxTime :
              /\ rows' = Append(rows, RetryRow(Latest.pending, effect, t))
              /\ RetryRow(Latest.pending, effect, t) \in Row
              /\ decided = Latest.decision /\ Latest.pending = Latest.decision
              /\ Latest.pending \in 1..Len(feed)
      BY <2>3, RetryFacts
    <3> DEFINE m == feed[Latest.pending].market
    <3>2. /\ Latest'.decision = Latest.decision
          /\ Latest'.pending = (IF effect = "DEFERRED" THEN Latest.pending ELSE 0)
          /\ Latest'.open = Traded(m, effect)
          /\ Bought' = Bought \cup (IF effect = "FILLED" THEN {Latest.pending} ELSE {})
      BY <3>1, Appended DEF RetryRow, BoughtFor
    <3>3. Latest.pending # 0 /\ m \in Markets /\ m \notin Latest.open /\ Latest.pending \notin Bought
      BY SMTT(30), <3>1, Ranges DEF IndInv, Trades
    <3>4. Trader!Retry
      BY <3>1, <3>2, <3>3 DEF Trader!Retry, Trader!Purchase, Traded, Bought
    <3> QED BY <3>4 DEF Trader!TNext
  <2>4. ASSUME Publishes \/ WritesNothing PROVE UNCHANGED rows
    BY <2>4 DEF Publishes, WriteReduction, WriteQuoteUsd, WriteBuyAuthority,
       WriteRetry, WritesNothing
  <2>5. ASSUME PublishExecution \/ ConsumeExecution \/ Decide \/ ReplayDecision
                 \/ AdvanceCursor \/ Idles \/ Fails
        PROVE  UNCHANGED rows
    BY <2>5 DEF PublishExecution, ConsumeExecution, Decide, ReplayDecision,
       AdvanceCursor, Idles, Fails, Waits, Refuses
  <2>6. ASSUME Tick \/ (\E m \in Markets : Observe(m)) \/ Crash \/ Restart \/ BeginCycle
        PROVE  UNCHANGED rows
    BY <2>6 DEF Tick, Observe, Crash, Restart, BeginCycle
  <2>7. UNCHANGED vars => UNCHANGED rows
    BY DEF vars
  <2> QED BY <2>1, <2>2, <2>3, <2>4, <2>5, <2>6, <2>7 DEF Next, Service, Coordinates
<1> QED BY <1>1, <1>2, Invariance, PTL DEF Spec, ImplementsTrader, Trader!TSpec
=============================================================================
