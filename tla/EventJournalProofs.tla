------------------------- MODULE EventJournalProofs -------------------------
(***************************************************************************)
(* Theorems about EventJournal, for any trades, page sizes and bounds: the *)
(* canonical journal is ordered and holds no trade twice, and it holds no  *)
(* trade that was disputed when a burst began.                             *)
(*                                                                         *)
(* What a query selects is said by ranks, the number of rows before a row. *)
(* Ranks in a finite set are the numbers below its size, one for each row  *)
(* (Ranked), from which follow what a page holds, how long it is and that  *)
(* its rows are distinct.                                                  *)
(*                                                                         *)
(* The inductive invariant adds to the properties what a selected row has  *)
(* to keep between the transaction that selects it and the one that writes *)
(* it (SelectedOK), and how the times of the journal lie to the clock and  *)
(* to the snapshot of the burst (TimesOK).                                 *)
(***************************************************************************)
EXTENDS EventJournal, FiniteSetTheorems, WellFoundedInduction, TLAPS

StoredTrades == {t \in Trades : Stored(evidence, t)}

\* The writer stamps what it stores, one trade in each step.
StoreOK ==
    /\ IsFiniteSet(StoredTrades)
    /\ \A t \in StoredTrades : evidence[t].at >= 1

\* An event is of a stored trade and not later than the clock and the snapshot
\* of the burst that may be writing.
TimesOK ==
    /\ burst.phase # "idle" => burst.accepted <= clock
    /\ \A n \in 1..Len(journal) :
          /\ Stored(evidence, journal[n].trade)
          /\ journal[n].at <= clock
          /\ burst.phase # "idle" => journal[n].at <= burst.accepted

\* What was barred is still disputed and was not made canonical.
BarredOK ==
    \A t \in barred : Quarantined(conflicts, t) /\ ~Canonical(t)

\* A selected row may become canonical, once.
SelectedOK ==
    /\ burst.phase = "debt" => burst.normalized = 0
    /\ \A i \in 1..Len(burst.selected) :
          /\ burst.selected[i] \in StoredTrades
          /\ ~Canonical(burst.selected[i])
          /\ burst.selected[i] \notin barred
          /\ \A j \in 1..Len(burst.selected) :
                burst.selected[i] = burst.selected[j] => i = j

JournalInv ==
    JournalTypeOK /\ JournalOrdered /\ StoreOK /\ TimesOK /\ BarredOK /\ SelectedOK

-----------------------------------------------------------------------------
(* Ranks.                                                                  *)

\* R orders the members of S, as a set of pairs.
Orders(R, S) ==
    /\ \A x \in S : <<x, x>> \notin R
    /\ \A x, y, z \in S : <<x, y>> \in R /\ <<y, z>> \in R => <<x, z>> \in R
    /\ \A x, y \in S : x # y => <<x, y>> \in R \/ <<y, x>> \in R

Before(R, S, x) == {y \in S : <<y, x>> \in R}
Rank(R, S, x) == Cardinality(Before(R, S, x))

\* In a finite set each rank below the size belongs to one member.
LEMMA Ranked ==
    ASSUME NEW S, IsFiniteSet(S), NEW R, Orders(R, S)
    PROVE  /\ Cardinality(S) \in Nat
           /\ \A x \in S : Rank(R, S, x) \in 0..(Cardinality(S) - 1)
           /\ \A x, y \in S : Rank(R, S, x) = Rank(R, S, y) => x = y
           /\ \A k \in 0..(Cardinality(S) - 1) : \E x \in S : Rank(R, S, x) = k
<1>1. Cardinality(S) \in Nat
  BY FS_CardinalityType
<1>2. ASSUME NEW x \in S
      PROVE  /\ IsFiniteSet(Before(R, S, x))
             /\ Rank(R, S, x) \in 0..(Cardinality(S) - 1)
  <2>1. Before(R, S, x) \in SUBSET (S \ {x})
    BY DEF Before, Orders
  <2>2. IsFiniteSet(S \ {x}) /\ Cardinality(S \ {x}) = Cardinality(S) - 1
    BY FS_RemoveElement
  <2>3. /\ IsFiniteSet(Before(R, S, x))
        /\ Cardinality(Before(R, S, x)) <= Cardinality(S \ {x})
    BY <2>1, <2>2, FS_Subset
  <2>4. Cardinality(Before(R, S, x)) \in Nat
    BY <2>3, FS_CardinalityType
  <2> QED BY <1>1, <2>2, <2>3, <2>4 DEF Rank
<1>3. ASSUME NEW x \in S, NEW y \in S, <<x, y>> \in R
      PROVE  Rank(R, S, x) < Rank(R, S, y)
  <2>1. Before(R, S, x) \in SUBSET (Before(R, S, y) \ {x})
    BY <1>3 DEF Before, Orders
  <2>2. x \in Before(R, S, y)
    BY <1>3 DEF Before
  <2>3. /\ IsFiniteSet(Before(R, S, y) \ {x})
        /\ Cardinality(Before(R, S, y) \ {x}) = Cardinality(Before(R, S, y)) - 1
    BY <1>2, <2>2, FS_RemoveElement
  <2>4. Cardinality(Before(R, S, x)) <= Cardinality(Before(R, S, y) \ {x})
    BY <2>1, <2>3, FS_Subset
  <2> QED BY <1>2, <2>3, <2>4 DEF Rank
<1>4. ASSUME NEW x \in S, NEW y \in S, Rank(R, S, x) = Rank(R, S, y)
      PROVE  x = y
  <2>1. CASE <<x, y>> \in R
    BY <1>2, <1>3, <1>4, <2>1
  <2>2. CASE <<y, x>> \in R
    BY <1>2, <1>3, <1>4, <2>2
  <2> QED BY <2>1, <2>2 DEF Orders
<1>5. ASSUME NEW k \in 0..(Cardinality(S) - 1) PROVE \E x \in S : Rank(R, S, x) = k
  <2> DEFINE T == 0..(Cardinality(S) - 1)
             f == [x \in S |-> Rank(R, S, x)]
  <2>1. IsFiniteSet(T) /\ Cardinality(T) = Cardinality(S)
    BY <1>1, <1>5, FS_Interval
  <2>2. f \in Injection(S, T)
    BY <1>2, <1>4 DEF Injection, IsInjective
  <2>3. f \in Surjection(S, T)
    <3> HIDE DEF f, T
    <3> QED BY <2>1, <2>2, FS_Injection
  <2> QED BY <2>3 DEF Surjection
<1> QED BY <1>1, <1>2, <1>4, <1>5

\* What comes first in a finite set of rows.
LEMMA FirstRanks ==
    ASSUME NEW S, IsFiniteSet(S), NEW R, Orders(R, S), NEW n \in Nat
    PROVE  LET F == {x \in S : Rank(R, S, x) < n}
           IN  IsFiniteSet(F) /\ Cardinality(F) \in Nat /\ Cardinality(F) <= n
<1> DEFINE F == {x \in S : Rank(R, S, x) < n}
           T == 0..(n - 1)
           f == [x \in F |-> Rank(R, S, x)]
<1>1. IsFiniteSet(T) /\ Cardinality(T) = n
  BY FS_Interval
<1>2. f \in Injection(F, T)
  BY Ranked DEF Injection, IsInjective
<1>3. IsFiniteSet(F) /\ Cardinality(F) <= Cardinality(T)
  <2> HIDE DEF f, F, T
  <2> QED BY <1>1, <1>2, FS_Injection
<1>4. Cardinality(F) \in Nat
  <2> HIDE DEF F
  <2> QED BY <1>3, FS_CardinalityType
<1> QED BY <1>1, <1>3, <1>4

\* A finite set of rows that is not empty has one with none after it.
LEMMA LastRank ==
    ASSUME NEW S, IsFiniteSet(S), NEW R, Orders(R, S), S # {}
    PROVE  \E x \in S : \A y \in S : <<x, y>> \notin R
<1>1. Cardinality(S) \in Nat /\ Cardinality(S) # 0
  BY FS_EmptySet, FS_CardinalityType
<1>2. PICK x \in S : Rank(R, S, x) = Cardinality(S) - 1
  BY <1>1, Ranked
<1>3. Before(R, S, x) \in SUBSET (S \ {x})
  BY DEF Before, Orders
<1>4. IsFiniteSet(S \ {x}) /\ Cardinality(S \ {x}) = Cardinality(S) - 1
  BY FS_RemoveElement
<1>5. Before(R, S, x) = S \ {x}
  BY <1>2, <1>3, <1>4, FS_Subset DEF Rank
<1>6. ASSUME NEW y \in S PROVE <<x, y>> \notin R
  BY <1>5 DEF Before, Orders
<1> QED BY <1>6

-----------------------------------------------------------------------------
(* The order of the pages, and what is selected by it.                     *)

EvidenceOK == evidence \in [Trades -> [economics : {0} \union Economics, at : 0..MaxTime]]

OlderIn(S) == {p \in S \X S : Older(p[1], p[2])}
NewerIn(S) == {p \in S \X S : Older(p[2], p[1])}

\* A trade is a transaction and an ordinal.
LEMMA TradeShape ==
    ASSUME NEW t \in Trades
    PROVE  t = <<t[1], t[2]>> /\ t[1] \in Nat /\ t[2] \in Nat
<1>1. PICK s \in Signatures : \E k \in 1..TradesOf[s] : t = <<s, k>>
  BY DEF Trades
<1>2. PICK k \in 1..TradesOf[s] : t = <<s, k>>
  BY <1>1
<1>3. s \in Nat /\ TradesOf[s] \in Nat
  BY <1>1, JournalAssumption, StoreAssumption DEF JournalAssumption, StoreAssumption
<1> QED BY <1>2, <1>3

\* A trade's place in the pages.
LEMMA KeyShape ==
    ASSUME EvidenceOK, NEW t \in Trades
    PROVE  /\ Key(t) \in (0..MaxTime) \X Nat \X Nat
           /\ Key(t)[1] = evidence[t].at /\ Key(t)[2] = t[1] /\ Key(t)[3] = t[2]
           /\ evidence[t].at \in Nat
BY TradeShape, JournalAssumption DEF EvidenceOK, Key, JournalAssumption

\* The pages have a strict order, since no two trades have the same place.
LEMMA TradesOrdered ==
    ASSUME EvidenceOK, NEW S \in SUBSET Trades
    PROVE  Orders(OlderIn(S), S) /\ Orders(NewerIn(S), S)
<1>1. \A t \in S : ~Older(t, t)
  BY KeyShape, TradeShape DEF Older, Precedes
<1>2. \A t, u, v \in S : Older(t, u) /\ Older(u, v) => Older(t, v)
  <2> TAKE t, u, v \in S
  <2> USE KeyShape, TradeShape
  <2>1. t \in Trades /\ u \in Trades /\ v \in Trades
    OBVIOUS
  <2> QED BY <2>1 DEF Older, Precedes
<1>3. \A t, u \in S : t # u => Older(t, u) \/ Older(u, t)
  <2> TAKE t, u \in S
  <2>1. t # u => t[1] # u[1] \/ t[2] # u[2]
    BY TradeShape
  <2> QED BY <2>1, KeyShape, TradeShape DEF Older, Precedes
<1> QED BY <1>1, <1>2, <1>3 DEF Orders, OlderIn, NewerIn

LEMMA RanksOfTrades ==
    ASSUME NEW S, NEW t \in S
    PROVE  /\ Cardinality({u \in S : Older(u, t)}) = Rank(OlderIn(S), S, t)
           /\ Cardinality({u \in S : Older(t, u)}) = Rank(NewerIn(S), S, t)
<1>1. {u \in S : Older(u, t)} = Before(OlderIn(S), S, t)
  BY DEF Before, OlderIn
<1>2. {u \in S : Older(t, u)} = Before(NewerIn(S), S, t)
  BY DEF Before, NewerIn
<1> QED BY <1>1, <1>2 DEF Rank

\* A page holds no more rows than it may.
LEMMA PageBounded ==
    ASSUME EvidenceOK, NEW S \in SUBSET Trades, IsFiniteSet(S), NEW n \in Nat
    PROVE  /\ Oldest(S, n) \subseteq S /\ Newest(S, n) \subseteq S
           /\ IsFiniteSet(Oldest(S, n)) /\ IsFiniteSet(Newest(S, n))
           /\ Cardinality(Oldest(S, n)) \in Nat /\ Cardinality(Oldest(S, n)) <= n
<1>1. Oldest(S, n) = {t \in S : Rank(OlderIn(S), S, t) < n}
  BY RanksOfTrades DEF Oldest
<1>2. Newest(S, n) = {t \in S : Rank(NewerIn(S), S, t) < n}
  BY RanksOfTrades DEF Newest
<1>3. Orders(OlderIn(S), S) /\ Orders(NewerIn(S), S)
  BY TradesOrdered
<1>4. /\ IsFiniteSet(Oldest(S, n))
      /\ Cardinality(Oldest(S, n)) \in Nat /\ Cardinality(Oldest(S, n)) <= n
  BY <1>1, <1>3, FirstRanks
<1>5. IsFiniteSet(Newest(S, n))
  BY <1>2, <1>3, FirstRanks
<1> QED BY <1>4, <1>5 DEF Oldest, Newest

\* A list of rows: each of them is there, once.
Lists(s, S) ==
    /\ s \in Seq(S) /\ Len(s) = Cardinality(S)
    /\ \A i, j \in 1..Len(s) : s[i] = s[j] => i = j

LEMMA OldestFirstLists ==
    ASSUME EvidenceOK, NEW S \in SUBSET Trades, IsFiniteSet(S)
    PROVE  Lists(OldestFirst(S), S)
<1>1. Cardinality(S) \in Nat
  BY FS_CardinalityType
<1>2. Orders(OlderIn(S), S)
  BY TradesOrdered
<1>3. OldestFirst(S) = [n \in 1..Cardinality(S) |->
                          CHOOSE t \in S : Cardinality({u \in S : Older(u, t)}) = n - 1]
  BY DEF OldestFirst
<1>4. ASSUME NEW n \in 1..Cardinality(S)
      PROVE  OldestFirst(S)[n] \in S /\ Rank(OlderIn(S), S, OldestFirst(S)[n]) = n - 1
  <2>1. n - 1 \in 0..(Cardinality(S) - 1)
    BY <1>1
  <2>2. PICK t \in S : Rank(OlderIn(S), S, t) = n - 1
    BY <1>2, <2>1, Ranked
  <2>3. Cardinality({u \in S : Older(u, t)}) = n - 1
    BY <2>2, RanksOfTrades
  <2>4. /\ OldestFirst(S)[n] \in S
        /\ Cardinality({u \in S : Older(u, OldestFirst(S)[n])}) = n - 1
    BY <1>3, <2>3
  <2> QED BY <2>4, RanksOfTrades
<1>5. OldestFirst(S) \in Seq(S) /\ Len(OldestFirst(S)) = Cardinality(S)
  <2> DEFINE pick(n) == CHOOSE t \in S : Cardinality({u \in S : Older(u, t)}) = n - 1
  <2>1. \A n \in 1..Cardinality(S) : pick(n) \in S
    BY <1>3, <1>4
  <2>2. OldestFirst(S) = [n \in 1..Cardinality(S) |-> pick(n)]
    BY <1>3
  <2> HIDE DEF pick
  <2> QED BY <1>1, <2>1, <2>2
<1>6. \A i, j \in 1..Cardinality(S) : OldestFirst(S)[i] = OldestFirst(S)[j] => i = j
  BY <1>1, <1>4
<1> QED BY <1>5, <1>6 DEF Lists

LEMMA NewestFirstLists ==
    ASSUME EvidenceOK, NEW S \in SUBSET Trades, IsFiniteSet(S)
    PROVE  Lists(NewestFirst(S), S)
<1> DEFINE s == OldestFirst(S)
<1>1. /\ s \in Seq(S) /\ Len(s) = Cardinality(S) /\ Len(s) \in Nat
      /\ \A i, j \in 1..Len(s) : s[i] = s[j] => i = j
  BY OldestFirstLists, FS_CardinalityType DEF Lists
<1>2. NewestFirst(S) = [i \in 1..Len(s) |-> s[Len(s) - i + 1]]
  BY DEF NewestFirst, Reverse
<1> HIDE DEF s
<1>3. NewestFirst(S) \in Seq(S) /\ Len(NewestFirst(S)) = Len(s)
  BY <1>1, <1>2
<1>4. \A i, j \in 1..Len(s) : NewestFirst(S)[i] = NewestFirst(S)[j] => i = j
  BY <1>1, <1>2
<1> QED BY <1>1, <1>3, <1>4 DEF Lists

-----------------------------------------------------------------------------
(* The rows of a chunk.                                                    *)

\* f[n] is what is taken of the first n rows, in their order.
Takes(f, rows) ==
    f = [n \in 0..Len(rows) |->
            IF n = 0 THEN <<>>
            ELSE IF Accepts(rows[n]) /\ Len(f[n - 1]) < BurstLimit - burst.normalized
                 THEN Append(f[n - 1], rows[n])
                 ELSE f[n - 1]]

\* A set of numbers that holds zero and every successor of a member holds all.
LEMMA Induction ==
    ASSUME NEW S, 0 \in S, \A n \in Nat : n \in S => n + 1 \in S
    PROVE  Nat \subseteq S
<1> DEFINE R == OpToRel(<, Nat)
           T == Nat \ S
<1>1. \A x, y \in Nat : <<x, y>> \in R <=> x < y
  BY DEF OpToRel
<1>2. SUFFICES ASSUME T # {} PROVE FALSE
  OBVIOUS
<1>3. IsWellFoundedOn(R, Nat)
  BY NatLessThanWellFounded
<1>4. T \subseteq Nat
  OBVIOUS
<1> HIDE DEF R
<1>5. PICK x \in T : \A y \in T : ~ (<<y, x>> \in R)
  <2> HIDE DEF T
  <2> QED BY <1>2, <1>3, <1>4, WFMin
<1>6. x # 0 /\ x - 1 \in Nat /\ x - 1 < x /\ (x - 1) + 1 = x
  OBVIOUS
<1>7. x - 1 \in T
  BY <1>6
<1> QED BY <1>1, <1>5, <1>6, <1>7

LEMMA TakesExist ==
    ASSUME NEW rows, Len(rows) \in Nat
    PROVE  \E f : Takes(f, rows)
<1> DEFINE Step(prefix, n) ==
             IF Accepts(rows[n]) /\ Len(prefix) < BurstLimit - burst.normalized
             THEN Append(prefix, rows[n])
             ELSE prefix
           UpTo(f, N) == f = [n \in 0..N |-> IF n = 0 THEN <<>> ELSE Step(f[n - 1], n)]
           S == {N \in Nat : \E f : UpTo(f, N)}
<1>1. 0 \in S
  <2> DEFINE f == [n \in 0..0 |-> <<>>]
  <2>1. UpTo(f, 0)
    OBVIOUS
  <2> QED BY <2>1
<1>2. ASSUME NEW N \in Nat, N \in S PROVE N + 1 \in S
  <2>1. PICK f : UpTo(f, N)
    BY <1>2
  <2> DEFINE g == [n \in 0..(N + 1) |-> IF n = N + 1 THEN Step(f[N], N + 1) ELSE f[n]]
  <2> HIDE DEF Step
  <2>2. ASSUME NEW n \in 0..(N + 1)
        PROVE  g[n] = IF n = 0 THEN <<>> ELSE Step(g[n - 1], n)
    <3>1. CASE n = N + 1
      <4>1. g[n] = Step(f[N], N + 1) /\ n # 0 /\ n - 1 = N /\ N \in 0..(N + 1) /\ N # N + 1
        BY <3>1
      <4>2. g[n - 1] = f[N]
        BY <4>1
      <4> QED BY <3>1, <4>1, <4>2
    <3>2. CASE n \in 0..N
      <4>1. g[n] = f[n] /\ n # N + 1
        BY <3>2
      <4>2. f[n] = IF n = 0 THEN <<>> ELSE Step(f[n - 1], n)
        BY <2>1, <3>2
      <4>3. n # 0 => g[n - 1] = f[n - 1]
        BY <3>2
      <4> QED BY <4>1, <4>2, <4>3
    <3> QED BY <3>1, <3>2
  <2>3. UpTo(g, N + 1)
    <3>1. g = [n \in 0..(N + 1) |-> g[n]]
      OBVIOUS
    <3> HIDE DEF g
    <3> QED BY <2>2, <3>1
  <2> HIDE DEF UpTo, g
  <2> QED BY <2>3
<1> HIDE DEF S
<1>3. Len(rows) \in S
  BY <1>1, <1>2, Induction
<1> QED BY <1>3 DEF S, Takes

\* What is taken of the first n rows.
TakenOf(s, rows, n) ==
    /\ s \in Seq(Trades) /\ Len(s) <= n /\ Len(s) <= BurstLimit - burst.normalized
    /\ \A i \in 1..Len(s) : Accepts(s[i]) /\ \E m \in 1..n : s[i] = rows[m]
    /\ \A i, j \in 1..Len(s) : s[i] = s[j] => i = j

\* A chunk takes accepted rows of its part of the selection, each once, and
\* no more than the burst has left.
LEMMA ChunkTakes ==
    ASSUME burst.selected \in Seq(Trades), burst.normalized \in 0..BurstLimit,
           \A i, j \in 1..Len(burst.selected) :
               burst.selected[i] = burst.selected[j] => i = j
    PROVE  /\ TakenOf(Chunk, burst.selected, Len(burst.selected))
           /\ \A i \in 1..Len(Chunk) :
                 \E m \in 1..Len(burst.selected) :
                     m <= ChunkRows /\ Chunk[i] = burst.selected[m]
           /\ Len(Chunk) <= ChunkRows
<1> DEFINE rows == FirstOf(burst.selected, ChunkRows)
<1>1. /\ ChunkRows \in Nat \ {0} /\ BurstLimit \in Nat
      /\ BurstLimit - burst.normalized \in Nat
  BY JournalAssumption DEF JournalAssumption
<1>2. /\ rows \in Seq(Trades) /\ Len(rows) \in Nat
      /\ Len(rows) <= ChunkRows /\ Len(rows) <= Len(burst.selected)
      /\ \A m \in 1..Len(rows) : rows[m] = burst.selected[m]
  BY <1>1 DEF FirstOf
<1> DEFINE f == CHOOSE g : Takes(g, rows)
<1>3. Takes(f, rows)
  BY <1>2, TakesExist
<1>4. Chunk = f[Len(rows)]
  BY DEF Chunk, Takes
<1> HIDE DEF rows, f
<1>5. f[0] = <<>>
  BY <1>2, <1>3 DEF Takes
<1>6. ASSUME NEW n \in 1..Len(rows)
      PROVE  f[n] = IF Accepts(rows[n]) /\ Len(f[n - 1]) < BurstLimit - burst.normalized
                    THEN Append(f[n - 1], rows[n])
                    ELSE f[n - 1]
  <2>1. \A m \in 0..Len(rows) :
           f[m] = IF m = 0 THEN <<>>
                  ELSE IF Accepts(rows[m]) /\ Len(f[m - 1]) < BurstLimit - burst.normalized
                       THEN Append(f[m - 1], rows[m])
                       ELSE f[m - 1]
    BY <1>3, Zenon DEF Takes
  <2>2. n \in 0..Len(rows) /\ n # 0
    BY <1>2
  <2> QED BY <2>1, <2>2, Zenon
<1> DEFINE S == {n \in Nat : n <= Len(rows) => TakenOf(f[n], rows, n)}
<1>7. 0 \in S
  <2>1. TakenOf(<<>>, rows, 0)
    BY <1>1 DEF TakenOf
  <2> QED BY <1>5, <2>1
<1>8. ASSUME NEW n \in Nat, n \in S PROVE n + 1 \in S
  <2> SUFFICES ASSUME n + 1 <= Len(rows) PROVE TakenOf(f[n + 1], rows, n + 1)
    OBVIOUS
  <2>1. n + 1 \in 1..Len(rows) /\ (n + 1) - 1 = n
    BY <1>2
  <2>2. TakenOf(f[n], rows, n)
    BY <1>2, <1>8
  <2>3. CASE f[n + 1] = f[n]
    BY <2>2, <2>3 DEF TakenOf
  <2>4. CASE /\ Accepts(rows[n + 1]) /\ Len(f[n]) < BurstLimit - burst.normalized
             /\ f[n + 1] = Append(f[n], rows[n + 1])
    <3> DEFINE s == f[n]
               u == f[n + 1]
    <3>1. s \in Seq(Trades) /\ Len(s) \in Nat /\ rows[n + 1] \in Trades
      BY <1>2, <2>1, <2>2 DEF TakenOf
    <3>2. /\ u \in Seq(Trades) /\ Len(u) = Len(s) + 1 /\ u[Len(s) + 1] = rows[n + 1]
          /\ \A i \in 1..Len(s) : u[i] = s[i]
      BY <2>4, <3>1
    <3>3. Len(u) <= n + 1 /\ Len(u) <= BurstLimit - burst.normalized
      BY <1>1, <2>2, <2>4, <3>1, <3>2 DEF TakenOf
    <3>4. \A i \in 1..Len(u) : Accepts(u[i]) /\ \E m \in 1..(n + 1) : u[i] = rows[m]
      <4> TAKE i \in 1..Len(u)
      <4>1. CASE i = Len(s) + 1
        BY <2>4, <3>2, <4>1
      <4>2. CASE i \in 1..Len(s)
        BY <2>2, <3>2, <4>2 DEF TakenOf
      <4> QED BY <3>1, <3>2, <4>1, <4>2
    <3>5. \A i \in 1..Len(s) : s[i] # rows[n + 1]
      <4> SUFFICES ASSUME NEW i \in 1..Len(s), s[i] = rows[n + 1] PROVE FALSE
        OBVIOUS
      <4>1. PICK m \in 1..n : s[i] = rows[m]
        BY <2>2 DEF TakenOf
      <4>2. m \in 1..Len(rows) /\ n + 1 \in 1..Len(rows) /\ m # n + 1
        BY <1>2, <2>1
      <4>3. rows[m] = rows[n + 1]
        BY <4>1
      <4>4. burst.selected[m] = burst.selected[n + 1]
        BY <1>2, <4>2, <4>3
      <4>5. m \in 1..Len(burst.selected) /\ n + 1 \in 1..Len(burst.selected)
        BY <1>2, <4>2
      <4> QED BY <4>2, <4>4, <4>5
    <3>6. \A i, j \in 1..Len(u) : u[i] = u[j] => i = j
      <4> TAKE i, j \in 1..Len(u)
      <4>1. i \in 1..Len(s) \/ i = Len(s) + 1
        BY <3>1, <3>2
      <4>2. j \in 1..Len(s) \/ j = Len(s) + 1
        BY <3>1, <3>2
      <4>3. \A k, l \in 1..Len(s) : s[k] = s[l] => k = l
        BY <2>2 DEF TakenOf
      <4> HIDE DEF s, u
      <4> QED BY <3>2, <3>5, <4>1, <4>2, <4>3
    <3> QED BY <3>2, <3>3, <3>4, <3>6 DEF TakenOf
  <2> QED BY <1>6, <2>1, <2>3, <2>4
<1> HIDE DEF S
<1>9. Len(rows) \in S
  BY <1>2, <1>7, <1>8, Induction
<1>10. TakenOf(Chunk, rows, Len(rows))
  BY <1>2, <1>4, <1>9 DEF S
<1>11. \A i \in 1..Len(Chunk) :
          \E m \in 1..Len(burst.selected) :
              m <= ChunkRows /\ Chunk[i] = burst.selected[m]
  BY <1>1, <1>2, <1>10 DEF TakenOf
<1> QED
  BY <1>1, <1>2, <1>10, <1>11 DEF TakenOf

-----------------------------------------------------------------------------
(* The pages.                                                              *)

LEMMA LimitsAreNumbers ==
    /\ DebtLimit \in Nat /\ BurstLimit \in Nat /\ RawScan \in Nat
    /\ ChunkRows \in Nat \ {0} /\ MaxFaults \in Nat /\ MaxTime \in Nat
BY JournalAssumption DEF JournalAssumption, DebtLimit

LEMMA StoredSubset ==
    ASSUME StoreOK, NEW S \in SUBSET StoredTrades
    PROVE  IsFiniteSet(S) /\ S \in SUBSET Trades
BY FS_Subset DEF StoreOK, StoredTrades

LEMMA VenueRowsStored ==
    ASSUME NEW v
    PROVE  VenueRows(v) \in SUBSET StoredTrades
BY DEF VenueRows, StoredTrades

\* A page holds stored rows of its venue.
LEMMA PageStored ==
    ASSUME EvidenceOK, StoreOK, NEW v
    PROVE  DebtPage(v) \in SUBSET StoredTrades
<1>1. ASSUME NEW key PROVE PageAfter(v, key) \in SUBSET StoredTrades
  <2> DEFINE S == {t \in VenueRows(v) : Precedes(key, Key(t))}
  <2>1. S \in SUBSET StoredTrades
    BY VenueRowsStored
  <2>2. IsFiniteSet(S) /\ S \in SUBSET Trades
    BY <2>1, StoredSubset
  <2> HIDE DEF S
  <2>3. Oldest(S, DebtLimit) \subseteq S
    BY <2>2, LimitsAreNumbers, PageBounded
  <2> QED BY <2>1, <2>3 DEF PageAfter, S
<1> QED BY <1>1 DEF DebtPage

\* A cursor is the place of a row, or the beginning.
LEMMA CursorShape ==
    ASSUME EvidenceOK, StoreOK, NEW v,
           cursor[v] \in (0..MaxTime) \X Nat \X Nat
    PROVE  CursorAfter(v) \in (0..MaxTime) \X Nat \X Nat
<1> DEFINE page == DebtPage(v)
<1>1. page \in SUBSET Trades /\ IsFiniteSet(page)
  BY PageStored, StoredSubset
<1>2. NoCursor \in (0..MaxTime) \X Nat \X Nat
  BY LimitsAreNumbers DEF NoCursor
<1>3. CASE page # {}
  <2> HIDE DEF page
  <2>1. Orders(OlderIn(page), page)
    BY <1>1, TradesOrdered
  <2>2. \E t \in page : \A u \in page : <<t, u>> \notin OlderIn(page)
    BY <1>1, <1>3, <2>1, LastRank
  <2>3. \E t \in page : \A u \in page : ~Older(t, u)
    BY <2>2 DEF OlderIn
  <2>4. PICK t \in page : t = CHOOSE x \in page : \A u \in page : ~Older(x, u)
    BY <2>3
  <2>5. Key(t) \in (0..MaxTime) \X Nat \X Nat
    BY <1>1, KeyShape
  <2> QED BY <1>3, <2>4, <2>5 DEF CursorAfter, page
<1>4. CASE page = {}
  BY <1>2, <1>4 DEF CursorAfter
<1> QED BY <1>3, <1>4

EligibleRows == {t \in StoredTrades : Eligible(t)}

\* The debt lane selects eligible rows, at most its quarter of the burst.
LEMMA DebtRowsEligible ==
    ASSUME EvidenceOK, StoreOK
    PROVE  /\ DebtRows \in SUBSET EligibleRows /\ IsFiniteSet(DebtRows)
           /\ Cardinality(DebtRows) \in Nat /\ Cardinality(DebtRows) <= DebtLimit
<1> DEFINE S == UNION {PageReturns(DebtPage(v)) : v \in Venues}
<1>1. S \in SUBSET EligibleRows
  BY PageStored DEF PageReturns, EligibleRows
<1>2. IsFiniteSet(S) /\ S \in SUBSET Trades
  BY <1>1, StoredSubset DEF EligibleRows
<1>3. DebtRows = Oldest(S, DebtLimit)
  BY DEF DebtRows
<1> HIDE DEF S
<1> QED BY <1>1, <1>2, <1>3, LimitsAreNumbers, PageBounded

LEMMA RecentRowsEligible ==
    ASSUME EvidenceOK, StoreOK, NEW v
    PROVE  RecentRows(v) \in SUBSET EligibleRows
<1> DEFINE S == {t \in VenueRows(v) : evidence[t].at <= burst.accepted}
<1>1. S \in SUBSET StoredTrades
  BY VenueRowsStored
<1>2. IsFiniteSet(S) /\ S \in SUBSET Trades
  BY <1>1, StoredSubset
<1>3. RecentRows(v) = {t \in Newest(S, RawScan) : Eligible(t) /\ t \in known \union contradicted}
  BY DEF RecentRows
<1> HIDE DEF S
<1>4. Newest(S, RawScan) \subseteq S
  BY <1>2, LimitsAreNumbers, PageBounded
<1> QED BY <1>1, <1>3, <1>4 DEF EligibleRows

-----------------------------------------------------------------------------
(* The steps.                                                              *)

BurstTypes == [phase : {"idle", "debt", "write_debt", "fresh", "write_fresh"},
               accepted : 0..MaxTime, selected : Seq(Trades),
               normalized : 0..BurstLimit, tries : 0..1]

WithinQuarter ==
    burst.phase = "write_debt" =>
        burst.normalized + Len(burst.selected) <= DebtLimit

LEMMA IdleShape ==
    /\ Idle \in BurstTypes
    /\ Idle.phase = "idle" /\ Idle.selected = <<>> /\ Idle.normalized = 0
BY LimitsAreNumbers DEF Idle, BurstTypes

LEMMA JournalInit == Init => JournalInv
<1> SUFFICES ASSUME Init PROVE JournalInv
  OBVIOUS
<1> USE DEF Init
<1>1. JournalTypeOK
  <2>1. burst \in BurstTypes
    BY IdleShape
  <2> QED BY <2>1, IdleShape, LimitsAreNumbers
     DEF JournalTypeOK, NotStored, NoCursor, BurstTypes
<1>2. StoredTrades = {}
  BY DEF StoredTrades, Stored, NotStored
<1>3. JournalOrdered /\ StoreOK /\ TimesOK /\ BarredOK /\ SelectedOK
  BY <1>2, IdleShape, FS_EmptySet
  DEF JournalOrdered, StoreOK, TimesOK, BarredOK, SelectedOK
<1> QED BY <1>1, <1>3 DEF JournalInv

LEMMA EventShape ==
    ASSUME JournalTypeOK, NEW n \in 1..Len(journal)
    PROVE  /\ journal[n] \in Event /\ journal[n].trade \in Trades
           /\ journal[n].source \in Nat /\ journal[n].at \in Nat
           /\ journal[n].at <= MaxTime
<1>1. journal \in Seq(Event)
  BY DEF JournalTypeOK
<1>2. journal[n] \in Event
  BY <1>1
<1> QED BY <1>2, LimitsAreNumbers DEF Event

\* What happens outside the normalizer, but for new evidence.
LEMMA OutsideKeeps ==
    ASSUME JournalInv, UNCHANGED <<evidence, journal, burst, barred>>,
           conflicts \subseteq conflicts', clock <= clock',
           clock' \in 0..MaxTime, faults' \in 0..MaxFaults,
           conflicts' \subseteq Trades \X Economics,
           known' \subseteq Trades, contradicted' \subseteq Trades,
           cursor' \in [Venues -> (0..MaxTime) \X Nat \X Nat]
    PROVE  JournalInv'
<1>1. JournalTypeOK' /\ JournalOrdered' /\ StoreOK' /\ SelectedOK'
  BY DEF JournalInv, JournalTypeOK, JournalOrdered, StoreOK, SelectedOK, StoredTrades,
         Canonical, Event
<1>2. BarredOK'
  BY DEF JournalInv, BarredOK, Canonical, Quarantined
<1>3. TimesOK'
  <2>1. \A n \in 1..Len(journal) : journal[n].at \in Nat
    BY EventShape DEF JournalInv
  <2>2. clock \in Nat /\ clock' \in Nat /\ burst.accepted \in Nat
    BY LimitsAreNumbers DEF JournalInv, JournalTypeOK
  <2> QED BY <2>1, <2>2 DEF JournalInv, TimesOK
<1> QED BY <1>1, <1>2, <1>3 DEF JournalInv

LEMMA IngestKeeps ==
    ASSUME JournalInv, NEW t \in Trades, NEW at \in 1..MaxTime, Ingest(t, at)
    PROVE  JournalInv'
<1> USE DEF Ingest, metadata
<1>1. evidence' = [evidence EXCEPT ![t] = [economics |-> 1, at |-> at]]
  BY DEF RecordTrade
<1>2. EvidenceOK
  BY DEF JournalInv, JournalTypeOK, EvidenceOK
<1>3. EvidenceOK'
  BY <1>1, <1>2, JournalAssumption DEF EvidenceOK, JournalAssumption
<1>4. \A u \in Trades : u # t => evidence'[u] = evidence[u]
  BY <1>1, <1>2 DEF EvidenceOK
<1>5. evidence'[t].at = at /\ evidence'[t].economics = 1
  BY <1>1, <1>2 DEF EvidenceOK
<1>6. \A n \in 1..Len(journal) : journal[n].trade \in Trades /\ journal[n].trade # t
  BY EventShape DEF JournalInv, TimesOK
<1>7. StoredTrades' = StoredTrades \union {t}
  BY <1>4, <1>5 DEF StoredTrades, Stored
<1>8. JournalTypeOK'
  BY <1>3 DEF JournalInv, JournalTypeOK, EvidenceOK
<1>9. JournalOrdered'
  BY <1>4, <1>6 DEF JournalInv, JournalOrdered
<1>10. StoreOK'
  <2>1. IsFiniteSet(StoredTrades)'
    BY <1>7, FS_AddElement DEF JournalInv, StoreOK
  <2>2. \A u \in StoredTrades' : evidence'[u].at >= 1
    BY <1>4, <1>5, <1>7 DEF JournalInv, StoreOK, StoredTrades
  <2> QED BY <2>1, <2>2 DEF StoreOK
<1>11. TimesOK'
  BY <1>4, <1>6 DEF JournalInv, TimesOK, Stored
<1>12. BarredOK' /\ SelectedOK'
  BY <1>7 DEF JournalInv, BarredOK, SelectedOK, Canonical
<1> QED BY <1>8, <1>9, <1>10, <1>11, <1>12 DEF JournalInv

LEMMA DisputeKeeps ==
    ASSUME JournalInv, NEW t \in Trades, NEW e \in Economics, Dispute(t, e)
    PROVE  JournalInv'
<1>1. /\ conflicts \subseteq conflicts'
      /\ conflicts' \subseteq conflicts \union {<<t, e>>}
  BY DEF Dispute, Quarantine
<1>2. /\ conflicts' \subseteq Trades \X Economics
      /\ known \subseteq Trades /\ contradicted \subseteq Trades
      /\ clock <= clock /\ clock \in 0..MaxTime /\ faults \in 0..MaxFaults
      /\ cursor \in [Venues -> (0..MaxTime) \X Nat \X Nat]
  BY <1>1, LimitsAreNumbers DEF JournalInv, JournalTypeOK
<1>3. UNCHANGED <<clock, evidence, metadata, journal, cursor, burst, barred, faults>>
  BY DEF Dispute
<1> QED BY <1>1, <1>2, <1>3, OutsideKeeps DEF metadata

LEMMA VerifyKeeps ==
    ASSUME JournalInv, NEW t \in Trades, Verify(t)
    PROVE  JournalInv'
<1>1. /\ known' \subseteq Trades /\ contradicted' \subseteq Trades
      /\ UNCHANGED <<clock, evidence, conflicts, journal, cursor, burst, barred, faults>>
  BY DEF Verify, JournalInv, JournalTypeOK
<1>2. /\ conflicts \subseteq Trades \X Economics
      /\ clock <= clock /\ clock \in 0..MaxTime /\ faults \in 0..MaxFaults
      /\ cursor \in [Venues -> (0..MaxTime) \X Nat \X Nat]
  BY LimitsAreNumbers DEF JournalInv, JournalTypeOK
<1> QED BY <1>1, <1>2, OutsideKeeps

LEMMA ContradictKeeps ==
    ASSUME JournalInv, NEW t \in Trades, Contradict(t)
    PROVE  JournalInv'
<1>1. /\ known' \subseteq Trades /\ contradicted' \subseteq Trades
      /\ UNCHANGED <<clock, evidence, conflicts, journal, cursor, burst, barred, faults>>
  BY DEF Contradict, JournalInv, JournalTypeOK
<1>2. /\ conflicts \subseteq Trades \X Economics
      /\ clock <= clock /\ clock \in 0..MaxTime /\ faults \in 0..MaxFaults
      /\ cursor \in [Venues -> (0..MaxTime) \X Nat \X Nat]
  BY LimitsAreNumbers DEF JournalInv, JournalTypeOK
<1> QED BY <1>1, <1>2, OutsideKeeps

LEMMA TickKeeps ==
    ASSUME JournalInv, Tick
    PROVE  JournalInv'
<1>1. /\ clock' \in 0..MaxTime /\ clock <= clock'
      /\ UNCHANGED <<evidence, conflicts, known, contradicted, journal, cursor, burst, barred, faults>>
  BY LimitsAreNumbers DEF Tick, raw, metadata, JournalInv, JournalTypeOK
<1>2. /\ conflicts \subseteq Trades \X Economics /\ faults \in 0..MaxFaults
      /\ known \subseteq Trades /\ contradicted \subseteq Trades
      /\ cursor \in [Venues -> (0..MaxTime) \X Nat \X Nat]
  BY DEF JournalInv, JournalTypeOK
<1> QED BY <1>1, <1>2, OutsideKeeps

\* A step of a running burst that writes no event.
LEMMA BurstKeeps ==
    ASSUME JournalInv, UNCHANGED <<clock, raw, journal, barred>>,
           faults' \in 0..MaxFaults,
           cursor' \in [Venues -> (0..MaxTime) \X Nat \X Nat],
           burst' \in BurstTypes, WithinQuarter', SelectedOK',
           burst'.phase # "idle" =>
               burst.phase # "idle" /\ burst'.accepted = burst.accepted
    PROVE  JournalInv'
<1>1. JournalTypeOK'
  BY DEF JournalInv, JournalTypeOK, BurstTypes, WithinQuarter, raw, metadata, Event
<1>2. JournalOrdered' /\ StoreOK' /\ BarredOK'
  BY DEF JournalInv, JournalOrdered, StoreOK, BarredOK, StoredTrades, Canonical, raw, metadata
<1>3. TimesOK'
  BY DEF JournalInv, TimesOK, raw, metadata
<1> QED BY <1>1, <1>2, <1>3 DEF JournalInv

LEMMA BeginKeeps ==
    ASSUME JournalInv, BeginBurst
    PROVE  JournalInv'
<1> USE DEF BeginBurst
<1>1. /\ burst' \in BurstTypes /\ burst'.phase = "debt" /\ burst'.accepted = clock
      /\ burst'.selected = <<>> /\ burst'.normalized = 0
  BY IdleShape DEF JournalInv, JournalTypeOK, BurstTypes, Idle
<1>2. JournalTypeOK'
  BY <1>1 DEF JournalInv, JournalTypeOK, BurstTypes, raw, metadata
<1>3. JournalOrdered' /\ StoreOK'
  BY DEF JournalInv, JournalOrdered, StoreOK, StoredTrades, raw, metadata
<1>4. TimesOK'
  <2>1. clock \in Nat
    BY LimitsAreNumbers DEF JournalInv, JournalTypeOK
  <2> QED BY <1>1, <2>1 DEF JournalInv, TimesOK, raw, metadata
<1>5. BarredOK'
  BY DEF JournalInv, BarredOK, Canonical, raw, metadata
<1>6. SelectedOK'
  BY <1>1 DEF SelectedOK
<1> QED BY <1>2, <1>3, <1>4, <1>5, <1>6 DEF JournalInv

\* Rows listed from eligible ones are what a selection may hold.
LEMMA EligibleSelected ==
    ASSUME JournalInv, UNCHANGED <<raw, journal, barred>>,
           NEW S \in SUBSET EligibleRows, NEW s, Lists(s, S),
           burst'.selected = s, burst'.phase # "debt"
    PROVE  SelectedOK' /\ s \in Seq(Trades)
<1>1. s \in Seq(S) /\ \A i \in 1..Len(s) : s[i] \in S
  BY DEF Lists
<1>2. \A t \in S : t \in StoredTrades /\ ~Canonical(t) /\ t \notin barred
  BY DEF EligibleRows, Eligible, JournalInv, BarredOK
<1>3. StoredTrades' = StoredTrades /\ \A t : Canonical(t)' = Canonical(t)
  BY DEF StoredTrades, Canonical, raw, metadata
<1>4. SelectedOK'
  BY <1>1, <1>2, <1>3 DEF SelectedOK, Lists
<1>5. s \in Seq(Trades)
  BY <1>1 DEF EligibleRows, StoredTrades
<1> QED BY <1>4, <1>5

LEMMA SelectDebtKeeps ==
    ASSUME JournalInv, SelectDebt
    PROVE  JournalInv'
<1> USE DEF SelectDebt
<1>1. EvidenceOK /\ StoreOK
  BY DEF JournalInv, JournalTypeOK, EvidenceOK
<1>2. /\ DebtRows \in SUBSET EligibleRows /\ DebtRows \in SUBSET Trades
      /\ IsFiniteSet(DebtRows)
      /\ Cardinality(DebtRows) \in Nat /\ Cardinality(DebtRows) <= DebtLimit
  BY <1>1, DebtRowsEligible DEF EligibleRows, StoredTrades
<1> DEFINE s == OldestFirst(DebtRows)
<1>3. Lists(s, DebtRows)
  BY <1>1, <1>2, OldestFirstLists
<1>4. burst \in BurstTypes /\ burst.normalized = 0
  BY DEF JournalInv, JournalTypeOK, SelectedOK, BurstTypes
<1>5. /\ burst'.phase = "write_debt" /\ burst'.selected = s
      /\ burst'.accepted = burst.accepted /\ burst'.normalized = 0
  BY <1>4 DEF BurstTypes
<1> HIDE DEF s
<1>6. SelectedOK' /\ s \in Seq(Trades)
  BY <1>2, <1>3, <1>5, EligibleSelected
<1>7. burst' \in BurstTypes
  BY <1>4, <1>6 DEF BurstTypes, s
<1>8. WithinQuarter'
  BY <1>2, <1>3, <1>5 DEF WithinQuarter, Lists
<1>9. \A v \in Venues : CursorAfter(v) \in (0..MaxTime) \X Nat \X Nat
  BY <1>1, CursorShape DEF JournalInv, JournalTypeOK
<1>10. cursor' \in [Venues -> (0..MaxTime) \X Nat \X Nat]
  BY <1>9 DEF JournalInv, JournalTypeOK
<1>11. faults' \in 0..MaxFaults
  BY LimitsAreNumbers DEF JournalInv, JournalTypeOK
<1> QED BY <1>5, <1>6, <1>7, <1>8, <1>10, <1>11, BurstKeeps

LEMMA SelectFreshKeeps ==
    ASSUME JournalInv, SelectFresh
    PROVE  JournalInv'
<1> USE DEF SelectFresh
<1>1. EvidenceOK /\ StoreOK
  BY DEF JournalInv, JournalTypeOK, EvidenceOK
<1>2. burst \in BurstTypes /\ BurstLimit - burst.normalized \in Nat
  BY LimitsAreNumbers DEF JournalInv, JournalTypeOK, BurstTypes
<1> DEFINE S == UNION {RecentRows(v) : v \in Venues}
           recent == Newest(S, BurstLimit - burst.normalized)
           s == NewestFirst(recent)
<1>3. S \in SUBSET EligibleRows
  BY <1>1, RecentRowsEligible
<1>4. IsFiniteSet(S) /\ S \in SUBSET Trades
  BY <1>1, <1>3, StoredSubset DEF EligibleRows
<1>5. burst' = [burst EXCEPT !.phase = "write_fresh", !.selected = s]
  OBVIOUS
<1> HIDE DEF S
<1>6. recent \in SUBSET S /\ IsFiniteSet(recent)
  BY <1>1, <1>2, <1>4, PageBounded
<1> HIDE DEF recent
<1>7. Lists(s, recent)
  BY <1>1, <1>4, <1>6, NewestFirstLists
<1> HIDE DEF s
<1>8. /\ burst'.phase = "write_fresh" /\ burst'.selected = s
      /\ burst'.accepted = burst.accepted
  BY <1>2, <1>5 DEF BurstTypes
<1>9. SelectedOK' /\ s \in Seq(Trades)
  BY <1>3, <1>6, <1>7, <1>8, EligibleSelected
<1>10. burst' \in BurstTypes
  BY <1>2, <1>5, <1>9 DEF BurstTypes
<1> QED
  BY <1>8, <1>9, <1>10, BurstKeeps DEF WithinQuarter, JournalInv, JournalTypeOK

LEMMA EndLaneKeeps ==
    ASSUME JournalInv, EndLane
    PROVE  JournalInv'
<1>1. burst \in BurstTypes /\ burst.phase # "idle"
  BY DEF EndLane, Writing, JournalInv, JournalTypeOK, BurstTypes
<1>2. /\ burst' \in BurstTypes /\ burst'.selected = <<>>
      /\ burst'.phase \in {"idle", "fresh"}
      /\ burst'.phase # "idle" => burst'.accepted = burst.accepted
  BY <1>1, IdleShape DEF EndLane, BurstTypes
<1>3. /\ UNCHANGED <<clock, raw, journal, cursor, barred, faults>>
      /\ faults \in 0..MaxFaults /\ cursor \in [Venues -> (0..MaxTime) \X Nat \X Nat]
  BY DEF EndLane, JournalInv, JournalTypeOK
<1>4. WithinQuarter' /\ SelectedOK'
  BY <1>2 DEF WithinQuarter, SelectedOK
<1> QED BY <1>1, <1>2, <1>3, <1>4, BurstKeeps

LEMMA RetryKeeps ==
    ASSUME JournalInv, Retry
    PROVE  JournalInv'
<1>1. burst \in BurstTypes
  BY DEF JournalInv, JournalTypeOK, BurstTypes
<1>2. /\ burst' \in BurstTypes /\ burst'.selected = <<>> /\ burst'.normalized = 0
      /\ burst'.phase = "debt" /\ burst'.accepted = burst.accepted
  <2>1. burst' = [phase |-> "debt", accepted |-> burst.accepted, selected |-> <<>>,
                  normalized |-> 0, tries |-> 1]
    BY <1>1 DEF Retry, BurstTypes
  <2>2. burst.accepted \in 0..MaxTime /\ <<>> \in Seq(Trades) /\ 0 \in 0..BurstLimit
    BY <1>1, LimitsAreNumbers DEF BurstTypes
  <2> QED BY <2>1, <2>2 DEF BurstTypes
<1>3. WithinQuarter' /\ SelectedOK'
  BY <1>2 DEF WithinQuarter, SelectedOK
<1>4. faults' \in 0..MaxFaults
  BY LimitsAreNumbers DEF Retry, JournalInv, JournalTypeOK
<1>5. /\ UNCHANGED <<clock, raw, journal, barred>> /\ burst.phase # "idle"
      /\ cursor' \in [Venues -> (0..MaxTime) \X Nat \X Nat]
  BY DEF Retry, JournalInv, JournalTypeOK
<1> QED BY <1>2, <1>3, <1>4, <1>5, BurstKeeps

LEMMA CrashKeeps ==
    ASSUME JournalInv, Crash
    PROVE  JournalInv'
<1>1. /\ UNCHANGED <<clock, raw, journal, cursor, barred>> /\ burst' = Idle
      /\ faults' \in 0..MaxFaults /\ cursor \in [Venues -> (0..MaxTime) \X Nat \X Nat]
  BY LimitsAreNumbers DEF Crash, JournalInv, JournalTypeOK
<1>2. WithinQuarter' /\ SelectedOK'
  BY <1>1, IdleShape DEF WithinQuarter, SelectedOK
<1> QED BY <1>1, <1>2, IdleShape, BurstKeeps

LEMMA FailChunkKeeps ==
    ASSUME JournalInv, FailChunk
    PROVE  JournalInv'
<1>1. /\ UNCHANGED <<clock, raw, journal, cursor, barred>> /\ burst' = Idle
      /\ faults' \in 0..MaxFaults /\ cursor \in [Venues -> (0..MaxTime) \X Nat \X Nat]
  BY LimitsAreNumbers DEF FailChunk, JournalInv, JournalTypeOK
<1>2. WithinQuarter' /\ SelectedOK'
  BY <1>1, IdleShape DEF WithinQuarter, SelectedOK
<1> QED BY <1>1, <1>2, IdleShape, BurstKeeps

LEMMA JoinedShape ==
    ASSUME NEW E, NEW s \in Seq(E), NEW t \in Seq(E)
    PROVE  /\ s \o t \in Seq(E) /\ Len(s \o t) = Len(s) + Len(t)
           /\ \A n \in 1..Len(s) : (s \o t)[n] = s[n]
           /\ \A n \in 1..Len(s \o t) : n \notin 1..Len(s) =>
                 n - Len(s) \in 1..Len(t) /\ (s \o t)[n] = t[n - Len(s)]
OBVIOUS

\* A chunk is written: its events are new, and stand behind all others.
LEMMA WriteKeeps ==
    ASSUME JournalInv, WriteChunk
    PROVE  JournalInv'
<1> DEFINE N == Len(journal)
           C == Chunk
           rows == [n \in 1..Len(C) |-> CanonicalRow(C[n])]
           sel == burst.selected
           rest == SubSeq(sel, ChunkRows + 1, Len(sel))
<1>1. /\ burst \in BurstTypes /\ burst.phase \in {"write_debt", "write_fresh"}
      /\ journal' = journal \o rows
      /\ burst' = [burst EXCEPT !.selected = rest, !.normalized = @ + Len(C)]
      /\ UNCHANGED <<clock, evidence, conflicts, known, contradicted, cursor, barred, faults>>
  BY DEF WriteChunk, Writing, raw, metadata, JournalInv, JournalTypeOK, BurstTypes
<1>2. /\ sel \in Seq(Trades) /\ Len(sel) \in Nat
      /\ burst.normalized \in 0..BurstLimit /\ burst.accepted \in 0..MaxTime
  BY <1>1 DEF BurstTypes
<1>3. \A i \in 1..Len(sel) :
         /\ sel[i] \in StoredTrades /\ ~Canonical(sel[i]) /\ sel[i] \notin barred
         /\ \A j \in 1..Len(sel) : sel[i] = sel[j] => i = j
  BY DEF JournalInv, SelectedOK
<1>4. /\ TakenOf(C, sel, Len(sel)) /\ Len(C) <= ChunkRows
      /\ \A i \in 1..Len(C) :
            \E m \in 1..Len(sel) : m <= ChunkRows /\ C[i] = sel[m]
  BY <1>2, <1>3, ChunkTakes
<1>5. /\ C \in Seq(Trades) /\ Len(C) \in Nat
      /\ Len(C) <= Len(sel) /\ Len(C) <= BurstLimit - burst.normalized
      /\ \A i \in 1..Len(C) :
            /\ C[i] \in StoredTrades /\ C[i] \in Trades
            /\ ~Canonical(C[i]) /\ C[i] \notin barred
            /\ evidence[C[i]].at \in 1..MaxTime
            /\ evidence[C[i]].at <= burst.accepted
      /\ \A i, j \in 1..Len(C) : C[i] = C[j] => i = j
  <2>1. /\ C \in Seq(Trades) /\ Len(C) \in Nat
        /\ Len(C) <= Len(sel) /\ Len(C) <= BurstLimit - burst.normalized
        /\ \A i, j \in 1..Len(C) : C[i] = C[j] => i = j
    BY <1>4 DEF TakenOf
  <2>2. ASSUME NEW i \in 1..Len(C)
        PROVE  /\ C[i] \in StoredTrades /\ C[i] \in Trades
               /\ ~Canonical(C[i]) /\ C[i] \notin barred
               /\ evidence[C[i]].at \in 1..MaxTime
               /\ evidence[C[i]].at <= burst.accepted
    <3>1. PICK m \in 1..Len(sel) : C[i] = sel[m]
      BY <1>4
    <3>2. /\ C[i] \in StoredTrades /\ C[i] \in Trades
          /\ ~Canonical(C[i]) /\ C[i] \notin barred
      BY <1>3, <3>1 DEF StoredTrades
    <3>3. evidence[C[i]].at \in 0..MaxTime /\ evidence[C[i]].at >= 1
      BY <3>2 DEF JournalInv, JournalTypeOK, StoreOK
    <3>4. evidence[C[i]].at <= burst.accepted
      BY <1>4 DEF TakenOf, Accepts
    <3> QED BY <3>2, <3>3, <3>4, LimitsAreNumbers
  <2> HIDE DEF C, sel
  <2> QED BY <2>1, <2>2
<1>6. /\ rest \in Seq(Trades)
      /\ Len(rest) = IF ChunkRows < Len(sel) THEN Len(sel) - ChunkRows ELSE 0
      /\ \A i \in 1..Len(rest) : i + ChunkRows \in 1..Len(sel)
                                 /\ rest[i] = sel[i + ChunkRows]
  <2> HIDE DEF sel
  <2> QED BY <1>2, LimitsAreNumbers
<1> HIDE DEF C, sel, rest
<1>7. /\ rows \in Seq(Event) /\ Len(rows) = Len(C)
      /\ \A n \in 1..Len(C) :
            /\ rows[n].trade = C[n] /\ rows[n].source = evidence[C[n]].at
            /\ rows[n].at = burst.accepted
  <2>1. ASSUME NEW n \in 1..Len(C)
        PROVE  /\ CanonicalRow(C[n]) \in Event
               /\ CanonicalRow(C[n]).trade = C[n]
               /\ CanonicalRow(C[n]).source = evidence[C[n]].at
               /\ CanonicalRow(C[n]).at = burst.accepted
    <3>1. burst.accepted \in 1..MaxTime
      BY <1>2, <1>5, LimitsAreNumbers
    <3> QED BY <1>5, <3>1 DEF CanonicalRow, Event
  <2> HIDE DEF CanonicalRow
  <2> QED BY <1>5, <2>1
<1> HIDE DEF rows
<1>8. journal \in Seq(Event) /\ N \in Nat
  BY DEF JournalInv, JournalTypeOK
<1>9. /\ journal' \in Seq(Event) /\ Len(journal') = N + Len(C)
      /\ \A n \in 1..N : journal'[n] = journal[n]
      /\ \A n \in 1..Len(journal') : n \notin 1..N =>
            n - N \in 1..Len(C) /\ journal'[n] = rows[n - N]
  <2> DEFINE j == journal \o rows
  <2>1. /\ j \in Seq(Event) /\ Len(j) = N + Len(rows)
        /\ \A n \in 1..N : j[n] = journal[n]
        /\ \A n \in 1..Len(j) : n \notin 1..N =>
              n - N \in 1..Len(rows) /\ j[n] = rows[n - N]
    <3>1. journal \in Seq(Event) /\ rows \in Seq(Event)
      BY <1>7, <1>8
    <3>2. /\ j \in Seq(Event) /\ Len(j) = Len(journal) + Len(rows)
          /\ \A n \in 1..Len(journal) : j[n] = journal[n]
          /\ \A n \in 1..Len(j) : n \notin 1..Len(journal) =>
                n - Len(journal) \in 1..Len(rows) /\ j[n] = rows[n - Len(journal)]
      BY ONLY <3>1, JoinedShape, Zenon
    <3> QED BY <3>2
  <2> HIDE DEF j
  <2>2. journal' = j
    BY <1>1 DEF j
  <2> QED BY <1>7, <2>1, <2>2
<1>10. ASSUME NEW n \in 1..Len(journal'), NEW t, t = journal'[n].trade
       PROVE  Canonical(t) \/ \E i \in 1..Len(C) : t = C[i]
  <2>1. CASE n \in 1..N
    BY <1>9, <1>10, <2>1 DEF Canonical
  <2>2. CASE n \notin 1..N
    BY <1>7, <1>9, <1>10, <2>2
  <2> QED BY <2>1, <2>2
<1>11. \A n \in 1..N :
          /\ journal[n].at \in Nat /\ journal[n].at <= burst.accepted
          /\ Canonical(journal[n].trade)
  BY <1>1, EventShape DEF JournalInv, TimesOK, Canonical
<1>12. /\ burst' \in BurstTypes /\ burst'.phase = burst.phase
       /\ burst'.accepted = burst.accepted /\ burst'.selected = rest
       /\ burst'.normalized = burst.normalized + Len(C)
  <2>1. burst.normalized + Len(C) \in 0..BurstLimit
    BY <1>2, <1>5, LimitsAreNumbers
  <2> QED BY <1>1, <1>6, <2>1 DEF BurstTypes
<1>13. JournalTypeOK'
  <2>1. WithinQuarter'
    <3>1. burst.phase = "write_debt" => burst.normalized + Len(sel) <= DebtLimit
      BY DEF JournalInv, JournalTypeOK, sel
    <3>2. Len(C) + Len(rest) <= Len(sel)
      BY <1>2, <1>4, <1>5, <1>6, LimitsAreNumbers
    <3> QED
      BY <1>2, <1>5, <1>6, <1>12, <3>1, <3>2, LimitsAreNumbers DEF WithinQuarter
  <2>2. /\ burst' \in BurstTypes /\ journal' \in Seq(Event)
        /\ UNCHANGED <<clock, evidence, conflicts, known, contradicted, cursor, barred, faults>>
    BY <1>1, <1>9, <1>12
  <2> QED BY <2>1, <2>2 DEF JournalInv, JournalTypeOK, BurstTypes, WithinQuarter
<1>14. JournalOrdered'
  <2> SUFFICES ASSUME NEW n \in 1..Len(journal')
               PROVE  /\ journal'[n].source = evidence[journal'[n].trade].at
                      /\ journal'[n].source <= journal'[n].at
                      /\ \A m \in 1..(n - 1) :
                            /\ journal'[m].at <= journal'[n].at
                            /\ journal'[m].trade # journal'[n].trade
    BY <1>1 DEF JournalOrdered
  <2>1. CASE n \in 1..N
    <3>1. journal'[n] = journal[n] /\ \A m \in 1..(n - 1) : journal'[m] = journal[m]
      BY <1>8, <1>9, <2>1
    <3> QED BY <2>1, <3>1 DEF JournalInv, JournalOrdered
  <2>2. CASE n \notin 1..N
    <3>1. n - N \in 1..Len(C) /\ journal'[n] = rows[n - N]
      BY <1>9, <2>2
    <3>2. /\ journal'[n].trade = C[n - N] /\ journal'[n].at = burst.accepted
          /\ journal'[n].source = evidence[C[n - N]].at
          /\ evidence[C[n - N]].at <= burst.accepted /\ ~Canonical(C[n - N])
      BY <1>5, <1>7, <3>1
    <3>3. ASSUME NEW m \in 1..(n - 1)
          PROVE  /\ journal'[m].at <= journal'[n].at
                 /\ journal'[m].trade # journal'[n].trade
      <4>1. CASE m \in 1..N
        BY <1>2, <1>9, <1>11, <3>2, <4>1
      <4>2. CASE m \notin 1..N
        <5>1. m \in 1..Len(journal') /\ m # n
          BY <1>5, <1>8, <1>9
        <5>2. m - N \in 1..Len(C) /\ journal'[m] = rows[m - N] /\ m - N # n - N
          BY <1>8, <1>9, <4>2, <5>1
        <5>3. journal'[m].trade = C[m - N] /\ journal'[m].at = burst.accepted
          BY <1>7, <5>2
        <5>4. C[m - N] # C[n - N]
          BY <1>5, <3>1, <5>2
        <5> QED BY <1>2, <3>2, <5>3, <5>4
      <4> QED BY <4>1, <4>2
    <3> QED BY <3>2, <3>3
  <2> QED BY <2>1, <2>2
<1>15. StoredTrades' = StoredTrades /\ StoreOK'
  BY <1>1 DEF JournalInv, StoreOK, StoredTrades
<1>16. TimesOK'
  <2>1. ASSUME NEW n \in 1..Len(journal')
        PROVE  /\ Stored(evidence, journal'[n].trade)
               /\ journal'[n].at <= clock /\ journal'[n].at <= burst.accepted
    <3>1. CASE n \in 1..N
      BY <1>1, <1>9, <3>1 DEF JournalInv, TimesOK
    <3>2. CASE n \notin 1..N
      <4>1. /\ n - N \in 1..Len(C)
            /\ journal'[n].trade = C[n - N] /\ journal'[n].at = burst.accepted
        BY <1>7, <1>9, <3>2
      <4>2. C[n - N] \in StoredTrades
        BY <1>5, <4>1
      <4>3. burst.accepted <= clock /\ burst.accepted \in Nat
        BY <1>1, <1>2 DEF JournalInv, TimesOK
      <4> QED BY <4>1, <4>2, <4>3 DEF StoredTrades
    <3> QED BY <3>1, <3>2
  <2> QED BY <1>1, <1>12, <2>1 DEF JournalInv, TimesOK
<1>17. BarredOK'
  BY <1>1, <1>5, <1>10 DEF JournalInv, BarredOK, Canonical
<1>18. SelectedOK'
  <2>1. ASSUME NEW i \in 1..Len(rest)
        PROVE  /\ rest[i] \in StoredTrades /\ rest[i] \notin barred
               /\ \A n \in 1..Len(journal') : journal'[n].trade # rest[i]
               /\ \A j \in 1..Len(rest) : rest[i] = rest[j] => i = j
    <3>1. i + ChunkRows \in 1..Len(sel) /\ rest[i] = sel[i + ChunkRows]
      BY <1>6
    <3>2. rest[i] \in StoredTrades /\ ~Canonical(rest[i]) /\ rest[i] \notin barred
      BY <1>3, <3>1 DEF sel
    <3>3. \A k \in 1..Len(C) : rest[i] # C[k]
      <4> SUFFICES ASSUME NEW k \in 1..Len(C), rest[i] = C[k] PROVE FALSE
        OBVIOUS
      <4>1. PICK m \in 1..Len(sel) : m <= ChunkRows /\ C[k] = sel[m]
        BY <1>4
      <4>2. m = i + ChunkRows
        BY <1>3, <3>1, <4>1 DEF sel
      <4> QED BY <1>6, <4>1, <4>2, LimitsAreNumbers
    <3>4. ASSUME NEW j \in 1..Len(rest), rest[i] = rest[j] PROVE i = j
      <4>1. j + ChunkRows \in 1..Len(sel) /\ rest[j] = sel[j + ChunkRows]
        BY <1>6
      <4>2. i + ChunkRows = j + ChunkRows
        BY <1>3, <3>1, <3>4, <4>1 DEF sel
      <4> QED BY <1>6, <4>2, LimitsAreNumbers
    <3> QED BY <1>10, <3>2, <3>3, <3>4
  <2> QED BY <1>1, <1>12, <1>15, <2>1 DEF SelectedOK, Canonical
<1> QED BY <1>13, <1>14, <1>15, <1>16, <1>17, <1>18 DEF JournalInv

LEMMA JournalStep == JournalInv /\ [Next]_vars => JournalInv'
<1> SUFFICES ASSUME JournalInv, [Next]_vars PROVE JournalInv'
  OBVIOUS
<1>1. CASE Normalizer
  BY <1>1, BeginKeeps, SelectDebtKeeps, SelectFreshKeeps, WriteKeeps, FailChunkKeeps,
     EndLaneKeeps
  DEF Normalizer
<1>2. CASE Others
  BY <1>2, IngestKeeps, DisputeKeeps, VerifyKeeps, ContradictKeeps, TickKeeps, RetryKeeps,
     CrashKeeps
  DEF Others
<1>3. CASE UNCHANGED vars
  <2>1. /\ UNCHANGED <<evidence, conflicts, metadata, journal, burst, barred, cursor>>
        /\ clock' = clock /\ faults' = faults
    BY <1>3 DEF vars, raw
  <2>2. clock <= clock' /\ clock' \in 0..MaxTime /\ faults' \in 0..MaxFaults
    BY <2>1, LimitsAreNumbers DEF JournalInv, JournalTypeOK
  <2>3. /\ conflicts' \subseteq Trades \X Economics
        /\ known' \subseteq Trades /\ contradicted' \subseteq Trades
        /\ cursor' \in [Venues -> (0..MaxTime) \X Nat \X Nat]
    BY <2>1 DEF metadata, JournalInv, JournalTypeOK
  <2> QED BY <2>1, <2>2, <2>3, OutsideKeeps
<1> QED BY <1>1, <1>2, <1>3 DEF Next

LEMMA JournalInvariance == Spec => []JournalInv
BY JournalInit, JournalStep, PTL DEF Spec

-----------------------------------------------------------------------------
(* Theorems.                                                               *)

\* Through retries, crashes, both lanes and whatever the writer stores between
\* two transactions: the events of the journal are in the order in which they
\* were accepted, none before its source was observed, each trade once, and
\* the debt lane takes no more than its quarter of a burst.
THEOREM JournalIsSound == Spec => []JournalSound
<1>1. JournalInv => JournalSound
  BY DEF JournalInv, JournalSound
<1> QED BY <1>1, JournalInvariance, PTL

\* A trade that was disputed when a burst began never becomes an event, not in
\* that burst, not by a retry of it and not in any later one.
THEOREM QuarantineIsKept == Spec => []QuarantineHolds
<1>1. JournalInv => QuarantineHolds
  BY DEF JournalInv, BarredOK, QuarantineHolds
<1> QED BY <1>1, JournalInvariance, PTL
=============================================================================
