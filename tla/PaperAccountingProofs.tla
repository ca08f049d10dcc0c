------------------------ MODULE PaperAccountingProofs ------------------------
(***************************************************************************)
(* Facts about the operators of PaperAccounting and PaperExecution that the*)
(* proofs about the ledger and the loop share: what sums, quantities and   *)
(* released shares of a cost basis are.                                    *)
(*                                                                         *)
(* A sum is a recursive function.  That there is such a function, and that *)
(* it is what its equations say, follows by induction on the numbers, which*)
(* is stated here for a set of numbers and proved from the least element of*)
(* its complement.                                                         *)
(***************************************************************************)
EXTENDS PaperAccounting, SequenceTheorems, WellFoundedInduction, TLAPS

-----------------------------------------------------------------------------
(* Induction.                                                              *)

\* A set of numbers that holds zero and every successor of a member holds all.
LEMMA Induction ==
    ASSUME NEW S, 0 \in S, \A n \in Nat : n \in S => n + 1 \in S
    PROVE  Nat \subseteq S
<1> DEFINE R == OpToRel(<, Nat)
           T == Nat \ S
<1>1. \A x, y \in Nat : <<x, y>> \in R <=> x < y
  BY DEF OpToRel
<1>2. SUFFICES ASSUME T # {} PROVE FALSE
  OBVIOUS
<1>3. IsWellFoundedOn(R, Nat)
  BY NatLessThanWellFounded
<1>4. T \subseteq Nat
  OBVIOUS
<1> HIDE DEF R
<1>5. PICK x \in T : \A y \in T : ~ (<<y, x>> \in R)
  <2> HIDE DEF T
  <2> QED BY <1>2, <1>3, <1>4, WFMin
<1>6. x # 0
  OBVIOUS
<1>7. x - 1 \in Nat /\ x - 1 < x /\ (x - 1) + 1 = x
  BY <1>6
<1>8. x - 1 \in T
  BY <1>7
<1> QED BY <1>1, <1>5, <1>7, <1>8

\* The same up to a bound.
LEMMA BoundedInduction ==
    ASSUME NEW N \in Nat, NEW S, 0 \in S,
           \A n \in 1..N : n - 1 \in S => n \in S
    PROVE  0..N \subseteq S
<1> DEFINE T == {n \in Nat : n \in S \/ n > N}
<1>1. 0 \in T
  OBVIOUS
<1>2. ASSUME NEW n \in Nat, n \in T PROVE n + 1 \in T
  <2>1. CASE n + 1 > N
    BY <2>1
  <2>2. CASE n + 1 <= N
    <3>1. n \in S /\ n + 1 \in 1..N /\ (n + 1) - 1 = n
      BY <1>2, <2>2
    <3> QED BY <3>1
  <2> QED BY <2>1, <2>2
<1> HIDE DEF T
<1>3. Nat \subseteq T
  BY <1>1, <1>2, Induction
<1> QED BY <1>3 DEF T

-----------------------------------------------------------------------------
(* Sums.                                                                   *)

\* f is the function of the partial sums of a.
Sums(f, a) ==
    f = [n \in 0..Len(a) |-> IF n = 0 THEN 0 ELSE f[n - 1] + a[n]]

\* Every sequence has partial sums.
LEMMA SumsExist ==
    ASSUME NEW a, Len(a) \in Nat
    PROVE  \E f : Sums(f, a)
<1> DEFINE UpTo(f, N) == f = [n \in 0..N |-> IF n = 0 THEN 0 ELSE f[n - 1] + a[n]]
           S == {N \in Nat : \E f : UpTo(f, N)}
<1>1. 0 \in S
  <2> DEFINE f == [n \in 0..0 |-> 0]
  <2>1. UpTo(f, 0)
    OBVIOUS
  <2> QED BY <2>1
<1>2. ASSUME NEW N \in Nat, N \in S PROVE N + 1 \in S
  <2>1. PICK f : UpTo(f, N)
    BY <1>2
  <2> DEFINE g == [n \in 0..(N + 1) |-> IF n = N + 1 THEN f[N] + a[N + 1] ELSE f[n]]
  <2>2. ASSUME NEW n \in 0..(N + 1)
        PROVE  g[n] = IF n = 0 THEN 0 ELSE g[n - 1] + a[n]
    <3>1. CASE n = N + 1
      <4>1. g[n] = f[N] + a[N + 1] /\ n # 0 /\ n - 1 = N /\ N \in 0..(N + 1) /\ N # N + 1
        BY <3>1
      <4>2. g[n - 1] = f[N]
        BY <4>1
      <4> QED BY <3>1, <4>1, <4>2
    <3>2. CASE n \in 0..N
      <4>1. g[n] = f[n] /\ n # N + 1
        BY <3>2
      <4>2. f[n] = IF n = 0 THEN 0 ELSE f[n - 1] + a[n]
        BY <2>1, <3>2
      <4>3. n # 0 => g[n - 1] = f[n - 1]
        BY <3>2
      <4> QED BY <4>1, <4>2, <4>3
    <3> QED BY <3>1, <3>2
  <2>3. UpTo(g, N + 1)
    <3>1. g = [n \in 0..(N + 1) |-> g[n]]
      OBVIOUS
    <3> HIDE DEF g
    <3> QED BY <2>2, <3>1
  <2> HIDE DEF UpTo, g
  <2> QED BY <2>3
<1> HIDE DEF S
<1>3. Len(a) \in S
  BY <1>1, <1>2, Induction
<1> QED BY <1>3 DEF S, Sums

PartialSums(f, a) ==
    /\ f[0] = 0 /\ f[Len(a)] = Total(a)
    /\ \A n \in 0..Len(a) : f[n] \in Int
    /\ \A n \in 1..Len(a) : f[n - 1] \in Int /\ f[n] = f[n - 1] + a[n]

\* The partial sums of numbers are numbers, and the last one is the total.
LEMMA TotalIsLastSum ==
    ASSUME NEW a \in Seq(Int)
    PROVE  \E f : PartialSums(f, a)
<1>1. Len(a) \in Nat /\ \A n \in 1..Len(a) : a[n] \in Int
  OBVIOUS
<1> DEFINE f == CHOOSE g : Sums(g, a)
<1>2. Sums(f, a)
  BY <1>1, SumsExist
<1>3. Total(a) = f[Len(a)]
  BY DEF Total, Sums
<1> HIDE DEF f
<1>4. /\ f[0] = 0 /\ DOMAIN f = 0..Len(a)
      /\ f = [n \in 0..Len(a) |-> f[n]]
      /\ \A n \in 1..Len(a) : f[n] = f[n - 1] + a[n]
  <2>1. \A n \in 0..Len(a) : f[n] = IF n = 0 THEN 0 ELSE f[n - 1] + a[n]
    BY <1>2 DEF Sums
  <2>2. f[0] = 0
    BY <1>1, <2>1
  <2>3. ASSUME NEW n \in 1..Len(a) PROVE f[n] = f[n - 1] + a[n]
    BY <1>1, <2>1
  <2>4. DOMAIN f = 0..Len(a) /\ f = [n \in 0..Len(a) |-> f[n]]
    BY <1>2 DEF Sums
  <2> QED BY <2>2, <2>3, <2>4
<1> DEFINE S == {n \in 0..Len(a) : f[n] \in Int}
<1>5. 0 \in S
  BY <1>1, <1>4
<1>6. ASSUME NEW n \in 1..Len(a), n - 1 \in S PROVE n \in S
  <2>1. f[n] = f[n - 1] + a[n] /\ a[n] \in Int
    BY <1>1, <1>4
  <2>2. f[n - 1] \in Int
    BY <1>6
  <2>3. n \in 0..Len(a)
    BY <1>1
  <2> QED BY <2>1, <2>2, <2>3
<1>7. 0..Len(a) \subseteq S
  <2> HIDE DEF S
  <2> QED BY <1>1, <1>5, <1>6, BoundedInduction
<1>8. \A n \in 1..Len(a) : n - 1 \in 0..Len(a)
  BY <1>1
<1>9. PartialSums(f, a)
  BY <1>3, <1>4, <1>7, <1>8 DEF PartialSums
<1> QED BY <1>9

\* A total is a number.
LEMMA TotalType ==
    ASSUME NEW a \in Seq(Int)
    PROVE  Total(a) \in Int
<1>1. Len(a) \in Nat
  OBVIOUS
<1>2. PICK f : PartialSums(f, a)
  BY TotalIsLastSum
<1> QED BY <1>1, <1>2 DEF PartialSums

LEMMA TotalEmpty ==
    ASSUME NEW a \in Seq(Int), Len(a) = 0
    PROVE  Total(a) = 0
<1>1. PICK f : PartialSums(f, a)
  BY TotalIsLastSum
<1> QED BY <1>1 DEF PartialSums

\* Amounts that are nowhere less have a total that is not less.
LEMMA TotalMonotone ==
    ASSUME NEW a \in Seq(Int), NEW b \in Seq(Int), Len(a) = Len(b),
           \A n \in 1..Len(a) : a[n] <= b[n]
    PROVE  Total(a) <= Total(b)
<1>1. PICK f : PartialSums(f, a)
  BY TotalIsLastSum
<1>2. PICK g : PartialSums(g, b)
  BY TotalIsLastSum
<1>3. Len(a) \in Nat /\ \A n \in 1..Len(a) : a[n] \in Int /\ b[n] \in Int
  OBVIOUS
<1> DEFINE S == {n \in 0..Len(a) : f[n] <= g[n]}
<1>4. 0 \in S
  BY <1>1, <1>2, <1>3 DEF PartialSums
<1>5. ASSUME NEW n \in 1..Len(a), n - 1 \in S PROVE n \in S
  <2>1. f[n] = f[n - 1] + a[n] /\ g[n] = g[n - 1] + b[n]
    BY <1>1, <1>2 DEF PartialSums
  <2>2. f[n - 1] <= g[n - 1]
    BY <1>5
  <2>3. f[n - 1] \in Int /\ g[n - 1] \in Int /\ n \in 0..Len(a)
    BY <1>1, <1>2, <1>3 DEF PartialSums
  <2>4. a[n] \in Int /\ b[n] \in Int /\ a[n] <= b[n]
    BY <1>3
  <2> HIDE <1>1, <1>2
  <2> QED BY SMTT(30), <2>1, <2>2, <2>3, <2>4
<1>6. 0..Len(a) \subseteq S
  <2> HIDE DEF S
  <2> QED BY <1>3, <1>4, <1>5, BoundedInduction
<1> QED BY <1>1, <1>2, <1>3, <1>6 DEF PartialSums

LEMMA TotalSame ==
    ASSUME NEW a \in Seq(Int), NEW b \in Seq(Int), Len(a) = Len(b),
           \A n \in 1..Len(a) : a[n] = b[n]
    PROVE  Total(a) = Total(b)
<1>1. a = b
  BY SeqEqual
<1> QED BY <1>1

LEMMA TotalNat ==
    ASSUME NEW a \in Seq(Int), \A n \in 1..Len(a) : a[n] >= 0
    PROVE  Total(a) \in Nat
<1>1. PICK f : PartialSums(f, a)
  BY TotalIsLastSum
<1>2. Len(a) \in Nat /\ \A n \in 1..Len(a) : a[n] \in Int
  OBVIOUS
<1> DEFINE S == {n \in 0..Len(a) : f[n] >= 0}
<1>3. 0 \in S
  BY <1>1, <1>2 DEF PartialSums
<1>4. ASSUME NEW n \in 1..Len(a), n - 1 \in S PROVE n \in S
  BY SMTT(30), <1>1, <1>2, <1>4 DEF PartialSums
<1>5. 0..Len(a) \subseteq S
  <2> HIDE DEF S
  <2> QED BY <1>2, <1>3, <1>4, BoundedInduction
<1> QED BY <1>1, <1>2, <1>5 DEF PartialSums

\* Amounts that are all zero add up to zero.
LEMMA TotalZero ==
    ASSUME NEW a \in Seq(Int), \A n \in 1..Len(a) : a[n] = 0
    PROVE  Total(a) = 0
<1>1. PICK f : PartialSums(f, a)
  BY TotalIsLastSum
<1>2. Len(a) \in Nat
  OBVIOUS
<1> DEFINE S == {n \in 0..Len(a) : f[n] = 0}
<1>3. 0 \in S
  BY <1>1, <1>2 DEF PartialSums
<1>4. ASSUME NEW n \in 1..Len(a), n - 1 \in S PROVE n \in S
  BY SMTT(30), <1>1, <1>2, <1>4 DEF PartialSums
<1>5. 0..Len(a) \subseteq S
  <2> HIDE DEF S
  <2> QED BY <1>2, <1>3, <1>4, BoundedInduction
<1> QED BY <1>1, <1>2, <1>5 DEF PartialSums

\* One amount more, at the end.
LEMMA TotalExtended ==
    ASSUME NEW a \in Seq(Int), NEW b \in Seq(Int), Len(b) = Len(a) + 1,
           \A n \in 1..Len(a) : b[n] = a[n]
    PROVE  Total(b) = Total(a) + b[Len(b)]
<1>1. PICK f : PartialSums(f, a)
  BY TotalIsLastSum
<1>2. PICK g : PartialSums(g, b)
  BY TotalIsLastSum
<1>3. Len(a) \in Nat /\ \A n \in 1..Len(a) : a[n] \in Int
  OBVIOUS
<1> DEFINE S == {n \in 0..Len(a) : f[n] = g[n]}
<1>4. 0 \in S
  BY <1>1, <1>2, <1>3 DEF PartialSums
<1>5. ASSUME NEW n \in 1..Len(a), n - 1 \in S PROVE n \in S
  BY SMTT(30), <1>1, <1>2, <1>3, <1>5 DEF PartialSums
<1>6. 0..Len(a) \subseteq S
  <2> HIDE DEF S
  <2> QED BY <1>3, <1>4, <1>5, BoundedInduction
<1>7. f[Len(a)] = g[Len(a)] /\ Len(b) \in 1..Len(b) /\ Len(b) - 1 = Len(a)
  BY <1>3, <1>6
<1> QED BY <1>1, <1>2, <1>7 DEF PartialSums

\* One amount changed.
LEMMA TotalChanged ==
    ASSUME NEW a \in Seq(Int), NEW b \in Seq(Int), Len(b) = Len(a),
           NEW k \in 1..Len(a), \A n \in 1..Len(a) : n # k => b[n] = a[n]
    PROVE  Total(b) = Total(a) + (b[k] - a[k])
<1>1. PICK f : PartialSums(f, a)
  BY TotalIsLastSum
<1>2. PICK g : PartialSums(g, b)
  BY TotalIsLastSum
<1>3. Len(a) \in Nat /\ \A n \in 1..Len(a) : a[n] \in Int /\ b[n] \in Int
  OBVIOUS
<1> DEFINE S == {n \in 0..Len(a) : g[n] = f[n] + (IF n < k THEN 0 ELSE b[k] - a[k])}
<1>4. 0 \in S
  BY <1>1, <1>2, <1>3 DEF PartialSums
<1>5. ASSUME NEW n \in 1..Len(a), n - 1 \in S PROVE n \in S
  <2>1. g[n] = g[n - 1] + b[n] /\ f[n] = f[n - 1] + a[n]
    BY <1>1, <1>2 DEF PartialSums
  <2>2. g[n - 1] = f[n - 1] + (IF n - 1 < k THEN 0 ELSE b[k] - a[k])
    BY <1>5
  <2>3. f[n - 1] \in Int /\ a[n] \in Int /\ b[n] \in Int /\ a[k] \in Int /\ b[k] \in Int
    BY <1>1, <1>3 DEF PartialSums
  <2> DEFINE moved == b[k] - a[k]
  <2>4. CASE n < k
    <3>1. b[n] = a[n] /\ g[n - 1] = f[n - 1] + 0
      BY <1>3, <2>2, <2>4
    <3>2. g[n] = f[n]
      BY <2>1, <2>3, <3>1
    <3> QED BY <2>1, <2>3, <2>4, <3>2
  <2>5. CASE n = k
    <3>1. g[n - 1] = f[n - 1] + 0
      BY <2>2, <2>5
    <3> QED BY <2>1, <2>3, <2>5, <3>1
  <2>6. CASE n > k
    <3>1. b[n] = a[n] /\ g[n - 1] = f[n - 1] + moved /\ moved \in Int
      BY <1>3, <2>2, <2>3, <2>6
    <3> HIDE DEF moved
    <3>2. g[n] = f[n] + moved
      BY <2>1, <2>3, <3>1
    <3> QED BY <2>6, <3>2 DEF moved
  <2> QED BY <2>4, <2>5, <2>6
<1>6. 0..Len(a) \subseteq S
  <2> HIDE DEF S
  <2> QED BY <1>3, <1>4, <1>5, BoundedInduction
<1>7. Len(a) \in S /\ ~(Len(a) < k)
  BY <1>3, <1>6
<1> QED BY <1>1, <1>2, <1>7 DEF PartialSums

\* The sum of what a function says of each element of a sequence.
Summed(f, seq) == Total([n \in 1..Len(seq) |-> f[seq[n]]])

LEMMA SummedType ==
    ASSUME NEW S, NEW f \in [S -> Int], NEW seq \in Seq(S)
    PROVE  /\ [n \in 1..Len(seq) |-> f[seq[n]]] \in Seq(Int)
           /\ Len([n \in 1..Len(seq) |-> f[seq[n]]]) = Len(seq)
           /\ Summed(f, seq) \in Int
<1> DEFINE a == [n \in 1..Len(seq) |-> f[seq[n]]]
<1>1. Len(seq) \in Nat
  OBVIOUS
<1>2. \A n \in 1..Len(seq) : f[seq[n]] \in Int
  OBVIOUS
<1>3. a \in Seq(Int) /\ Len(a) = Len(seq)
  BY <1>1, <1>2
<1> HIDE DEF a
<1>4. Total(a) \in Int
  BY <1>3, TotalType
<1> QED BY <1>3, <1>4 DEF Summed, a

LEMMA SummedAppended ==
    ASSUME NEW S, NEW f \in [S -> Int], NEW seq \in Seq(S), NEW e \in S
    PROVE  Summed(f, Append(seq, e)) = Summed(f, seq) + f[e]
<1> DEFINE longer == Append(seq, e)
           a == [n \in 1..Len(seq) |-> f[seq[n]]]
           b == [n \in 1..Len(longer) |-> f[longer[n]]]
<1>1. /\ longer \in Seq(S) /\ Len(longer) = Len(seq) + 1 /\ Len(seq) \in Nat
      /\ \A n \in 1..Len(seq) : longer[n] = seq[n]
      /\ longer[Len(longer)] = e /\ Len(longer) \in 1..Len(longer)
  OBVIOUS
<1> HIDE DEF longer
<1>2. a \in Seq(Int) /\ Len(a) = Len(seq) /\ b \in Seq(Int) /\ Len(b) = Len(longer)
  BY <1>1, SummedType
<1>3. /\ \A n \in 1..Len(a) : b[n] = a[n]
      /\ b[Len(b)] = f[e]
  BY <1>1, <1>2
<1> HIDE DEF a, b
<1>4. Total(b) = Total(a) + f[e]
  BY ZenonT(40), <1>1, <1>2, <1>3, TotalExtended
<1> QED BY <1>4 DEF Summed, a, b, longer

\* other is seq with another element at k, and f gives the amounts of both.
Replaced(S, f, seq, other, k) ==
    /\ f \in [S -> Int]
    /\ seq \in Seq(S) /\ other \in Seq(S) /\ Len(other) = Len(seq) /\ k \in 1..Len(seq)
    /\ \A n \in 1..Len(seq) : n # k => other[n] = seq[n]

LEMMA SummedReplaced ==
    ASSUME NEW S, NEW f, NEW seq, NEW other, NEW k, Replaced(S, f, seq, other, k)
    PROVE  Summed(f, other) = Summed(f, seq) + (f[other[k]] - f[seq[k]])
<1>0. /\ f \in [S -> Int]
      /\ seq \in Seq(S) /\ other \in Seq(S) /\ Len(other) = Len(seq) /\ k \in 1..Len(seq)
      /\ \A n \in 1..Len(seq) : n # k => other[n] = seq[n]
  BY Zenon DEF Replaced
<1> DEFINE a == [n \in 1..Len(seq) |-> f[seq[n]]]
           b == [n \in 1..Len(other) |-> f[other[n]]]
<1>1. a \in Seq(Int) /\ Len(a) = Len(seq) /\ b \in Seq(Int) /\ Len(b) = Len(seq)
  BY <1>0, SummedType
<1>2. /\ \A n \in 1..Len(a) : n # k => b[n] = a[n]
      /\ b[k] = f[other[k]] /\ a[k] = f[seq[k]]
  BY <1>0, <1>1
<1> HIDE DEF a, b
<1>3. Total(b) = Total(a) + (f[other[k]] - f[seq[k]])
  BY SMTT(30), <1>0, <1>1, <1>2, TotalChanged
<1> QED BY <1>3 DEF Summed, a, b

LEMMA SummedZero ==
    ASSUME NEW S, NEW f \in [S -> Int], NEW seq \in Seq(S),
           \A n \in 1..Len(seq) : f[seq[n]] = 0
    PROVE  Summed(f, seq) = 0
<1> DEFINE a == [n \in 1..Len(seq) |-> f[seq[n]]]
<1>1. a \in Seq(Int) /\ Len(a) = Len(seq)
  BY SummedType
<1>2. \A n \in 1..Len(a) : a[n] = 0
  BY <1>1
<1> HIDE DEF a
<1>3. Total(a) = 0
  BY <1>1, <1>2, TotalZero
<1> QED BY <1>3 DEF Summed, a

LEMMA SummedEmpty ==
    ASSUME NEW S, NEW f \in [S -> Int]
    PROVE  Summed(f, <<>>) = 0
<1> DEFINE none == <<>>
<1>1. none \in Seq(S) /\ \A n \in 1..Len(none) : f[none[n]] = 0
  OBVIOUS
<1> HIDE DEF none
<1>2. Summed(f, none) = 0
  BY <1>1, SummedZero
<1> QED BY <1>2 DEF none

-----------------------------------------------------------------------------
(* Quantities and the cost basis.                                          *)

\* A quotient is the number its divisor fits that often.
LEMMA QuotientIs ==
    ASSUME NEW a \in Nat, NEW d \in Nat \ {0}, NEW m \in Nat,
           d * m <= a, a < d * (m + 1)
    PROVE  a \div d = m
<1> DEFINE k == a \div d
           r == a % d
<1>1. k \in Int /\ r \in 0..(d - 1) /\ a = d * k + r
  OBVIOUS
<1> HIDE DEF k, r
<1>2. d * k < d * (m + 1) /\ d * m < d * (k + 1)
  BY <1>1
<1>3. k < m + 1 /\ m < k + 1
  BY <1>1, <1>2
<1> QED BY <1>1, <1>3 DEF k

\* A positive notional is worth at least one atom, at any price.
LEMMA QuantityPositive ==
    ASSUME NEW fill \in Nat \ {0}, NEW price \in Nat \ {0}
    PROVE  Quantity(fill, price) \in Nat \ {0}
<1>1. Unit \in Nat \ {0}
  BY PolicyAssumption
<1>2. fill * Unit \in Nat \ {0}
  BY <1>1
<1> DEFINE a == fill * Unit + price - 1
<1>3. a \in Nat /\ a >= price
  BY <1>2
<1> HIDE DEF a
<1>4. a \div price \in Nat \ {0}
  <2>1. a = price * (a \div price) + (a % price) /\ a % price \in 0..(price - 1)
        /\ a \div price \in Int
    BY <1>3
  <2> QED BY <1>3, <2>1
<1> QED BY <1>4 DEF Quantity, a

\* What a number of atoms is worth buys (or sells) exactly that many.
LEMMA QuantityExact ==
    ASSUME Unit = 1, NEW qty \in Nat, NEW price \in Nat \ {0}
    PROVE  Quantity(qty * price, price) = qty
<1> DEFINE a == qty * price * Unit + price - 1
<1>1. qty * price \in Nat
  OBVIOUS
<1>2. a = qty * price + price - 1
  BY <1>1
<1>3. a \in Nat /\ price * qty <= a /\ a < price * (qty + 1)
  BY <1>1, <1>2
<1> HIDE DEF a
<1>4. a \div price = qty
  BY <1>3, QuotientIs
<1> QED BY <1>4 DEF Quantity, a

\* A proper part of a quantity releases less than the whole of its basis.
LEMMA PartReleasesLess ==
    ASSUME NEW b \in Nat \ {0}, NEW s \in Nat, NEW t \in Nat, s < t
    PROVE  (b * s) \div t \in 0..b /\ (b * s) \div t < b
<1>1. b * s \in Nat /\ b * s < b * t
  OBVIOUS
<1>2. ASSUME NEW a \in Nat, a < b * t PROVE a \div t \in Nat /\ a \div t < b
  <2>1. t > 0 /\ a = t * (a \div t) + (a % t) /\ a % t \in 0..(t-1) /\ a \div t \in Int
    BY <1>2
  <2>2. t * (a \div t) < t * b
    BY <1>2, <2>1
  <2>3. a \div t \in Nat
    BY <1>2
  <2> QED BY <2>1, <2>2, <2>3
<1> QED BY <1>1, <1>2

\* A sale of part of a position releases part of its basis and leaves some.
LEMMA ReleasedBasisBounds ==
    ASSUME NEW p, p.basis \in Nat \ {0}, p.qty \in Nat, NEW q \in 1..p.qty
    PROVE  /\ ReleasedBasis(p, q) \in 0..p.basis
           /\ q = p.qty => ReleasedBasis(p, q) = p.basis
           /\ q < p.qty => ReleasedBasis(p, q) < p.basis
<1>1. CASE q = p.qty
  BY <1>1 DEF ReleasedBasis
<1>2. CASE q < p.qty
  BY <1>2, PartReleasesLess DEF ReleasedBasis
<1> QED BY <1>1, <1>2

\* The fee of a fill, and what it costs in all.
LEMMA CostIsNat ==
    ASSUME NEW fill \in Nat
    PROVE  (fill * SwapFeeBps) \div 10000 + NetworkFee \in Nat
<1>1. fill * SwapFeeBps \in Nat /\ NetworkFee \in Nat
  BY PolicyAssumption
<1>2. ASSUME NEW a \in Nat PROVE a \div 10000 \in Nat
  BY <1>2
<1> QED BY <1>1, <1>2

\* A larger fill costs no less.
LEMMA CostMonotone ==
    ASSUME NEW f \in Nat, NEW g \in Nat, f <= g
    PROVE  (f * SwapFeeBps) \div 10000 <= (g * SwapFeeBps) \div 10000
<1>1. /\ f * SwapFeeBps \in Nat /\ g * SwapFeeBps \in Nat
      /\ f * SwapFeeBps <= g * SwapFeeBps
  BY PolicyAssumption
<1>2. ASSUME NEW a \in Nat, NEW b \in Nat, a <= b PROVE a \div 10000 <= b \div 10000
  BY <1>2
<1> QED BY <1>1, <1>2
=============================================================================
