---------------------------- MODULE ReceiptProofs ----------------------------
(***************************************************************************)
(* What TLAPS proves about ReceiptText, for texts of any length and any    *)
(* lines.                                                                  *)
(*                                                                         *)
(* The two loops are induction enough: what each has done with the lines   *)
(* behind it is an invariant.  Parse's is that items and total are what    *)
(* these lines mean, and its flags what the last line that said something  *)
(* has left (Parsing).  CleanText's is that out is a selection of them     *)
(* which leaves out silent lines only (Keeps); a selection like that has   *)
(* the meaning of the whole.  What is least or greatest in a set comes     *)
(* from NatLessThanWellFounded, whose statement takes a set.               *)
(***************************************************************************)
EXTENDS ReceiptText, TLAPS, SequenceTheorems, FiniteSetTheorems,
        FunctionTheorems, WellFoundedInduction

\* Least and greatest elements.
LEMMA LeastNat ==
  ASSUME NEW T, T \subseteq Nat, T # {}
  PROVE  \E x \in T : \A y \in T : x <= y
<1>1. PICK x \in T : \A y \in T : <<y, x>> \notin OpToRel(<, Nat)
  BY WFMin, NatLessThanWellFounded, Zenon
<1>2. \A y \in T : ~(y < x)
  BY <1>1 DEF OpToRel
<1> QED BY <1>2

LEMMA MinOf ==
  ASSUME NEW T, T \subseteq Nat, T # {}
  PROVE  Min(T) \in T /\ \A y \in T : Min(T) <= y
BY LeastNat, Zenon DEF Min

LEMMA MaxOf ==
  ASSUME NEW n \in Nat, NEW T, T \subseteq 1..n, T # {}
  PROVE  Max(T) \in T /\ \A y \in T : Max(T) >= y
<1> DEFINE U == {k \in 0..n : n - k \in T}
<1>1. PICK t \in T : TRUE
  OBVIOUS
<1>2. n - (n - t) = t /\ n - t \in 0..n
  BY <1>1
<1>3. n - t \in U
  BY <1>1, <1>2
<1>4. PICK u \in U : \A y \in U : u <= y
  <2>1. U \subseteq Nat
    OBVIOUS
  <2>2. U # {}
    BY <1>3
  <2> HIDE DEF U
  <2> QED BY <2>1, <2>2, LeastNat
<1>5. \A y \in T : n - u >= y
  <2> SUFFICES ASSUME NEW y \in T PROVE n - u >= y
    OBVIOUS
  <2>1. n - (n - y) = y /\ n - y \in 0..n
    OBVIOUS
  <2>2. u <= n - y
    BY <1>4, <2>1
  <2> QED BY <2>2, <1>4
<1>6. n - u \in T
  BY <1>4
<1> HIDE DEF U
<1> QED BY <1>5, <1>6, Zenon DEF Max

LEMMA MinIs ==
  ASSUME NEW T, T \subseteq Int, NEW m \in T, \A y \in T : m <= y
  PROVE  Min(T) = m
<1>1. Min(T) \in T /\ \A y \in T : Min(T) <= y
  BY Zenon DEF Min
<1>2. Min(T) \in Int /\ m \in Int /\ Min(T) <= m /\ m <= Min(T)
  BY <1>1
<1> HIDE DEF Min
<1> QED BY <1>2

LEMMA MaxIs ==
  ASSUME NEW T, T \subseteq Int, NEW m \in T, \A y \in T : m >= y
  PROVE  Max(T) = m
<1>1. Max(T) \in T /\ \A y \in T : Max(T) >= y
  BY Zenon DEF Max
<1>2. Max(T) \in Int /\ m \in Int /\ Max(T) >= m /\ m >= Max(T)
  BY <1>1
<1> HIDE DEF Max
<1> QED BY <1>2
-----------------------------------------------------------------------------
\* The last line before i that says something.
LEMMA BeforeOf ==
  ASSUME NEW s, NEW i \in Nat \ {0}
  PROVE  /\ Before(s, i) \in 0..(i - 1)
         /\ Before(s, i) # 0 => Speaks(s[Before(s, i)])
         /\ \A k \in 1..(i - 1) : Speaks(s[k]) => k <= Before(s, i)
<1> DEFINE B == {k \in 1..(i - 1) : Speaks(s[k])}
<1>1. Before(s, i) = IF B = {} THEN 0 ELSE Max(B)
  BY DEF Before
<1>2. CASE B = {}
  BY <1>1, <1>2
<1>3. CASE B # {}
  <2>1. Max(B) \in B /\ \A y \in B : Max(B) >= y
    <3>1. B \subseteq 1..(i - 1) /\ i - 1 \in Nat
      OBVIOUS
    <3> HIDE DEF B
    <3> QED BY <1>3, <3>1, MaxOf
  <2> QED BY <1>1, <1>3, <2>1
<1> QED BY <1>2, <1>3

LEMMA BeforeIs ==
  ASSUME NEW s, NEW i \in Nat \ {0}, NEW b \in 0..(i - 1),
         b # 0 => Speaks(s[b]), \A k \in (b + 1)..(i - 1) : ~Speaks(s[k])
  PROVE  Before(s, i) = b
<1>1. /\ Before(s, i) \in 0..(i - 1)
      /\ Before(s, i) # 0 => Speaks(s[Before(s, i)])
      /\ \A k \in 1..(i - 1) : Speaks(s[k]) => k <= Before(s, i)
  BY BeforeOf
<1>2. Before(s, i) <= b
  BY <1>1
<1>3. b <= Before(s, i)
  BY <1>1
<1> QED BY <1>1, <1>2, <1>3

LEMMA BeforeNext ==
  ASSUME NEW s, NEW n \in Nat \ {0}
  PROVE  Before(s, n + 1) = IF Speaks(s[n]) THEN n ELSE Before(s, n)
<1>1. CASE Speaks(s[n])
  BY <1>1, BeforeIs
<1>2. CASE ~Speaks(s[n])
  <2>1. /\ Before(s, n) \in 0..(n - 1)
        /\ Before(s, n) # 0 => Speaks(s[Before(s, n)])
        /\ \A k \in 1..(n - 1) : Speaks(s[k]) => k <= Before(s, n)
    BY BeforeOf
  <2>2. \A k \in (Before(s, n) + 1)..n : ~Speaks(s[k])
    BY <1>2, <2>1
  <2> QED BY <1>2, <2>1, <2>2, BeforeIs
<1> QED BY <1>1, <1>2

\* What the flags are to be after a line.
LEMMA FlagsNext ==
  ASSUME NEW s, NEW n \in Nat \ {0}
  PROVE  /\ ~Speaks(s[n]) => /\ NameFor(s, n + 1) = NameFor(s, n)
                             /\ PaidBy(s, n + 1) <=> PaidBy(s, n)
         /\ Announces(s[n]) => /\ NameFor(s, n + 1) = s[n].name
                               /\ PaidBy(s, n + 1) <=> s[n].pay
         /\ Speaks(s[n]) /\ ~Announces(s[n]) => /\ NameFor(s, n + 1) = Nothing
                                                /\ ~PaidBy(s, n + 1)
<1>1. Before(s, n + 1) = IF Speaks(s[n]) THEN n ELSE Before(s, n)
  BY BeforeNext
<1>2. Announces(s[n]) => Speaks(s[n])
  BY DEF Announces
<1>3. ASSUME ~Speaks(s[n])
      PROVE  NameFor(s, n + 1) = NameFor(s, n) /\ (PaidBy(s, n + 1) <=> PaidBy(s, n))
  BY <1>1, <1>3, Zenon DEF NameFor, PaidBy, Named
<1>4. ASSUME Speaks(s[n])
      PROVE  Before(s, n + 1) = n /\ n # 0
  BY <1>1, <1>4
<1>5. ASSUME Announces(s[n])
      PROVE  NameFor(s, n + 1) = s[n].name /\ (PaidBy(s, n + 1) <=> s[n].pay)
  BY <1>2, <1>4, <1>5, Zenon DEF NameFor, PaidBy, Named
<1>6. ASSUME Speaks(s[n]), ~Announces(s[n])
      PROVE  NameFor(s, n + 1) = Nothing /\ ~PaidBy(s, n + 1)
  BY <1>4, <1>6, Zenon DEF NameFor, PaidBy, Named
<1> QED BY <1>3, <1>5, <1>6
-----------------------------------------------------------------------------
\* How the meaning of a text grows with a line.
LEMMA SoldFinite ==
  ASSUME NEW s, NEW n \in Nat
  PROVE  /\ IsFiniteSet(Sold(s, n)) /\ Cardinality(Sold(s, n)) \in Nat
         /\ \A i \in Sold(s, n) : Cardinality(Sold(s, i)) \in 1..Cardinality(Sold(s, n))
<1>1. \A m \in Nat : IsFiniteSet(Sold(s, m)) /\ Cardinality(Sold(s, m)) \in Nat
  <2> SUFFICES ASSUME NEW m \in Nat PROVE IsFiniteSet(Sold(s, m)) /\ Cardinality(Sold(s, m)) \in Nat
    OBVIOUS
  <2>1. Sold(s, m) \subseteq 1..m
    BY DEF Sold
  <2>2. IsFiniteSet(1..m)
    BY FS_Interval
  <2>3. IsFiniteSet(Sold(s, m))
    BY <2>1, <2>2, FS_Subset
  <2> QED BY <2>3, FS_CardinalityType
<1>2. SUFFICES ASSUME NEW i \in Sold(s, n)
               PROVE  Cardinality(Sold(s, i)) \in 1..Cardinality(Sold(s, n))
  BY <1>1
<1>3. i \in Nat /\ i \in Sold(s, i) /\ Sold(s, i) \subseteq Sold(s, n)
  BY DEF Sold
<1>4. Cardinality(Sold(s, i)) # 0
  BY <1>1, <1>3, FS_EmptySet
<1>5. Cardinality(Sold(s, i)) <= Cardinality(Sold(s, n))
  BY <1>1, <1>3, FS_Subset
<1> QED BY <1>1, <1>3, <1>4, <1>5

LEMMA MeansSilent ==
  ASSUME NEW s, NEW n \in Nat, NEW its, NEW tot, Means(s, n, its, tot), ~Priced(s[n + 1])
  PROVE  Means(s, n + 1, its, tot)
<1>1. Sold(s, n + 1) = Sold(s, n)
  BY DEF Sold
<1>2. Totals(s, n + 1) = Totals(s, n)
  BY DEF Totals
<1> QED BY <1>1, <1>2, Zenon DEF Means, TotalOf

LEMMA MeansTotal ==
  ASSUME NEW s, NEW n \in Nat, NEW its, NEW tot, Means(s, n, its, tot),
         Priced(s[n + 1]), s[n + 1].total \/ PaidBy(s, n + 1)
  PROVE  Means(s, n + 1, its, Last(s[n + 1].amounts))
<1>1. Sold(s, n + 1) = Sold(s, n)
  BY DEF Sold
<1>2. n + 1 \in Totals(s, n + 1)
  BY DEF Totals
<1>3. Max(Totals(s, n + 1)) = n + 1
  <2>1. Totals(s, n + 1) \subseteq Int /\ \A y \in Totals(s, n + 1) : n + 1 >= y
    BY DEF Totals
  <2> QED BY <1>2, <2>1, MaxIs
<1>4. TotalOf(s, n + 1) = Last(s[n + 1].amounts)
  BY <1>2, <1>3, Zenon DEF TotalOf
<1> QED BY <1>1, <1>4, Zenon DEF Means

LEMMA MeansItem ==
  ASSUME NEW s, NEW n \in Nat, NEW its \in Seq(Items), NEW tot, Means(s, n, its, tot),
         Priced(s[n + 1]), ~s[n + 1].total, ~PaidBy(s, n + 1),
         NEW item \in Items, item = Item(s[n + 1], NameFor(s, n + 1))
  PROVE  Means(s, n + 1, Append(its, item), tot)
<1>1. Sold(s, n + 1) = Sold(s, n) \union {n + 1} /\ n + 1 \notin Sold(s, n)
  BY DEF Sold
<1>2. Totals(s, n + 1) = Totals(s, n)
  BY DEF Totals
<1>3. Cardinality(Sold(s, n + 1)) = Cardinality(Sold(s, n)) + 1
  BY <1>1, SoldFinite, FS_AddElement
<1>4. /\ Len(Append(its, item)) = Cardinality(Sold(s, n + 1))
      /\ Append(its, item)[Cardinality(Sold(s, n + 1))] = item
      /\ \A k \in 1..Cardinality(Sold(s, n)) : Append(its, item)[k] = its[k]
  BY <1>3, AppendProperties DEF Means
<1>5. ASSUME NEW i \in Sold(s, n + 1)
      PROVE  Append(its, item)[Cardinality(Sold(s, i))] = Item(s[i], NameFor(s, i))
  <2>1. CASE i = n + 1
    BY <1>4, <2>1
  <2>2. CASE i # n + 1
    <3>1. i \in Sold(s, n)
      BY <1>1, <2>2
    <3>2. Cardinality(Sold(s, i)) \in 1..Cardinality(Sold(s, n))
      BY <3>1, SoldFinite
    <3> QED BY <1>4, <3>1, <3>2 DEF Means
  <2> QED BY <2>1, <2>2
<1>6. tot = TotalOf(s, n + 1)
  BY <1>2, Zenon DEF Means, TotalOf
<1> QED BY <1>4, <1>5, <1>6 DEF Means
-----------------------------------------------------------------------------
\* t is made of the first n lines of s by leaving out silent ones: the i-th line
\* of t is the f[i]-th of s.
Selects(f, t, s, n) ==
  /\ f \in [1..Len(t) -> 1..n]
  /\ \A i, j \in 1..Len(t) : i < j => f[i] < f[j]
  /\ \A i \in 1..Len(t) : t[i] = s[f[i]]
  /\ \A k \in 1..n : Speaks(s[k]) => \E i \in 1..Len(t) : f[i] = k

Keeps(t, s, n) == \E f : Selects(f, t, s, n)

\* Neighbours stay neighbours.
LEMMA SelectedBefore ==
  ASSUME NEW t, Len(t) \in Nat, NEW s, NEW n \in Nat, NEW f, Selects(f, t, s, n),
         NEW i \in 1..Len(t)
  PROVE  Before(s, f[i]) = IF Before(t, i) = 0 THEN 0 ELSE f[Before(t, i)]
<1> DEFINE b == Before(t, i)
<1>1. /\ b \in 0..(i - 1) /\ (b # 0 => Speaks(t[b]))
      /\ \A k \in 1..(i - 1) : Speaks(t[k]) => k <= b
  BY BeforeOf
<1> HIDE DEF b
<1>2. f[i] \in 1..n
  BY DEF Selects
<1>3. ASSUME NEW k \in 1..(f[i] - 1), Speaks(s[k])
      PROVE  b # 0 /\ k <= f[b]
  <2>1. PICK m \in 1..Len(t) : f[m] = k
    BY <1>2, <1>3 DEF Selects
  <2>2. m < i
    BY <2>1, <1>2 DEF Selects
  <2>3. Speaks(t[m])
    BY <1>3, <2>1 DEF Selects
  <2>4. m <= b
    BY <1>1, <2>2, <2>3
  <2> QED BY <1>1, <2>1, <2>4 DEF Selects
<1>4. CASE b = 0
  <2>1. \A k \in 1..(f[i] - 1) : ~Speaks(s[k])
    BY <1>3, <1>4
  <2>2. Before(s, f[i]) = 0
    BY <1>2, <2>1, BeforeIs
  <2> QED BY <1>4, <2>2 DEF b
<1>5. CASE b # 0
  <2>1. b \in 1..Len(t) /\ b < i
    BY <1>1, <1>5
  <2>2. f[b] \in 1..n /\ f[b] < f[i] /\ Speaks(s[f[b]])
    BY <1>1, <1>5, <2>1, Zenon DEF Selects
  <2>3. \A k \in (f[b] + 1)..(f[i] - 1) : ~Speaks(s[k])
    BY <1>2, <1>3, <2>2
  <2>4. Before(s, f[i]) = f[b]
    BY <1>2, <2>2, <2>3, BeforeIs
  <2> QED BY <1>5, <2>4 DEF b
<1> QED BY <1>4, <1>5

LEMMA SelectedFlags ==
  ASSUME NEW t, Len(t) \in Nat, NEW s, NEW n \in Nat, NEW f, Selects(f, t, s, n),
         NEW i \in 1..Len(t)
  PROVE  NameFor(s, f[i]) = NameFor(t, i) /\ (PaidBy(s, f[i]) <=> PaidBy(t, i))
<1>1. Before(s, f[i]) = IF Before(t, i) = 0 THEN 0 ELSE f[Before(t, i)]
  BY SelectedBefore
<1>2. Before(t, i) \in 0..(i - 1)
  BY BeforeOf
<1>3. CASE Before(t, i) = 0
  BY <1>1, <1>3, Zenon DEF NameFor, PaidBy, Named
<1>4. CASE Before(t, i) # 0
  <2>1. Before(t, i) \in 1..Len(t)
    BY <1>2, <1>4
  <2>2. f[Before(t, i)] # 0 /\ t[Before(t, i)] = s[f[Before(t, i)]]
    BY <2>1 DEF Selects
  <2>3. Before(s, f[i]) = f[Before(t, i)]
    BY <1>1, <1>4
  <2> QED BY <1>4, <2>2, <2>3, Zenon DEF NameFor, PaidBy, Named
<1> QED BY <1>3, <1>4

\* What is sold, and in which order, is the same.
LEMMA SelectedSold ==
  ASSUME NEW t, Len(t) \in Nat, NEW s, NEW n \in Nat, NEW f, Selects(f, t, s, n)
  PROVE  /\ \A i \in 1..Len(t) : i \in Sold(t, Len(t)) <=> f[i] \in Sold(s, n)
         /\ \A i \in 1..Len(t) : i \in Totals(t, Len(t)) <=> f[i] \in Totals(s, n)
         /\ \A k \in Sold(s, n) \union Totals(s, n) : \E i \in 1..Len(t) : f[i] = k
<1>1. ASSUME NEW i \in 1..Len(t)
      PROVE  /\ f[i] \in 1..n /\ t[i] = s[f[i]]
             /\ PaidBy(s, f[i]) <=> PaidBy(t, i)
  <2>1. f[i] \in 1..n /\ t[i] = s[f[i]]
    BY DEF Selects
  <2>2. PaidBy(s, f[i]) <=> PaidBy(t, i)
    BY SelectedFlags, Zenon
  <2> QED BY <2>1, <2>2
<1>2. \A l : Priced(l) => Speaks(l)
  BY DEF Priced, Speaks
<1>3. \A k \in Sold(s, n) \union Totals(s, n) : k \in 1..n /\ Speaks(s[k])
  BY <1>2 DEF Sold, Totals
<1> QED BY <1>1, <1>3, Zenon DEF Sold, Totals, Selects

LEMMA SelectedCount ==
  ASSUME NEW t, Len(t) \in Nat, NEW s, NEW n \in Nat, NEW f, Selects(f, t, s, n),
         NEW i \in 0..Len(t), NEW m \in 0..n,
         \A k \in 1..Len(t) : k <= i <=> f[k] <= m
  PROVE  Cardinality(Sold(s, m)) = Cardinality(Sold(t, i))
<1> DEFINE S == Sold(t, i)
           T == Sold(s, m)
           g == [k \in S |-> f[k]]
<1>1. /\ S = {k \in Sold(t, Len(t)) : k <= i} /\ T = {k \in Sold(s, n) : k <= m}
      /\ S \subseteq 1..Len(t)
  BY DEF Sold
<1>2. \A k \in S : f[k] \in T
  BY <1>1, SelectedSold
<1>3. \A k, l \in S : f[k] = f[l] => k = l
  BY <1>1 DEF Selects
<1>4. \A y \in T : \E k \in S : f[k] = y
  BY <1>1, SelectedSold
<1> HIDE DEF S, T
<1>5. g \in Bijection(S, T)
  BY <1>2, <1>3, <1>4, Fun_IsBij, Zenon
<1>6. ExistsBijection(S, T)
  BY <1>5 DEF ExistsBijection
<1>7. IsFiniteSet(S)
  BY SoldFinite DEF S
<1>8. Cardinality(T) = Cardinality(S)
  BY <1>6, <1>7, FS_Bijection
<1> QED BY <1>8 DEF S, T

\* So a selection means what the whole means.
LEMMA KeepsMeaning ==
  ASSUME NEW t, Len(t) \in Nat, NEW s, NEW n \in Nat, Keeps(t, s, n),
         NEW its, NEW tot, Means(t, Len(t), its, tot)
  PROVE  Means(s, n, its, tot)
<1>1. PICK f : Selects(f, t, s, n)
  BY DEF Keeps
<1>2. \A i \in 1..Len(t) : f[i] \in 1..n /\ t[i] = s[f[i]]
  BY <1>1 DEF Selects
<1>3. \A i, k \in 1..Len(t) : i < k <=> f[i] < f[k]
  BY <1>1, <1>2 DEF Selects
<1>4. /\ \A i \in 1..Len(t) : i \in Sold(t, Len(t)) <=> f[i] \in Sold(s, n)
      /\ \A i \in 1..Len(t) : i \in Totals(t, Len(t)) <=> f[i] \in Totals(s, n)
      /\ \A k \in Sold(s, n) \union Totals(s, n) : \E i \in 1..Len(t) : f[i] = k
  BY <1>1, SelectedSold
<1>5. Cardinality(Sold(s, n)) = Cardinality(Sold(t, Len(t)))
  BY <1>1, <1>2, SelectedCount
<1>6. ASSUME NEW k \in Sold(s, n)
      PROVE  its[Cardinality(Sold(s, k))] = Item(s[k], NameFor(s, k))
  <2>1. PICK i \in 1..Len(t) : f[i] = k
    BY <1>4
  <2>2. i \in Sold(t, Len(t))
    BY <1>4, <2>1
  <2>3. \A l \in 1..Len(t) : l <= i <=> f[l] <= k
    BY <1>2, <1>3, <2>1
  <2>4. Cardinality(Sold(s, k)) = Cardinality(Sold(t, i))
    <3>1. i \in 0..Len(t) /\ k \in 0..n
      BY <1>2, <2>1
    <3> QED BY <1>1, <2>3, <3>1, SelectedCount
  <2>5. NameFor(s, f[i]) = NameFor(t, i)
    BY <1>1, SelectedFlags
  <2>6. NameFor(s, k) = NameFor(t, i) /\ s[k] = t[i]
    BY <1>2, <2>1, <2>5
  <2> QED BY <2>2, <2>4, <2>6 DEF Means
<1>7. tot = TotalOf(s, n)
  <2>1. tot = TotalOf(t, Len(t))
    BY DEF Means
  <2>2. CASE Totals(t, Len(t)) = {}
    <3>1. Totals(s, n) = {}
      BY <1>4, <2>2
    <3> QED BY <2>1, <2>2, <3>1, Zenon DEF TotalOf
  <2>3. CASE Totals(t, Len(t)) # {}
    <3> DEFINE m == Max(Totals(t, Len(t)))
    <3>1. Totals(t, Len(t)) \subseteq 1..Len(t) /\ Totals(s, n) \subseteq Int
      BY DEF Totals
    <3>2. m \in Totals(t, Len(t)) /\ \A y \in Totals(t, Len(t)) : m >= y
      BY <2>3, <3>1, MaxOf
    <3> HIDE DEF m
    <3>3. m \in 1..Len(t) /\ f[m] \in Totals(s, n)
      BY <1>4, <3>1, <3>2
    <3>4. ASSUME NEW y \in Totals(s, n) PROVE f[m] >= y
      <4>1. PICK i \in 1..Len(t) : f[i] = y
        BY <1>4
      <4>2. m >= i
        BY <1>4, <3>2, <4>1
      <4> QED BY <1>2, <1>3, <3>3, <4>1, <4>2
    <3>5. Max(Totals(s, n)) = f[m]
      BY <3>1, <3>3, <3>4, MaxIs
    <3>6. s[f[m]] = t[m]
      BY <1>2, <3>3
    <3> QED BY <2>1, <2>3, <3>3, <3>5, <3>6, Zenon DEF TotalOf, m
  <2> QED BY <2>2, <2>3
<1> QED BY <1>5, <1>6, <1>7 DEF Means
-----------------------------------------------------------------------------
\* Selections: of nothing, of a stretch, one line at a time, of a selection.
LEMMA KeepsNothing ==
  ASSUME NEW s, NEW n \in Nat, \A k \in 1..n : ~Speaks(s[k])
  PROVE  Keeps(<<>>, s, n)
<1> DEFINE f == [i \in 1..Len(<<>>) |-> 0]
<1>1. Len(<<>>) = 0
  OBVIOUS
<1>2. Selects(f, <<>>, s, n)
  BY <1>1 DEF Selects
<1> QED BY <1>2 DEF Keeps

LEMMA KeepsStretch ==
  ASSUME NEW s, NEW n \in Nat, NEW a \in 1..n, NEW b \in a..n, NEW t, Len(t) = b - a + 1,
         \A i \in 1..Len(t) : t[i] = s[a + i - 1],
         \A k \in 1..(a - 1) : ~Speaks(s[k]), \A k \in (b + 1)..n : ~Speaks(s[k])
  PROVE  Keeps(t, s, n)
<1> DEFINE f == [i \in 1..Len(t) |-> a + i - 1]
<1>1. f \in [1..Len(t) -> 1..n]
  OBVIOUS
<1>2. ASSUME NEW k \in 1..n, Speaks(s[k]) PROVE \E i \in 1..Len(t) : f[i] = k
  <2>1. k - a + 1 \in 1..Len(t) /\ a + (k - a + 1) - 1 = k
    BY <1>2
  <2> QED BY <2>1
<1>3. Selects(f, t, s, n)
  BY <1>1, <1>2 DEF Selects
<1> QED BY <1>3, Zenon DEF Keeps

LEMMA KeepsMore ==
  ASSUME NEW t \in Seq(Line), NEW s \in Seq(Line), NEW n \in 0..(Len(s) - 1), Keeps(t, s, n)
  PROVE  /\ Keeps(Append(t, s[n + 1]), s, n + 1)
         /\ ~Speaks(s[n + 1]) => Keeps(t, s, n + 1)
<1>1. PICK f : Selects(f, t, s, n)
  BY DEF Keeps
<1>2. Len(t) \in Nat /\ s[n + 1] \in Line
  BY LenProperties, ElementOfSeq
<1> DEFINE u == Append(t, s[n + 1])
           g == [i \in 1..Len(u) |-> IF i = Len(u) THEN n + 1 ELSE f[i]]
<1>3. /\ Len(u) = Len(t) + 1 /\ u[Len(t) + 1] = s[n + 1]
      /\ \A i \in 1..Len(t) : u[i] = t[i]
  BY <1>2, AppendProperties
<1> HIDE DEF u
<1>4. Selects(g, u, s, n + 1)
  <2>1. g \in [1..Len(u) -> 1..(n + 1)]
    BY <1>1, <1>2, <1>3 DEF Selects
  <2>2. ASSUME NEW i \in 1..Len(u), NEW j \in 1..Len(u), i < j
        PROVE  g[i] < g[j]
    <3>1. i \in 1..Len(t) /\ g[i] = f[i] /\ f[i] \in 1..n
      BY <1>1, <1>2, <1>3, <2>2 DEF Selects
    <3>2. CASE j = Len(u)
      BY <3>1, <3>2
    <3>3. CASE j # Len(u)
      <4>1. j \in 1..Len(t) /\ g[j] = f[j]
        BY <1>2, <1>3, <3>3
      <4> QED BY <1>1, <2>2, <3>1, <4>1 DEF Selects
    <3> QED BY <3>2, <3>3
  <2>3. \A i \in 1..Len(u) : u[i] = s[g[i]]
    BY <1>1, <1>2, <1>3 DEF Selects
  <2>4. ASSUME NEW k \in 1..(n + 1), Speaks(s[k]) PROVE \E i \in 1..Len(u) : g[i] = k
    <3>1. CASE k = n + 1
      <4>1. Len(u) \in 1..Len(u) /\ g[Len(u)] = n + 1
        BY <1>2, <1>3
      <4> QED BY <3>1, <4>1
    <3>2. CASE k # n + 1
      <4>0. k \in 1..n
        BY <3>2
      <4>1. PICK i \in 1..Len(t) : f[i] = k
        BY <1>1, <2>4, <4>0, Zenon DEF Selects
      <4>2. i \in 1..Len(u) /\ g[i] = k
        BY <1>2, <1>3, <4>1
      <4> QED BY <4>2
    <3> QED BY <3>1, <3>2
  <2> HIDE DEF g
  <2> QED BY <2>1, <2>2, <2>3, <2>4, Zenon DEF Selects
<1>5. ASSUME ~Speaks(s[n + 1]) PROVE Selects(f, t, s, n + 1)
  <2>1. f \in [1..Len(t) -> 1..(n + 1)]
    BY <1>1 DEF Selects
  <2>2. ASSUME NEW k \in 1..(n + 1), Speaks(s[k]) PROVE \E i \in 1..Len(t) : f[i] = k
    <3>1. k \in 1..n
      BY <1>5, <2>2
    <3> QED BY <1>1, <2>2, <3>1, Zenon DEF Selects
  <2> QED BY <1>1, <2>1, <2>2, Zenon DEF Selects
<1> QED BY <1>4, <1>5 DEF Keeps, u

LEMMA KeepsTwice ==
  ASSUME NEW t, NEW s, NEW r, NEW n \in Nat, Len(t) \in Nat, Len(s) \in Nat,
         Keeps(t, s, Len(s)), Keeps(s, r, n)
  PROVE  Keeps(t, r, n)
<1>1. PICK f : Selects(f, t, s, Len(s))
  BY DEF Keeps
<1>2. PICK g : Selects(g, s, r, n)
  BY DEF Keeps
<1> DEFINE h == [i \in 1..Len(t) |-> g[f[i]]]
<1>3. \A i \in 1..Len(t) : f[i] \in 1..Len(s)
  BY <1>1 DEF Selects
<1>4. h \in [1..Len(t) -> 1..n] /\ \A i \in 1..Len(t) : t[i] = r[h[i]]
  BY <1>1, <1>2, <1>3 DEF Selects
<1>5. \A i, j \in 1..Len(t) : i < j => h[i] < h[j]
  BY <1>1, <1>2, <1>3 DEF Selects
<1>6. ASSUME NEW k \in 1..n, Speaks(r[k]) PROVE \E i \in 1..Len(t) : h[i] = k
  <2>1. PICK j \in 1..Len(s) : g[j] = k
    BY <1>2, <1>6 DEF Selects
  <2>2. Speaks(s[j])
    BY <1>2, <1>6, <2>1 DEF Selects
  <2>3. PICK i \in 1..Len(t) : f[i] = j
    BY <1>1, <2>2 DEF Selects
  <2> QED BY <2>1, <2>3
<1>7. Selects(h, t, r, n)
  BY <1>4, <1>5, <1>6 DEF Selects
<1> QED BY <1>7, Zenon DEF Keeps
-----------------------------------------------------------------------------
\* The lines that are left out anywhere: they say nothing.
LEMMA QuietLines ==
  ASSUME NEW s \in Seq(Line), NEW k \in 1..Len(s), s[k].sort \in {"blank", "rule"}
  PROVE  ~Speaks(s[k])
<1>1. s[k] \in Line
  BY ElementOfSeq
<1> QED BY <1>1 DEF Line, Speaks, Plain

\* Trim: from the first line that is not blank to the last.
LEMMA TrimIs ==
  ASSUME NEW s \in Seq(Line)
  PROVE  /\ Trim(s) \in Seq(Line)
         /\ \/ Trim(s) = <<>> /\ \A k \in 1..Len(s) : s[k].sort = "blank"
            \/ \E a \in 1..Len(s) : \E b \in a..Len(s) :
                 /\ Len(Trim(s)) = b - a + 1
                 /\ \A i \in 1..(b - a + 1) : Trim(s)[i] = s[a + i - 1]
                 /\ s[a].sort # "blank" /\ s[b].sort # "blank"
                 /\ \A k \in 1..(a - 1) : s[k].sort = "blank"
                 /\ \A k \in (b + 1)..Len(s) : s[k].sort = "blank"
<1> DEFINE T == {i \in 1..Len(s) : s[i].sort # "blank"}
<1>1. Trim(s) = IF T = {} THEN <<>> ELSE SubSeq(s, Min(T), Max(T))
  BY DEF Trim
<1>2. Len(s) \in Nat /\ \A k \in 1..Len(s) : s[k] \in Line
  BY LenProperties, ElementOfSeq
<1>3. CASE T = {}
  BY <1>1, <1>3, EmptySeq
<1>4. CASE T # {}
  <2>1. /\ Min(T) \in T /\ \A y \in T : Min(T) <= y
        /\ Max(T) \in T /\ \A y \in T : Max(T) >= y
    <3>1. T \subseteq Nat /\ T \subseteq 1..Len(s)
      BY <1>2
    <3> HIDE DEF T
    <3> QED BY <1>2, <1>4, <3>1, MinOf, MaxOf
  <2> DEFINE a == Min(T)
             b == Max(T)
  <2>2. a \in 1..Len(s) /\ b \in a..Len(s) /\ s[a].sort # "blank" /\ s[b].sort # "blank"
    <3> HIDE DEF a, b
    <3> QED BY <1>2, <2>1 DEF a, b
  <2>3. \A k \in 1..Len(s) : s[k].sort # "blank" => a <= k /\ k <= b
    BY <2>1
  <2> HIDE DEF a, b
  <2>4. Trim(s) = SubSeq(s, a, b)
    BY <1>1, <1>4 DEF a, b
  <2>5. /\ SubSeq(s, a, b) \in Seq(Line) /\ Len(SubSeq(s, a, b)) = b - a + 1
        /\ \A i \in 1..(b - a + 1) : SubSeq(s, a, b)[i] = s[a + i - 1]
    <3>1. a \in Int /\ b \in Int /\ a <= b /\ \A k \in a..b : s[k] \in Line
      BY <1>2, <2>2
    <3> QED BY <3>1, SubSeqProperties
  <2>6. /\ \A k \in 1..(a - 1) : s[k].sort = "blank"
        /\ \A k \in (b + 1)..Len(s) : s[k].sort = "blank"
    BY <1>2, <2>2, <2>3
  <2> QED BY <2>2, <2>4, <2>5, <2>6
<1> QED BY <1>3, <1>4

LEMMA TrimSpan ==
  ASSUME NEW s \in Seq(Line), NEW p \in 1..Len(s), s[p].sort # "blank"
  PROVE  \E a, b \in 1..Len(s) :
           /\ a <= p /\ p <= b
           /\ Len(Trim(s)) = b - a + 1
           /\ \A i \in 1..(b - a + 1) : Trim(s)[i] = s[a + i - 1]
           /\ s[a].sort # "blank" /\ s[b].sort # "blank"
           /\ \A k \in 1..(a - 1) : s[k].sort = "blank"
           /\ \A k \in (b + 1)..Len(s) : s[k].sort = "blank"
<1>1. PICK a \in 1..Len(s) : \E b \in a..Len(s) :
        /\ Len(Trim(s)) = b - a + 1
        /\ \A i \in 1..(b - a + 1) : Trim(s)[i] = s[a + i - 1]
        /\ s[a].sort # "blank" /\ s[b].sort # "blank"
        /\ \A k \in 1..(a - 1) : s[k].sort = "blank"
        /\ \A k \in (b + 1)..Len(s) : s[k].sort = "blank"
  BY TrimIs, Zenon
<1>2. PICK b \in a..Len(s) :
        /\ Len(Trim(s)) = b - a + 1
        /\ \A i \in 1..(b - a + 1) : Trim(s)[i] = s[a + i - 1]
        /\ s[a].sort # "blank" /\ s[b].sort # "blank"
        /\ \A k \in 1..(a - 1) : s[k].sort = "blank"
        /\ \A k \in (b + 1)..Len(s) : s[k].sort = "blank"
  BY <1>1
<1>3. b \in 1..Len(s) /\ Len(s) \in Nat
  BY LenProperties
<1>4. a <= p
  <2> SUFFICES ASSUME ~(a <= p) PROVE p \in 1..(a - 1)
    BY <1>2
  <2> QED BY <1>3
<1>5. p <= b
  <2> SUFFICES ASSUME ~(p <= b) PROVE p \in (b + 1)..Len(s)
    BY <1>2
  <2> QED BY <1>3
<1> QED BY <1>2, <1>3, <1>4, <1>5, Zenon

LEMMA TrimKeeps ==
  ASSUME NEW s \in Seq(Line)
  PROVE  Trim(s) \in Seq(Line) /\ Keeps(Trim(s), s, Len(s))
<1>1. Len(s) \in Nat /\ \A k \in 1..Len(s) : s[k] \in Line
  BY LenProperties, ElementOfSeq
<1>2. \A k \in 1..Len(s) : s[k].sort = "blank" => ~Speaks(s[k])
  BY <1>1, QuietLines
<1>3. CASE Trim(s) = <<>> /\ \A k \in 1..Len(s) : s[k].sort = "blank"
  BY <1>1, <1>2, <1>3, KeepsNothing, TrimIs
<1>4. ASSUME NEW a \in 1..Len(s), NEW b \in a..Len(s),
             Len(Trim(s)) = b - a + 1,
             \A i \in 1..(b - a + 1) : Trim(s)[i] = s[a + i - 1],
             \A k \in 1..(a - 1) : s[k].sort = "blank",
             \A k \in (b + 1)..Len(s) : s[k].sort = "blank"
      PROVE  Keeps(Trim(s), s, Len(s))
  <2>1. /\ \A k \in 1..(a - 1) : ~Speaks(s[k])
        /\ \A k \in (b + 1)..Len(s) : ~Speaks(s[k])
    BY <1>1, <1>2, <1>4
  <2> QED BY <1>1, <1>4, <2>1, KeepsStretch
<1> QED BY <1>3, <1>4, TrimIs

\* Strip: up to the last line that is neither blank nor a rule.
LEMMA StripKeeps ==
  ASSUME NEW s \in Seq(Line)
  PROVE  Strip(s) \in Seq(Line) /\ Keeps(Strip(s), s, Len(s))
<1> DEFINE T == {i \in 1..Len(s) : s[i].sort \notin {"blank", "rule"}}
<1>1. Len(s) \in Nat /\ \A k \in 1..Len(s) : s[k] \in Line
  BY LenProperties, ElementOfSeq
<1>2. Strip(s) = IF T = {} THEN <<>> ELSE SubSeq(s, 1, Max(T))
  BY DEF Strip
<1>3. \A k \in 1..Len(s) : k \notin T => ~Speaks(s[k])
  BY <1>1, QuietLines
<1>4. CASE T = {}
  BY <1>1, <1>2, <1>3, <1>4, EmptySeq, KeepsNothing
<1>5. CASE T # {}
  <2> DEFINE b == Max(T)
  <2>1. T \subseteq 1..Len(s)
    OBVIOUS
  <2> HIDE DEF T, b
  <2>2. b \in T /\ \A y \in T : b >= y
    BY <1>1, <1>5, <2>1, MaxOf DEF b
  <2>3. Strip(s) = SubSeq(s, 1, b)
    BY <1>2, <1>5 DEF b
  <2>4. /\ SubSeq(s, 1, b) \in Seq(Line) /\ Len(SubSeq(s, 1, b)) = b - 1 + 1
        /\ \A i \in 1..(b - 1 + 1) : SubSeq(s, 1, b)[i] = s[1 + i - 1]
    <3>1. 1 \in Int /\ b \in Int /\ 1 <= b /\ \A k \in 1..b : s[k] \in Line
      BY <1>1, <2>1, <2>2
    <3> QED BY <3>1, SubSeqProperties
  <2>5. \A k \in (b + 1)..Len(s) : ~Speaks(s[k])
    BY <1>1, <1>3, <2>1, <2>2
  <2>6. 1 \in 1..Len(s) /\ b \in 1..Len(s) /\ \A k \in 1..(1 - 1) : ~Speaks(s[k])
    BY <1>1, <2>1, <2>2
  <2> QED BY <1>1, <2>3, <2>4, <2>5, <2>6, KeepsStretch
<1> QED BY <1>4, <1>5
-----------------------------------------------------------------------------
\* trimOCRFences.
LEMMA TextOnly ==
  ASSUME NEW t \in Seq(Line), t # <<>>, Head(t).sort = "fence"
  PROVE  [t EXCEPT ![1].sort = "text"] \in Seq(Line)
<1>1. Len(t) \in Nat \ {0} /\ t[1] \in Line
  BY EmptySeq, ElementOfSeq
<1>2. [t[1] EXCEPT !.sort = "text"] \in Line
  BY <1>1 DEF Line
<1>3. [t EXCEPT ![1] = [t[1] EXCEPT !.sort = "text"]] \in Seq(Line)
  BY <1>1, <1>2, ExceptSeq
<1> QED BY <1>3

LEMMA Beginning ==
  ASSUME NEW u \in Seq(Line), NEW m \in 0..Len(u)
  PROVE  /\ SubSeq(u, 1, m) \in Seq(Line) /\ Len(SubSeq(u, 1, m)) = m
         /\ \A k \in 1..m : SubSeq(u, 1, m)[k] = u[k]
<1>1. Len(u) \in Nat /\ \A k \in 1..m : u[k] \in Line
  BY LenProperties, ElementOfSeq
<1>2. /\ SubSeq(u, 1, m) \in Seq(Line) /\ Len(SubSeq(u, 1, m)) = IF 1 <= m THEN m - 1 + 1 ELSE 0
      /\ \A i \in 1..(m - 1 + 1) : SubSeq(u, 1, m)[i] = u[1 + i - 1]
  BY <1>1, SubSeqProperties
<1>3. \A k \in 1..m : SubSeq(u, 1, m)[k] = u[k]
  <2> SUFFICES ASSUME NEW k \in 1..m PROVE SubSeq(u, 1, m)[k] = u[k]
    OBVIOUS
  <2>1. k \in 1..(m - 1 + 1) /\ 1 + k - 1 = k
    BY <1>1
  <2> QED BY <1>2, <2>1
<1> QED BY <1>1, <1>2, <1>3

LEMMA TrimFencesType ==
  ASSUME NEW s \in Seq(Line)
  PROVE  TrimFences(s) \in Seq(Line)
<1>1. ASSUME NEW t \in Seq(Line) PROVE Open(t) \in Seq(Line)
  <2>1. CASE t = <<>> \/ Head(t).sort # "fence"
    BY <2>1 DEF Open
  <2>2. CASE t # <<>> /\ Head(t).sort = "fence"
    <3>1. Tail(t) \in Seq(Line)
      BY <2>2, HeadTailProperties
    <3>2. Trim(Tail(t)) \in Seq(Line) /\ [t EXCEPT ![1].sort = "text"] \in Seq(Line)
      BY <2>2, <3>1, TrimIs, TextOnly
    <3> QED BY <2>2, <3>2 DEF Open
  <2> QED BY <2>1, <2>2
<1>2. ASSUME NEW u \in Seq(Line) PROVE Cut(u) \in Seq(Line)
  <2> DEFINE F == {i \in 2..Len(u) : u[i].sort = "fence"}
  <2>1. Cut(u) = IF F = {} THEN u ELSE Trim(SubSeq(u, 1, Min(F) - 1))
    BY DEF Cut
  <2>2. CASE F = {}
    BY <2>1, <2>2
  <2>3. CASE F # {}
    <3>1. F \subseteq Nat /\ F \subseteq 2..Len(u) /\ Len(u) \in Nat
      BY LenProperties
    <3> HIDE DEF F
    <3>2. Min(F) \in F
      BY <2>3, <3>1, MinOf
    <3>3. Min(F) \in 2..Len(u) /\ Min(F) - 1 \in 0..Len(u)
      <4>1. Min(F) \in 2..Len(u)
        BY <3>1, <3>2, Zenon
      <4> QED BY <3>1, <4>1
    <3>4. Trim(SubSeq(u, 1, Min(F) - 1)) \in Seq(Line)
      BY <3>3, Beginning, TrimIs
    <3> QED BY <2>1, <2>3, <3>4
  <2> QED BY <2>2, <2>3
<1>3. Trim(s) \in Seq(Line)
  BY TrimIs
<1> QED BY <1>1, <1>2, <1>3 DEF TrimFences

LEMMA Unfenced ==
  ASSUME NEW s \in Seq(Line), Fences(s) = {}
  PROVE  TrimFences(s) = Trim(s)
<1>1. Len(s) \in Nat /\ \A k \in 1..Len(s) : s[k].sort # "fence"
  BY LenProperties DEF Fences
<1>2. \A k \in 1..Len(Trim(s)) : Trim(s)[k].sort # "fence"
  <2>1. CASE Trim(s) = <<>>
    BY <2>1
  <2>2. ASSUME NEW a \in 1..Len(s), NEW b \in a..Len(s), Len(Trim(s)) = b - a + 1,
               \A i \in 1..(b - a + 1) : Trim(s)[i] = s[a + i - 1]
        PROVE  \A k \in 1..Len(Trim(s)) : Trim(s)[k].sort # "fence"
    <3>1. \A k \in 1..Len(Trim(s)) : a + k - 1 \in 1..Len(s)
      BY <1>1, <2>2
    <3> QED BY <1>1, <2>2, <3>1
  <2> QED BY <2>1, <2>2, TrimIs
<1>3. Trim(s) \in Seq(Line) /\ Len(Trim(s)) \in Nat /\ (Trim(s) # <<>> => Len(Trim(s)) # 0)
  BY TrimIs, LenProperties, EmptySeq
<1>4. Open(Trim(s)) = Trim(s)
  <2>1. Trim(s) # <<>> => Head(Trim(s)) = Trim(s)[1]
    BY <1>3
  <2> QED BY <1>2, <1>3, <2>1 DEF Open
<1>5. Cut(Trim(s)) = Trim(s)
  BY <1>2, <1>3 DEF Cut
<1> QED BY <1>4, <1>5 DEF TrimFences

\* Of what stands between two fences, nothing that speaks is lost.
LEMMA Fenced ==
  ASSUME NEW s \in Seq(Line), NEW i \in 1..Len(s), NEW j \in 1..Len(s), Encloses(s, i, j)
  PROVE  /\ SubSeq(s, i + 1, j - 1) \in Seq(Line) /\ Len(SubSeq(s, i + 1, j - 1)) = j - i - 1
         /\ Keeps(TrimFences(s), SubSeq(s, i + 1, j - 1), j - i - 1)
<1> DEFINE w == SubSeq(s, i + 1, j - 1)
<1>1. /\ Len(s) \in Nat /\ \A k \in 1..Len(s) : s[k] \in Line
      /\ i < j /\ Bare(s[i]) /\ s[i].sort = "fence" /\ s[j].sort = "fence"
      /\ \A k \in 1..(i - 1) : s[k].sort = "blank"
      /\ \A k \in (i + 1)..(j - 1) : s[k].sort # "fence"
  BY LenProperties, ElementOfSeq DEF Encloses, Bare
<1>2. PICK p \in (i + 1)..(j - 1) : s[p].sort # "blank"
  BY DEF Encloses
<1>3. /\ w \in Seq(Line) /\ Len(w) = j - i - 1
      /\ \A k \in 1..(j - i - 1) : w[k] = s[i + k]
  <2>1. \A k \in (i + 1)..(j - 1) : s[k] \in Line
    BY <1>1
  <2>2. /\ w \in Seq(Line)
        /\ Len(w) = IF i + 1 <= j - 1 THEN (j - 1) - (i + 1) + 1 ELSE 0
        /\ \A k \in 1..((j - 1) - (i + 1) + 1) : w[k] = s[(i + 1) + k - 1]
    BY <2>1, SubSeqProperties
  <2>3. (j - 1) - (i + 1) + 1 = j - i - 1 /\ i + 1 <= j - 1
    BY <1>2
  <2>4. ASSUME NEW k \in 1..(j - i - 1) PROVE w[k] = s[i + k]
    <3>1. (i + 1) + k - 1 = i + k
      OBVIOUS
    <3> QED BY <2>2, <2>3, <3>1
  <2> HIDE DEF w
  <2> QED BY <2>2, <2>3, <2>4
<1> HIDE DEF w
\* The text starts with the first fence.
<1>4. PICK b \in j..Len(s) :
        /\ s[b].sort # "blank" /\ Len(Trim(s)) = b - i + 1
        /\ \A k \in 1..(b - i + 1) : Trim(s)[k] = s[i + k - 1]
  <2>1. i \in 1..Len(s) /\ s[i].sort # "blank" /\ s[j].sort # "blank"
    BY <1>1
  <2>2. PICK a \in 1..Len(s), b \in 1..Len(s) :
          /\ a <= i /\ i <= b
          /\ Len(Trim(s)) = b - a + 1
          /\ \A k \in 1..(b - a + 1) : Trim(s)[k] = s[a + k - 1]
          /\ s[a].sort # "blank" /\ s[b].sort # "blank"
          /\ \A k \in 1..(a - 1) : s[k].sort = "blank"
          /\ \A k \in (b + 1)..Len(s) : s[k].sort = "blank"
    BY <2>1, TrimSpan
  <2>3. a = i
    <3>1. a \notin 1..(i - 1)
      BY <1>1, <2>2
    <3> QED BY <1>1, <2>2, <3>1
  <2>4. b \in j..Len(s)
    <3>1. j \notin (b + 1)..Len(s)
      BY <2>1, <2>2
    <3> QED BY <1>1, <2>2, <3>1
  <2> QED BY <2>2, <2>3, <2>4
<1> DEFINE t == Trim(s)
           r == Tail(t)
<1>5. /\ t \in Seq(Line) /\ t # <<>> /\ Head(t) = s[i]
      /\ r \in Seq(Line) /\ Len(r) = b - i
      /\ \A k \in 1..(b - i) : r[k] = s[i + k]
  <2>1. t \in Seq(Line) /\ Len(t) = b - i + 1 /\ b - i + 1 > 0
    BY <1>1, <1>4, TrimIs
  <2> HIDE DEF t
  <2>2. t # <<>> /\ Head(t) = t[1]
    BY <2>1
  <2>3. r \in Seq(Line) /\ Len(r) = Len(t) - 1 /\ \A k \in 1..Len(r) : r[k] = t[k + 1]
    BY <2>1, <2>2, HeadTailProperties
  <2> HIDE DEF r
  <2>4. t[1] = s[i]
    BY <1>1, <1>4, <2>1 DEF t
  <2>5. ASSUME NEW k \in 1..(b - i) PROVE r[k] = s[i + k]
    <3>1. k + 1 \in 1..(b - i + 1) /\ i + (k + 1) - 1 = i + k /\ k \in 1..Len(r)
      BY <1>1, <2>1, <2>3
    <3> QED BY <1>4, <2>3, <3>1 DEF t
  <2> QED BY <1>1, <2>1, <2>2, <2>3, <2>4, <2>5
<1> HIDE DEF t, r
<1>6. Open(t) = Trim(r)
  BY <1>1, <1>5 DEF Open, r
\* Behind it, the text starts with a line between the fences.
<1> DEFINE u == Trim(r)
<1>7. PICK a \in 1..(j - i - 1), c \in (j - i)..(b - i) :
        /\ Len(u) = c - a + 1
        /\ \A k \in 1..(c - a + 1) : u[k] = s[i + a + k - 1]
        /\ \A k \in 1..(a - 1) : s[i + k].sort = "blank"
  <2>1. /\ p - i \in 1..(b - i) /\ j - i \in 1..(b - i) /\ b - i \in Nat
        /\ r[p - i] = s[p] /\ r[j - i] = s[j]
    <3>1. p - i \in 1..(b - i) /\ j - i \in 1..(b - i) /\ i + (p - i) = p /\ i + (j - i) = j
      <4>1. /\ i \in Int /\ j \in Int /\ p \in Int /\ b \in Int
            /\ i < p /\ p < j /\ j <= b
        BY <1>1
      <4> QED BY <4>1
    <3>2. r[p - i] = s[i + (p - i)] /\ r[j - i] = s[i + (j - i)]
      BY <1>5, <3>1, Zenon
    <3>3. b - i \in Nat
      BY <1>1, <1>4
    <3>4. r[p - i] = s[p] /\ r[j - i] = s[j]
      BY <3>1, <3>2
    <3> QED BY <3>1, <3>3, <3>4
  <2>2. r[p - i].sort # "blank" /\ r[j - i].sort # "blank"
    BY <1>1, <1>2, <2>1
  <2>3. PICK a \in 1..Len(r), c \in 1..Len(r) :
          /\ a <= p - i /\ p - i <= c /\ Len(u) = c - a + 1
          /\ \A k \in 1..(c - a + 1) : u[k] = r[a + k - 1]
          /\ r[a].sort # "blank" /\ r[c].sort # "blank"
          /\ \A k \in 1..(a - 1) : r[k].sort = "blank"
          /\ \A k \in (c + 1)..Len(r) : r[k].sort = "blank"
    <3>1. p - i \in 1..Len(r)
      BY <1>5, <2>1
    <3>2. r \in Seq(Line)
      BY <1>5
    <3>3. r[p - i].sort # "blank"
      BY <2>2
    <3> QED BY <3>1, <3>2, <3>3, TrimSpan, ZenonT(30)
  <2>4. a \in 1..(b - i) /\ c \in 1..(b - i) /\ Len(r) = b - i
    BY <1>5
  <2> HIDE DEF u
  <2>5. j - i <= c
    <3>1. j - i \notin (c + 1)..(b - i)
      BY <2>2, <2>3, <2>4
    <3> QED BY <1>1, <2>1, <2>3, <2>4, <3>1
  <2>6. ASSUME NEW k \in 1..(c - a + 1) PROVE u[k] = s[i + a + k - 1]
    <3>1. a + k - 1 \in 1..(b - i) /\ i + (a + k - 1) = i + a + k - 1
      <4>1. /\ i \in Int /\ b \in Int /\ a \in Int /\ c \in Int
            /\ 1 <= a /\ c <= b - i /\ k \in 1..(c - a + 1)
        BY <1>1, <1>4, <2>1, <2>4
      <4>2. a + k - 1 \in 1..(b - i)
        BY <4>1
      <4>3. i + (a + k - 1) = i + a + k - 1
        BY <4>1
      <4> QED BY <4>2, <4>3, Zenon
    <3> QED BY <1>5, <2>3, <2>4, <3>1
  <2>7. ASSUME NEW k \in 1..(a - 1) PROVE s[i + k].sort = "blank"
    <3>1. k \in 1..(b - i)
      BY <2>1, <2>3, <2>4
    <3> QED BY <1>5, <2>3, <2>4, <3>1
  <2>8. a \in 1..(j - i - 1) /\ c \in (j - i)..(b - i)
    BY <1>1, <1>2, <2>1, <2>3, <2>4, <2>5
  <2> QED BY <2>3, <2>4, <2>6, <2>7, <2>8
<1>8. u \in Seq(Line)
  BY <1>5, TrimIs
<1> HIDE DEF u
\* The next fence is the second one.
<1> DEFINE m == j - i - a
           v == SubSeq(u, 1, m)
           F == {k \in 2..Len(u) : u[k].sort = "fence"}
<1>9. m + 1 \in F /\ \A k \in F : m + 1 <= k
  <2>1. m + 1 \in 2..Len(u) /\ m + 1 \in 1..(c - a + 1) /\ i + a + (m + 1) - 1 = j
    <3>1. /\ a \in Int /\ c \in Int /\ i \in Int /\ j \in Int /\ 1 <= a
          /\ a <= j - i - 1 /\ j - i <= c /\ Len(u) = c - a + 1
      BY <1>1, <1>7
    <3> HIDE DEF F
    <3> QED BY <3>1
  <2>2. u[m + 1] = s[j]
    BY <1>7, <2>1
  <2>3. ASSUME NEW k \in 2..Len(u), k <= m PROVE u[k].sort # "fence"
    <3>1. k \in 1..(c - a + 1) /\ i + a + k - 1 \in (i + 1)..(j - 1)
      BY <1>1, <1>7, <2>3
    <3>2. u[k] = s[i + a + k - 1]
      BY <1>7, <3>1
    <3> QED BY <1>1, <3>1, <3>2
  <2> QED BY <1>1, <2>1, <2>2, <2>3
<1>10. Min(F) = m + 1 /\ F # {}
  <2>1. F \subseteq Int
    OBVIOUS
  <2> HIDE DEF F, m
  <2> QED BY <1>9, <2>1, MinIs
<1>11. m \in Int /\ (m + 1) - 1 = m
  OBVIOUS
<1>12. TrimFences(s) = Trim(v)
  <2>1. Cut(u) = IF F = {} THEN u ELSE Trim(SubSeq(u, 1, Min(F) - 1))
    BY DEF Cut
  <2> HIDE DEF F, m
  <2> QED BY <1>6, <1>10, <1>11, <2>1 DEF TrimFences, u, t
\* What is cut there is a stretch of what stands between the two.
<1>13. /\ v \in Seq(Line) /\ Len(v) = m
       /\ \A k \in 1..m : v[k] = u[k]
  <2>1. m \in 0..Len(u)
    BY <1>1, <1>7
  <2> HIDE DEF m
  <2> QED BY <1>8, <2>1, Beginning
<1>14. Keeps(v, w, j - i - 1)
  <2>1. ASSUME NEW k \in 1..m PROVE v[k] = w[a + k - 1]
    <3>1. k \in 1..(c - a + 1) /\ a + k - 1 \in 1..(j - i - 1) /\ i + (a + k - 1) = i + a + k - 1
      BY <1>1, <1>7
    <3>2. u[k] = s[i + a + k - 1] /\ w[a + k - 1] = s[i + (a + k - 1)]
      BY <1>3, <1>7, <3>1
    <3> QED BY <1>13, <3>1, <3>2
  <2>2. ASSUME NEW k \in 1..(a - 1) PROVE ~Speaks(w[k])
    <3>1. k \in 1..(j - i - 1) /\ k \in 1..Len(w)
      BY <1>3, <1>7
    <3>2. w[k].sort = "blank"
      BY <1>3, <1>7, <3>1
    <3> QED BY <1>3, <3>1, <3>2, QuietLines
  <2>3. j - i - 1 \in Nat /\ m = (j - i - 1) - a + 1 /\ j - i - 1 \in a..(j - i - 1)
    BY <1>1, <1>7
  <2>4. \A k \in ((j - i - 1) + 1)..(j - i - 1) : ~Speaks(w[k])
    OBVIOUS
  <2> HIDE DEF m, v
  <2> QED BY <1>7, <1>13, <2>1, <2>2, <2>3, <2>4, KeepsStretch
<1>15. Keeps(Trim(v), v, Len(v)) /\ Trim(v) \in Seq(Line)
  BY <1>13, TrimKeeps
<1>16. Keeps(Trim(v), w, j - i - 1)
  <2>1. Len(v) \in Nat /\ Len(Trim(v)) \in Nat /\ j - i - 1 \in Nat
    BY <1>1, <1>7, <1>13, <1>15, LenProperties
  <2> HIDE DEF v
  <2> QED BY <1>14, <1>15, <2>1, KeepsTwice
<1> QED BY <1>3, <1>12, <1>16 DEF w
-----------------------------------------------------------------------------
\* Types.
LEMMA NextLine ==
  ASSUME TypeOK, NEW loop, NEW l, Reads(loop, l)
  PROVE  /\ l \in Line /\ l = lines[at + 1]
         /\ at \in 0..(Len(lines) - 1) /\ at' \in 1..Len(lines) /\ at' = at + 1
         /\ stage = loop /\ UNCHANGED <<raw, stage, lines>>
<1>1. Len(lines) \in Nat
  BY LenProperties DEF TypeOK
<1>2. at \in 0..(Len(lines) - 1) /\ at + 1 \in 1..Len(lines)
  BY <1>1 DEF TypeOK, Reads
<1>3. lines[at + 1] \in Line
  BY <1>2, ElementOfSeq DEF TypeOK
<1> QED BY <1>2, <1>3 DEF Reads

LEMMA ItemType ==
  ASSUME NEW l \in Line, l.amounts # <<>>, NEW d \in Names \union {Nothing}
  PROVE  Item(l, d) \in Items /\ Last(l.amounts) \in Nat
<1>1. l.amounts \in Seq(Nat) /\ l.qty \in Nat /\ l.name \in Names \union {Nothing}
  BY DEF Line
<1>2. Len(l.amounts) \in Nat \ {0} /\ Head(l.amounts) \in Nat
  BY <1>1, EmptySeq, HeadTailProperties
<1>3. Last(l.amounts) \in Nat
  BY <1>1, <1>2, ElementOfSeq DEF Last
<1> DEFINE qty == IF l.qty = 0 THEN 1 ELSE l.qty
<1>4. qty \in Nat
  BY <1>1
<1>5. Head(l.amounts) * qty \in Nat
  <2> SUFFICES ASSUME NEW x \in Nat, NEW y \in Nat PROVE x * y \in Nat
    BY <1>2, <1>4
  <2> QED OBVIOUS
<1> HIDE DEF qty
<1>6. Item(l, d) = [name |-> IF l.name = Nothing THEN d ELSE l.name, qty |-> qty,
                    unit |-> Head(l.amounts),
                    amount |-> IF Len(l.amounts) = 1 THEN Head(l.amounts) * qty
                               ELSE Last(l.amounts)]
  BY Zenon DEF Item, qty
<1> QED BY <1>1, <1>2, <1>3, <1>4, <1>5, <1>6 DEF Items

LEMMA ReceiptTypeInit == Init => TypeOK
<1> SUFFICES ASSUME Init PROVE TypeOK
  OBVIOUS
<1>1. raw \in Seq(Line)
  <2>1. PICK n \in Nat : raw \in [1..n -> Lines]
    BY LinesAssumption DEF Init, BoundedSeq, SeqOf
  <2>2. raw \in [1..n -> Line]
    BY <2>1, LinesAssumption
  <2> QED BY <2>2, SeqDef
<1>2. lines \in Seq(Line) /\ Len(lines) \in Nat
  <2>1. lines \in Seq(Line)
    BY <1>1, TrimFencesType DEF Init
  <2> QED BY <2>1, LenProperties
<1>3. at \in 0..Len(lines)
  BY <1>2 DEF Init
<1>4. out \in Seq(Line) /\ items \in Seq(Items)
  BY EmptySeq DEF Init
<1>5. ~pending /\ desc = Nothing /\ total = Nothing /\ last = "start" /\ stage = "clean"
  BY DEF Init
<1> QED BY <1>1, <1>2, <1>3, <1>4, <1>5 DEF Init, TypeOK

LEMMA ReceiptTypeStep == TypeOK /\ [Next]_vars => TypeOK'
<1> SUFFICES ASSUME TypeOK, [Next]_vars PROVE TypeOK'
  OBVIOUS
<1> USE DEF TypeOK
<1>1. CASE UNCHANGED vars
  BY <1>1 DEF vars
<1>2. ASSUME NEW l, KeepLine(l) PROVE TypeOK'
  <2>1. l \in Line /\ at' \in 1..Len(lines) /\ UNCHANGED <<raw, stage, lines>>
    BY <1>2, NextLine DEF KeepLine
  <2>2. out' \in Seq(Line) /\ l.sort \in {"blank", "rule", "fence", "meta", "text"}
    BY <1>2, <2>1, AppendProperties DEF KeepLine, Line
  <2> QED BY <1>2, <2>1, <2>2 DEF KeepLine, parseVars
<1>3. ASSUME NEW l, SkipLine(l) PROVE TypeOK'
  <2>1. at' \in 1..Len(lines) /\ UNCHANGED <<raw, stage, lines>>
    BY <1>3, NextLine DEF SkipLine
  <2> QED BY <1>3, <2>1 DEF SkipLine, cleanVars, parseVars
<1>4. ASSUME NEW l, ParseLine(l) PROVE TypeOK'
  <2>1. /\ l \in Line /\ at' \in 1..Len(lines) /\ UNCHANGED <<raw, stage, lines, out, last>>
    <3>1. Parses(l)
      BY <1>4 DEF ParseLine, SilentLine, MetaLine, PaymentLine, NameLine, TotalLine, ItemLine
    <3> QED BY <3>1, NextLine DEF Parses, cleanVars
  <2>2. l.name \in Names \union {Nothing} /\ (l.pay /\ l.amounts = <<>> => l.name # Nothing)
    BY <2>1 DEF Line
  <2>3. CASE SilentLine(l)
    BY <2>1, <2>3 DEF SilentLine, parseVars
  <2>4. CASE MetaLine(l)
    <3>1. /\ desc' = Nothing /\ pending' \in BOOLEAN /\ ~pending'
          /\ UNCHANGED <<items, total>>
      BY <2>4, Zenon DEF MetaLine, Forget
    <3> QED BY <2>1, <3>1
  <2>5. CASE PaymentLine(l)
    BY <2>1, <2>2, <2>5 DEF PaymentLine
  <2>6. CASE NameLine(l)
    <3>1. /\ desc' = l.name /\ pending' \in BOOLEAN /\ ~pending'
          /\ UNCHANGED <<items, total>>
      BY <2>6, Zenon DEF NameLine
    <3> QED BY <2>1, <2>2, <3>1
  <2>7. CASE TotalLine(l)
    <3>1. Last(l.amounts) \in Nat
      BY <2>1, <2>7, ItemType DEF TotalLine
    <3>2. /\ total' = Last(l.amounts) /\ desc' = Nothing /\ pending' \in BOOLEAN /\ ~pending'
          /\ UNCHANGED items
      BY <2>7, Zenon DEF TotalLine
    <3> QED BY <2>1, <3>1, <3>2
  <2>8. CASE ItemLine(l)
    <3>1. Item(l, desc) \in Items
      BY <2>1, <2>8, ItemType DEF ItemLine
    <3>2. items' \in Seq(Items)
      BY <2>8, <3>1, AppendProperties DEF ItemLine
    <3> QED BY <2>1, <2>8, <3>2 DEF ItemLine, IsTotal
  <2> QED BY <1>4, <2>3, <2>4, <2>5, <2>6, <2>7, <2>8 DEF ParseLine
<1>5. CASE Cleaned
  <2>1. lines' \in Seq(Line) /\ Len(lines') \in Nat
    <3>1. lines' \in Seq(Line)
      BY <1>5, StripKeeps, TrimIs DEF Cleaned
    <3> QED BY <3>1, LenProperties
  <2> QED BY <1>5, <2>1 DEF Cleaned, cleanVars, parseVars
<1>6. CASE Parsed
  BY <1>6 DEF Parsed, cleanVars, parseVars
<1> QED BY <1>1, <1>2, <1>3, <1>4, <1>5, <1>6 DEF Next

\* Type correctness of the two loops, for texts of any length.
THEOREM ReceiptTypeCorrect == Spec => []TypeOK
BY ReceiptTypeInit, ReceiptTypeStep, PTL DEF Spec
-----------------------------------------------------------------------------
\* The loop of Parse: items and total are what the lines behind it mean, and the
\* flags what the last of them that said something has left.
Parsing ==
  /\ stage = "clean" => items = <<>> /\ total = Nothing /\ desc = Nothing /\ ~pending
  /\ stage # "clean" => /\ Means(lines, at, items, total)
                        /\ desc = NameFor(lines, at + 1)
                        /\ pending <=> PaidBy(lines, at + 1)
  /\ stage = "done" => at = Len(lines)

LEMMA MeansNothing ==
  ASSUME NEW s
  PROVE  Means(s, 0, <<>>, Nothing) /\ NameFor(s, 0 + 1) = Nothing /\ ~PaidBy(s, 0 + 1)
<1>1. Sold(s, 0) = {} /\ Totals(s, 0) = {}
  BY DEF Sold, Totals
<1>2. Cardinality({}) = 0 /\ Len(<<>>) = 0
  BY FS_EmptySet
<1>3. Before(s, 0 + 1) = 0
  BY BeforeOf
<1> QED BY <1>1, <1>2, <1>3 DEF Means, TotalOf, NameFor, PaidBy, Named

LEMMA ParsingStep == TypeOK /\ Parsing /\ [Next]_vars => Parsing'
<1> SUFFICES ASSUME TypeOK, Parsing, [Next]_vars PROVE Parsing'
  OBVIOUS
<1>1. CASE UNCHANGED vars
  BY <1>1, Zenon DEF vars, Parsing
<1>2. ASSUME NEW l, KeepLine(l) \/ SkipLine(l) PROVE Parsing'
  <2>1. stage = "clean" /\ stage' = "clean"
    BY <1>2 DEF KeepLine, SkipLine, Reads
  <2>2. UNCHANGED parseVars
    BY <1>2, Zenon DEF KeepLine, SkipLine
  <2> QED BY <2>1, <2>2 DEF parseVars, Parsing
<1>3. ASSUME NEW l, ParseLine(l) PROVE Parsing'
  <2>1. Parses(l)
    BY <1>3 DEF ParseLine, SilentLine, MetaLine, PaymentLine, NameLine, TotalLine, ItemLine
  <2>2. /\ l \in Line /\ l = lines[at + 1] /\ at \in Nat /\ at' = at + 1
        /\ stage = "parse" /\ stage' = "parse" /\ lines' = lines
    BY <2>1, NextLine DEF Parses
  <2>3. /\ Means(lines, at, items, total)
        /\ desc = NameFor(lines, at + 1)
        /\ pending <=> PaidBy(lines, at + 1)
    BY <2>2 DEF Parsing
  <2> DEFINE n == at + 1
  <2>4. n \in Nat \ {0}
    BY <2>2
  <2>5. SUFFICES /\ Means(lines, n, items', total')
                 /\ desc' = NameFor(lines, n + 1)
                 /\ pending' <=> PaidBy(lines, n + 1)
    BY <2>2 DEF Parsing
  <2>6. /\ ~Speaks(l) => /\ NameFor(lines, n + 1) = NameFor(lines, n)
                         /\ PaidBy(lines, n + 1) <=> PaidBy(lines, n)
        /\ Announces(l) => /\ NameFor(lines, n + 1) = l.name
                           /\ PaidBy(lines, n + 1) <=> l.pay
        /\ Speaks(l) /\ ~Announces(l) => /\ NameFor(lines, n + 1) = Nothing
                                         /\ ~PaidBy(lines, n + 1)
    BY <2>2, <2>4, FlagsNext
  <2>7. ~Priced(l) => Means(lines, n, items, total)
    BY <2>2, <2>3, MeansSilent
  <2>8. CASE SilentLine(l)
    <3>1. ~Speaks(l) /\ ~Priced(l)
      BY <2>8 DEF SilentLine, Speaks, Priced, Plain
    <3> QED BY <2>3, <2>6, <2>7, <2>8, <3>1 DEF SilentLine, parseVars
  <2>9. CASE MetaLine(l)
    <3>1. Speaks(l) /\ ~Announces(l) /\ ~Priced(l)
      BY <2>9 DEF MetaLine, Speaks, Announces, Priced, Plain
    <3> QED BY <2>6, <2>7, <2>9, <3>1 DEF MetaLine, Forget
  <2>10. CASE PaymentLine(l)
    <3>1. Announces(l) /\ ~Priced(l) /\ l.pay
      BY <2>10 DEF PaymentLine, Speaks, Announces, Priced
    <3> QED BY <2>6, <2>7, <2>10, <3>1 DEF PaymentLine
  <2>11. CASE NameLine(l)
    <3>1. Announces(l) /\ ~Priced(l) /\ ~l.pay
      BY <2>11 DEF NameLine, Speaks, Announces, Priced
    <3> QED BY <2>6, <2>7, <2>11, <3>1 DEF NameLine
  <2>12. CASE TotalLine(l)
    <3>1. Speaks(l) /\ ~Announces(l) /\ Priced(l)
      BY <2>12 DEF TotalLine, Speaks, Announces, Priced
    <3>2. l.total \/ PaidBy(lines, n)
      BY <2>3, <2>12 DEF TotalLine, IsTotal
    <3>3. Means(lines, n, items, Last(l.amounts))
      BY <2>2, <2>3, <3>1, <3>2, MeansTotal
    <3> QED BY <2>6, <2>12, <3>1, <3>3 DEF TotalLine
  <2>13. CASE ItemLine(l)
    <3>1. Speaks(l) /\ ~Announces(l) /\ Priced(l)
      BY <2>13 DEF ItemLine, Speaks, Announces, Priced
    <3>2. ~l.total /\ ~PaidBy(lines, n)
      BY <2>3, <2>13 DEF ItemLine, IsTotal
    <3>3. Item(l, desc) \in Items /\ Item(l, desc) = Item(lines[n], NameFor(lines, n))
      BY <2>2, <2>3, <2>13, ItemType DEF ItemLine, TypeOK
    <3>4. Means(lines, n, Append(items, Item(l, desc)), total)
      BY <2>2, <2>3, <3>1, <3>2, <3>3, MeansItem DEF TypeOK
    <3> QED BY <2>3, <2>6, <2>13, <3>1, <3>2, <3>4 DEF ItemLine
  <2> QED BY <1>3, <2>8, <2>9, <2>10, <2>11, <2>12, <2>13 DEF ParseLine
<1>4. CASE Cleaned
  <2>1. Means(lines', 0, <<>>, Nothing) /\ NameFor(lines', 0 + 1) = Nothing /\ ~PaidBy(lines', 0 + 1)
    BY MeansNothing
  <2> QED BY <1>4, <2>1 DEF Cleaned, parseVars, Parsing
<1>5. CASE Parsed
  BY <1>5, Zenon DEF Parsed, parseVars, Parsing
<1> QED BY <1>1, <1>2, <1>3, <1>4, <1>5 DEF Next

\* What Parse has read so far is what the lines behind its loop mean, for texts
\* of any length: neither a product nor a payment is carried too far.
THEOREM LoopIsRight == Spec => []LoopReadsMeaning
<1>1. Init => Parsing
  BY DEF Init, Parsing
<1>2. Parsing => LoopReadsMeaning
  BY DEF Parsing, LoopReadsMeaning
<1> QED BY <1>1, <1>2, ParsingStep, ReceiptTypeCorrect, PTL DEF Spec
-----------------------------------------------------------------------------
\* The loop of CleanText: of the lines behind it, those that speak are kept, in
\* their order; and so are they of the text that Parse is given.
Cleaning ==
  /\ stage = "clean" => lines = TrimFences(raw) /\ Keeps(out, lines, at)
  /\ stage # "clean" => Keeps(lines, TrimFences(raw), Len(TrimFences(raw)))

LEMMA CleaningStep == TypeOK /\ Cleaning /\ [Next]_vars => Cleaning'
<1> SUFFICES ASSUME TypeOK, Cleaning, [Next]_vars PROVE Cleaning'
  OBVIOUS
<1>1. CASE UNCHANGED vars
  BY <1>1, Zenon DEF vars, Cleaning
<1>2. ASSUME NEW l, KeepLine(l) \/ SkipLine(l) PROVE Cleaning'
  <2>1. Reads("clean", l)
    BY <1>2 DEF KeepLine, SkipLine
  <2>2. /\ l \in Line /\ l = lines[at + 1] /\ at \in 0..(Len(lines) - 1) /\ at' = at + 1
        /\ stage = "clean" /\ stage' = "clean" /\ lines' = lines /\ raw' = raw
    BY <2>1, NextLine
  <2>3. lines = TrimFences(raw) /\ Keeps(out, lines, at)
    BY <2>2 DEF Cleaning
  <2>4. out \in Seq(Line) /\ lines \in Seq(Line)
    BY DEF TypeOK
  <2>5. SUFFICES Keeps(out', lines, at + 1)
    BY <2>2, <2>3 DEF Cleaning
  <2>6. CASE KeepLine(l)
    <3>1. Keeps(Append(out, lines[at + 1]), lines, at + 1)
      BY <2>2, <2>3, <2>4, KeepsMore
    <3> QED BY <2>2, <2>6, <3>1 DEF KeepLine
  <2>7. CASE SkipLine(l)
    <3>1. at + 1 \in 1..Len(lines) /\ lines[at + 1].sort \in {"blank", "rule"}
      <4>1. Len(lines) \in Nat
        BY <2>4, LenProperties
      <4>2. l.sort \in {"blank", "rule"}
        BY <2>7 DEF SkipLine, Fresh
      <4> QED BY <2>2, <4>1, <4>2
    <3>2. ~Speaks(lines[at + 1])
      BY <2>4, <3>1, QuietLines
    <3>3. Keeps(out, lines, at + 1)
      BY <2>2, <2>3, <2>4, <3>2, KeepsMore
    <3> QED BY <2>7, <3>3 DEF SkipLine, cleanVars
  <2> QED BY <1>2, <2>6, <2>7
<1>3. ASSUME NEW l, ParseLine(l) PROVE Cleaning'
  <2>1. Parses(l)
    BY <1>3 DEF ParseLine, SilentLine, MetaLine, PaymentLine, NameLine, TotalLine, ItemLine
  <2>2. stage = "parse" /\ stage' = "parse" /\ lines' = lines /\ raw' = raw
    BY <2>1, NextLine DEF Parses
  <2> QED BY <2>2 DEF Cleaning
<1>4. CASE Cleaned
  <2> DEFINE s == TrimFences(raw)
             t == Strip(out)
             u == Trim(t)
  <2>1. /\ stage' = "parse" /\ lines' = u /\ raw' = raw
        /\ Keeps(out, s, Len(s)) /\ out \in Seq(Line) /\ s \in Seq(Line)
    BY <1>4 DEF Cleaned, Cleaning, TypeOK
  <2>2. t \in Seq(Line) /\ Keeps(t, out, Len(out))
    BY <2>1, StripKeeps
  <2>3. u \in Seq(Line) /\ Keeps(u, t, Len(t))
    BY <2>2, TrimKeeps
  <2>4. Len(out) \in Nat /\ Len(s) \in Nat /\ Len(t) \in Nat /\ Len(u) \in Nat
    BY <2>1, <2>2, <2>3, LenProperties
  <2> HIDE DEF s, t, u
  <2>5. Keeps(u, out, Len(out))
    BY <2>2, <2>3, <2>4, KeepsTwice
  <2>6. Keeps(u, s, Len(s))
    BY <2>1, <2>4, <2>5, KeepsTwice
  <2> QED BY <2>1, <2>6 DEF Cleaning, s
<1>5. CASE Parsed
  BY <1>5, Zenon DEF Parsed, Cleaning
<1> QED BY <1>1, <1>2, <1>3, <1>4, <1>5 DEF Next

\* A text without fences is trimmed only; of one that starts with a pair of them,
\* what is cleaned is a selection of what they enclose.
LEMMA CleaningReads == TypeOK /\ Parsing /\ Cleaning => CleaningKeepsMeaning
<1> SUFFICES ASSUME TypeOK, Parsing, Cleaning, stage = "done"
             PROVE  /\ Fences(raw) = {} => Means(raw, Len(raw), items, total)
                    /\ \A i, j \in Fences(raw) : Encloses(raw, i, j) =>
                         Means(SubSeq(raw, i + 1, j - 1), j - i - 1, items, total)
  BY DEF CleaningKeepsMeaning
<1> DEFINE s == TrimFences(raw)
<1>1. /\ raw \in Seq(Line) /\ Len(raw) \in Nat
      /\ Len(lines) \in Nat /\ s \in Seq(Line) /\ Len(s) \in Nat
  BY TrimFencesType, LenProperties DEF TypeOK
<1>2. Means(lines, Len(lines), items, total) /\ Keeps(lines, s, Len(s))
  BY DEF Parsing, Cleaning
<1> HIDE DEF s
<1>3. Means(s, Len(s), items, total)
  BY <1>1, <1>2, KeepsMeaning
<1>4. ASSUME Fences(raw) = {} PROVE Means(raw, Len(raw), items, total)
  <2>1. Keeps(s, raw, Len(raw))
    BY <1>1, <1>4, Unfenced, TrimKeeps DEF s
  <2> QED BY <1>1, <1>3, <2>1, KeepsMeaning
<1>5. ASSUME NEW i \in Fences(raw), NEW j \in Fences(raw), Encloses(raw, i, j)
      PROVE  Means(SubSeq(raw, i + 1, j - 1), j - i - 1, items, total)
  <2>1. i \in 1..Len(raw) /\ j \in 1..Len(raw) /\ i < j
    BY <1>5 DEF Fences, Encloses
  <2>2. Keeps(s, SubSeq(raw, i + 1, j - 1), j - i - 1)
    BY <1>1, <1>5, <2>1, Fenced DEF s
  <2>3. j - i - 1 \in Nat
    BY <1>1, <2>1
  <2> QED BY <1>1, <1>3, <2>2, <2>3, KeepsMeaning
<1> QED BY <1>4, <1>5

\* What is read of the cleaned text is what the engine's text means, however long
\* it is: all of it if there is no fence in it, and what stands between a pair of
\* fences if it starts with one.
THEOREM CleaningIsSafe == Spec => []CleaningKeepsMeaning
<1>1. Init => Parsing
  BY DEF Init, Parsing
<1>2. Init => Cleaning
  <2>1. ASSUME NEW s PROVE Keeps(<<>>, s, 0)
    BY KeepsNothing
  <2> QED BY <2>1 DEF Init, Cleaning
<1> QED BY <1>1, <1>2, ParsingStep, CleaningStep, CleaningReads, ReceiptTypeCorrect, PTL DEF Spec
=============================================================================
