----------------------------- MODULE PagesProofs -----------------------------
(* Theorems about Pages, for pages and tables of any size, any rows and    *)
(* filters, and every way of inserts, links and queries among each other.  *)
(* They rest on counting: a row's place in the order is the number of rows *)
(* before it, and an insert moves a row by no more than one place.         *)
EXTENDS Pages, FiniteSetTheorems, SequenceTheorems, TLAPS

(* How many of some rows are before a row.                                 *)
Rank(rows, i) == Cardinality({j \in rows : Before(j, i)})

LEMMA TableFacts ==
    ASSUME table \in Seq(Row)
    PROVE  /\ Len(table) \in Nat /\ DOMAIN table = 1..Len(table)
           /\ \A i \in DOMAIN table : i \in Nat \ {0} /\ table[i].timestamp \in Int
           /\ \A M \in SUBSET DOMAIN table :
                 IsFiniteSet(M) /\ Cardinality(M) \in Nat
<1>1. Len(table) \in Nat /\ DOMAIN table = 1..Len(table)
  OBVIOUS
<1>2. \A i \in DOMAIN table : table[i] \in Row
  OBVIOUS
<1>3. \A i \in DOMAIN table : i \in Nat \ {0} /\ table[i].timestamp \in Int
  BY <1>1, <1>2, PagesAssumption
<1>4. IsFiniteSet(DOMAIN table)
  BY <1>1, FS_Interval
<1>5. \A M \in SUBSET DOMAIN table : IsFiniteSet(M) /\ Cardinality(M) \in Nat
  BY <1>4, FS_Subset, FS_CardinalityType
<1>. QED  BY <1>1, <1>3, <1>5

(* ORDER BY with rowids to break ties is a strict total order.             *)
LEMMA BeforeOrders ==
    ASSUME table \in Seq(Row),
           NEW i \in DOMAIN table, NEW j \in DOMAIN table, NEW k \in DOMAIN table
    PROVE  /\ ~Before(i, i)
           /\ Before(i, j) /\ Before(j, k) => Before(i, k)
           /\ i # j => Before(i, j) \/ Before(j, i)
  BY TableFacts DEF Before

LEMMA RankTypes ==
    ASSUME table \in Seq(Row), NEW M \in SUBSET DOMAIN table, NEW i \in M
    PROVE  /\ IsFiniteSet({j \in M : Before(j, i)})
           /\ Rank(M, i) \in Nat /\ Rank(M, i) < Cardinality(M)
<1>. DEFINE P == {j \in M : Before(j, i)}
<1>1. P \in SUBSET M /\ i \notin P /\ P # M
  BY BeforeOrders
<1>2. /\ IsFiniteSet(M) /\ Cardinality(M) \in Nat
      /\ IsFiniteSet(P) /\ Cardinality(P) \in Nat
  <2>1. P \in SUBSET DOMAIN table
    BY <1>1
  <2>. QED  BY <2>1, TableFacts
<1>3. Cardinality(P) <= Cardinality(M) /\ Cardinality(P) # Cardinality(M)
  <2>. HIDE DEF P
  <2>. QED  BY <1>1, <1>2, FS_Subset
<1>. QED  BY <1>2, <1>3 DEF Rank

(* Fewer rows are before the earlier of two, and no two have one rank.     *)
LEMMA RankGrows ==
    ASSUME table \in Seq(Row), NEW M \in SUBSET DOMAIN table,
           NEW i \in M, NEW j \in M
    PROVE  /\ Before(i, j) => Rank(M, i) < Rank(M, j)
           /\ Rank(M, i) = Rank(M, j) => i = j
<1>1. ASSUME NEW x \in M, NEW y \in M, Before(x, y)
      PROVE  Rank(M, x) < Rank(M, y)
  <2>. DEFINE P == {k \in M : Before(k, x)}
              Q == {k \in M : Before(k, y)}
  <2>1. P \subseteq Q
    BY <1>1, BeforeOrders
  <2>2. x \in Q /\ x \notin P
    BY <1>1, BeforeOrders
  <2>3. IsFiniteSet(Q) /\ Cardinality(P) \in Nat /\ Cardinality(Q) \in Nat
    BY RankTypes DEF Rank
  <2>. HIDE DEF P, Q
  <2>4. Cardinality(P) <= Cardinality(Q) /\ Cardinality(P) # Cardinality(Q)
    BY <2>1, <2>2, <2>3, FS_Subset
  <2>5. Cardinality(P) < Cardinality(Q)
    BY <2>3, <2>4
  <2>. QED  BY <2>5 DEF Rank, P, Q
<1>2. i # j => Before(i, j) \/ Before(j, i)
  BY BeforeOrders
<1>3. Rank(M, i) \in Nat /\ Rank(M, j) \in Nat
  BY RankTypes
<1>. QED  BY <1>1, <1>2, <1>3

(* Every rank is that of a row: there are as many as rows.                 *)
LEMMA Ranked ==
    ASSUME table \in Seq(Row), NEW M \in SUBSET DOMAIN table,
           NEW k \in 1..Cardinality(M)
    PROVE  \E i \in M : Rank(M, i) = k - 1
<1>. DEFINE m == Cardinality(M)
            f == [i \in M |-> Rank(M, i) + 1]
<1>1. IsFiniteSet(M) /\ m \in Nat
  BY TableFacts
<1>2. IsFiniteSet(1..m) /\ Cardinality(1..m) = m
  BY <1>1, FS_Interval
<1>0. \A i \in M : Rank(M, i) \in Nat /\ Rank(M, i) < m
  BY RankTypes
<1>3. \A i \in M : Rank(M, i) + 1 \in 1..m
  BY <1>0, <1>1
<1>4. \A i, j \in M : Rank(M, i) + 1 = Rank(M, j) + 1 => i = j
  <2>1. \A i, j \in M : Rank(M, i) = Rank(M, j) => i = j
    BY RankGrows
  <2>. QED  BY <1>0, <2>1
<1>5. f \in Injection(M, 1..m)
  <2>1. f \in [M -> 1..m]
    BY <1>3
  <2>2. \A i, j \in M : f[i] = f[j] => i = j
    BY <1>4
  <2>. QED  BY <2>1, <2>2 DEF Injection, IsInjective
<1>6. f \in Surjection(M, 1..m)
  <2>. HIDE DEF f
  <2>. QED  BY <1>2, <1>5, FS_Injection
<1>7. PICK i \in M : f[i] = k
  <2>. HIDE DEF f
  <2>. QED  BY <1>6 DEF Surjection
<1>8. Rank(M, i) = k - 1
  BY <1>0, <1>1, <1>7
<1>. QED  BY <1>8

LEMMA SortedRanks ==
    ASSUME table \in Seq(Row), NEW M \in SUBSET DOMAIN table
    PROVE  /\ Cardinality(M) \in Nat /\ Sorted(M) \in Seq(M)
           /\ Len(Sorted(M)) = Cardinality(M)
           /\ \A k \in 1..Cardinality(M) : /\ Sorted(M)[k] \in M
                                           /\ Rank(M, Sorted(M)[k]) = k - 1
<1>1. Cardinality(M) \in Nat
  BY TableFacts
<1>2. Sorted(M) = [k \in 1..Cardinality(M) |->
                      CHOOSE i \in M : Rank(M, i) = k - 1]
  BY DEF Sorted, Rank
<1>3. \A k \in 1..Cardinality(M) : /\ Sorted(M)[k] \in M
                                   /\ Rank(M, Sorted(M)[k]) = k - 1
  BY <1>2, Ranked
<1>4. Sorted(M) \in [1..Cardinality(M) -> M]
  <2>. DEFINE m == Cardinality(M)
              g(k) == CHOOSE i \in M : Rank(M, i) = k - 1
  <2>1. \A k \in 1..m : g(k) \in M
    BY Ranked
  <2>. HIDE DEF m, g
  <2>2. [k \in 1..m |-> g(k)] \in [1..m -> M]
    BY <2>1
  <2>. QED  BY <1>2, <2>2 DEF m, g
<1>5. Sorted(M) \in Seq(M) /\ Len(Sorted(M)) = Cardinality(M)
  BY <1>1, <1>4
<1>. QED  BY <1>1, <1>3, <1>5

-----------------------------------------------------------------------------
(* What the rows of a page say of the table.                               *)

LEMMA Offsets ==
    ASSUME NEW n \in Nat \ {0}
    PROVE  /\ eventsPerPage \in Nat \ {0} /\ Offset(n) \in Nat
           /\ Offset(n + 1) = Offset(n) + eventsPerPage + 1
<1>1. eventsPerPage \in Nat \ {0}
  BY PagesAssumption
<1>2. \A a, b \in Nat : a * b \in Nat /\ (a + 1) * b = a * b + b
  OBVIOUS
<1>3. n - 1 \in Nat /\ eventsPerPage + 1 \in Nat /\ (n + 1) - 1 = (n - 1) + 1
  BY <1>1
<1>. QED  BY <1>1, <1>2, <1>3 DEF Offset

LEMMA MatchingRows ==
    ASSUME table \in Seq(Row), NEW filter
    PROVE  Matching(filter) \in SUBSET DOMAIN table
  BY DEF Matching

LEMMA PageRows ==
    ASSUME table \in Seq(Row), NEW filter, NEW n \in Nat \ {0},
           NEW M, M = Matching(filter), NEW q, q = QueryEvents(filter, n)
    PROVE  /\ Shown(q) \in Seq(M) /\ Len(Shown(q)) <= eventsPerPage
           /\ Len(q) > eventsPerPage =>
                 /\ Len(Shown(q)) = eventsPerPage
                 /\ Cardinality(M) >= Offset(n) + eventsPerPage + 1
           /\ Shown(q) # <<>> => Cardinality(M) >= Offset(n) + Len(Shown(q))
           /\ \A x \in ToSet(Shown(q)) :
                 x \in M /\ Rank(M, x) >= Offset(n)
                         /\ Rank(M, x) < Offset(n) + eventsPerPage
<1>. DEFINE s == Sorted(M)
            m == Cardinality(M)
            o == Offset(n)
            e == IF o + eventsPerPage + 1 > Len(s) THEN Len(s)
                                                   ELSE o + eventsPerPage + 1
<1>1. eventsPerPage \in Nat \ {0} /\ o \in Nat
  BY Offsets
<1>2. /\ m \in Nat /\ s \in Seq(M) /\ Len(s) = m
      /\ \A k \in 1..m : s[k] \in M /\ Rank(M, s[k]) = k - 1
  BY MatchingRows, SortedRanks
<1>3. q = SubSeq(s, o + 1, e)
  BY DEF QueryEvents
<1>. HIDE DEF s, o, m
<1>4. e \in Nat /\ e <= m /\ e <= o + eventsPerPage + 1
  BY <1>1, <1>2
<1>5. /\ q \in Seq(M)
      /\ Len(q) = IF o + 1 <= e THEN e - o ELSE 0
      /\ \A k \in 1..Len(q) : o + k \in 1..m /\ q[k] = s[o + k]
  <2>1. \A k \in (o + 1)..e : k \in 1..m
    BY <1>1, <1>4, <1>2
  <2>. HIDE DEF e
  <2>. QED  BY <1>1, <1>2, <1>3, <1>4, <2>1
<1>6. Len(q) \in Nat /\ Len(q) <= eventsPerPage + 1
  BY <1>1, <1>4, <1>5
<1>. DEFINE l == IF Len(q) > eventsPerPage THEN eventsPerPage ELSE Len(q)
<1>7. Shown(q) = SubSeq(q, 1, l) /\ l \in Nat /\ l <= Len(q) /\ l <= eventsPerPage
  BY <1>1, <1>6 DEF Shown
<1>8. /\ Shown(q) \in Seq(M) /\ Len(Shown(q)) = l
      /\ \A k \in 1..l : k \in 1..Len(q) /\ Shown(q)[k] = q[k]
  <2>. HIDE DEF l
  <2>. QED  BY <1>5, <1>6, <1>7
<1>9. Len(q) > eventsPerPage =>
          l = eventsPerPage /\ m >= o + eventsPerPage + 1
  BY <1>1, <1>4, <1>5, <1>6
<1>10. Shown(q) # <<>> => m >= o + l
  <2>1. Shown(q) # <<>> => l # 0
    BY <1>8
  <2>2. l # 0 => Len(q) # 0
    BY <1>6, <1>7
  <2>3. Len(q) # 0 => o + Len(q) <= m
    BY <1>1, <1>2, <1>4, <1>5
  <2>. QED  BY <1>1, <1>2, <1>6, <1>7, <2>1, <2>2, <2>3
<1>11. \A x \in ToSet(Shown(q)) :
          x \in M /\ Rank(M, x) >= o /\ Rank(M, x) < o + eventsPerPage
  <2>. SUFFICES ASSUME NEW x \in ToSet(Shown(q))
                PROVE  x \in M /\ Rank(M, x) >= o
                               /\ Rank(M, x) < o + eventsPerPage
    OBVIOUS
  <2>1. PICK k \in 1..l : x = Shown(q)[k]
    <3>. HIDE DEF l
    <3>. QED  BY <1>7, <1>8 DEF ToSet
  <2>2. o + k \in 1..m /\ x = s[o + k] /\ k >= 1 /\ k <= eventsPerPage
    BY <1>1, <1>5, <1>7, <1>8, <2>1
  <2>3. x \in M /\ Rank(M, x) = (o + k) - 1
    BY <1>2, <2>2
  <2>. QED  BY <1>1, <2>1, <2>2, <2>3
<1>. QED  BY <1>7, <1>8, <1>9, <1>10, <1>11 DEF o, m

-----------------------------------------------------------------------------
(* Rows S of rank above c, rows T that were of rank below c among the rows *)
(* up to rowid b: what is in both is an arrival, or was pushed over c by   *)
(* one.  Of the rows of rank up to c, U, as many are arrivals as rows that *)
(* were of rank below c are missing there, and one more.                   *)

Upto(M, b) == {i \in M : i <= b}
Above(M, b) == {i \in M : i > b}

LEMMA FewRepeats ==
    ASSUME table \in Seq(Row), NEW M \in SUBSET DOMAIN table,
           NEW b \in Nat, NEW c \in Nat,
           NEW S \in SUBSET M, \A x \in S : Rank(M, x) > c,
           NEW T \in SUBSET M,
           \A x \in T : x <= b => Rank(Upto(M, b), x) < c
    PROVE  Cardinality(T \cap S) <= Cardinality(Above(M, b))
<1>. DEFINE B == Upto(M, b)
            A == Above(M, b)
            D == T \cap S \cap B
            U == {x \in M : Rank(M, x) <= c}
            Low == {x \in B : Rank(B, x) < c}
<1>1. /\ B \in SUBSET DOMAIN table /\ A \in SUBSET DOMAIN table
      /\ D \in SUBSET DOMAIN table /\ U \in SUBSET DOMAIN table
      /\ Low \in SUBSET DOMAIN table /\ B \subseteq M /\ A \subseteq M
  BY DEF Upto, Above
<1>2. \A x \in M : /\ x \in A <=> x \notin B
                   /\ x \in B <=> x <= b
  BY TableFacts DEF Upto, Above
<1>3. \A N \in SUBSET DOMAIN table :
          IsFiniteSet(N) /\ Cardinality(N) \in Nat
  BY TableFacts
<1>4. /\ \A x \in M : Rank(M, x) \in Nat
      /\ \A x \in B : Rank(B, x) \in Nat
  BY <1>1, RankTypes
<1>5. \A x, y \in M : Rank(M, x) < Rank(M, y) => Before(x, y)
  <2>. SUFFICES ASSUME NEW x \in M, NEW y \in M, Rank(M, x) < Rank(M, y)
                PROVE  Before(x, y)
    OBVIOUS
  <2>1. x # y /\ ~Before(y, x)
    BY <1>4, RankGrows
  <2>. QED  BY <2>1, BeforeOrders
<1>6. \A x, y \in B : /\ Before(x, y) => Rank(B, x) < Rank(B, y)
                      /\ Rank(B, x) = Rank(B, y) => x = y
  BY <1>1, RankGrows
<1>7. CASE D = {}
  <2>1. T \cap S \in SUBSET A
    BY <1>2, <1>7
  <2>2. IsFiniteSet(A)
    BY <1>1, <1>3
  <2>3. Cardinality(T \cap S) <= Cardinality(A)
    <3>. HIDE DEF A
    <3>. QED  BY <2>1, <2>2, FS_Subset
  <2>. QED  BY <2>3
<1>8. CASE D # {}
  <2>. HIDE DEF A, B
  <2>1. PICK x \in D : TRUE
    BY <1>8
  <2>2. /\ x \in B /\ x \in M /\ Rank(M, x) > c /\ Rank(B, x) < c
        /\ Rank(M, x) \in Nat /\ Rank(B, x) \in Nat
    BY <1>1, <1>2, <1>4, <2>1 DEF B
  <2>3. D \subseteq Low
    BY <1>1, <1>2 DEF B
  <2>4. U \cap B \subseteq Low
    <3>. SUFFICES ASSUME NEW y \in U, y \in B PROVE y \in Low
      OBVIOUS
    <3>1. Before(y, x)
      BY <1>4, <1>5, <2>2
    <3>. QED  BY <1>4, <1>6, <2>2, <3>1
  <2>5. D \cap (U \cap B) = {}
    BY <1>4
  <2>6. Cardinality(Low) <= c
    <3>. DEFINE f == [y \in Low |-> Rank(B, y) + 1]
    <3>1. f \in [Low -> 1..c]
      BY <1>4
    <3>2. \A y, z \in Low : f[y] = f[z] => y = z
      BY <1>4, <1>6
    <3>3. f \in Injection(Low, 1..c)
      <4>. HIDE DEF f, Low
      <4>. QED  BY <3>1, <3>2 DEF Injection, IsInjective
    <3>4. IsFiniteSet(1..c) /\ Cardinality(1..c) = c
      BY FS_Interval
    <3>. HIDE DEF f, Low
    <3>. QED  BY <3>3, <3>4, FS_Injection
  <2>7. Cardinality(U) >= c + 1
    <3>. DEFINE g == [k \in 1..(c + 1) |-> CHOOSE y \in M : Rank(M, y) = k - 1]
    <3>1. Cardinality(M) \in Nat /\ Rank(M, x) < Cardinality(M)
      BY <1>3, <2>2, RankTypes
    <3>2. \A k \in 1..(c + 1) : k \in 1..Cardinality(M)
      BY <2>2, <3>1
    <3>3. \A k \in 1..(c + 1) : \E y \in M : Rank(M, y) = k - 1
      BY <3>2, Ranked
    <3>4. \A k \in 1..(c + 1) : g[k] \in M /\ Rank(M, g[k]) = k - 1
      BY <3>3
    <3>5. g \in [1..(c + 1) -> U]
      <4>1. \A k \in 1..(c + 1) : g[k] \in U
        BY <3>4
      <4>2. DOMAIN g = 1..(c + 1) /\ g = [k \in 1..(c + 1) |-> g[k]]
        OBVIOUS
      <4>. HIDE DEF g, U
      <4>. QED  BY <4>1, <4>2
    <3>6. \A k, l \in 1..(c + 1) : g[k] = g[l] => k = l
      <4>. SUFFICES ASSUME NEW k \in 1..(c + 1), NEW l \in 1..(c + 1),
                           g[k] = g[l]
                    PROVE  k = l
        OBVIOUS
      <4>1. k - 1 = l - 1
        <5>. HIDE DEF g
        <5>. QED  BY <3>4
      <4>. QED  BY <4>1
    <3>7. g \in Injection(1..(c + 1), U)
      <4>. HIDE DEF g, U
      <4>. QED  BY <3>5, <3>6 DEF Injection, IsInjective
    <3>8. Cardinality(1..(c + 1)) = c + 1
      BY FS_Interval
    <3>9. IsFiniteSet(U)
      BY <1>1, <1>3
    <3>. HIDE DEF g, U
    <3>. QED  BY <3>7, <3>8, <3>9, FS_Injection
  <2>8. T \cap S \subseteq D \cup (A \ U)
    <3>1. \A y \in S : y \notin U
      BY <1>4
    <3>. QED  BY <1>2, <3>1
  <2>9. U = (U \cap B) \cup (U \cap A) /\ (U \cap B) \cap (U \cap A) = {}
    BY <1>2
  <2>. HIDE DEF D, U, Low
  <2>10. /\ Cardinality(D \cup (U \cap B)) =
               Cardinality(D) + Cardinality(U \cap B)
         /\ Cardinality(D \cup (U \cap B)) <= Cardinality(Low)
    <3>1. /\ IsFiniteSet(D) /\ IsFiniteSet(U \cap B) /\ IsFiniteSet(Low)
          /\ Cardinality(D) \in Nat /\ Cardinality(U \cap B) \in Nat
      <4>1. U \cap B \in SUBSET DOMAIN table
        BY <1>1
      <4>. QED  BY <1>1, <1>3, <4>1
    <3>2. D \cup (U \cap B) \in SUBSET Low
      BY <2>3, <2>4
    <3>3. Cardinality(D \cup (U \cap B)) <= Cardinality(Low)
      BY <3>1, <3>2, FS_Subset
    <3>4. Cardinality(D \cap (U \cap B)) = 0
      BY <2>5, FS_EmptySet
    <3>5. Cardinality(D \cup (U \cap B)) =
             Cardinality(D) + Cardinality(U \cap B)
                - Cardinality(D \cap (U \cap B))
      BY <3>1, FS_Union
    <3>. QED  BY <3>1, <3>3, <3>4, <3>5
  <2>11. Cardinality(U) = Cardinality(U \cap B) + Cardinality(U \cap A)
    <3>1. U \cap B \in SUBSET DOMAIN table /\ U \cap A \in SUBSET DOMAIN table
      BY <1>1
    <3>2. /\ IsFiniteSet(U \cap B) /\ IsFiniteSet(U \cap A)
          /\ Cardinality(U \cap B) \in Nat /\ Cardinality(U \cap A) \in Nat
      BY <1>3, <3>1
    <3>3. Cardinality((U \cap B) \cup (U \cap A)) =
             Cardinality(U \cap B) + Cardinality(U \cap A)
                - Cardinality((U \cap B) \cap (U \cap A))
      BY <3>2, FS_Union
    <3>4. Cardinality((U \cap B) \cap (U \cap A)) = 0
      BY <2>9, FS_EmptySet
    <3>5. Cardinality((U \cap B) \cup (U \cap A)) = Cardinality(U)
      BY <2>9
    <3>. QED  BY <3>2, <3>3, <3>4, <3>5
  <2>12. Cardinality(A \ U) = Cardinality(A) - Cardinality(U \cap A)
    <3>1. A \cap U = U \cap A
      OBVIOUS
    <3>2. Cardinality(A \ U) = Cardinality(A) - Cardinality(A \cap U)
      BY <1>1, <1>3, FS_Difference
    <3>. QED  BY <3>1, <3>2
  <2>13. Cardinality(T \cap S) <= Cardinality(D) + Cardinality(A \ U)
    <3>1. A \ U \in SUBSET DOMAIN table /\ D \cap (A \ U) \in SUBSET DOMAIN table
      BY <1>1
    <3>2. /\ IsFiniteSet(D) /\ IsFiniteSet(A \ U)
          /\ Cardinality(D) \in Nat /\ Cardinality(A \ U) \in Nat
          /\ Cardinality(D \cap (A \ U)) \in Nat
      BY <1>1, <1>3, <3>1
    <3>3. /\ IsFiniteSet(D \cup (A \ U))
          /\ Cardinality(D \cup (A \ U)) = Cardinality(D) + Cardinality(A \ U)
                                           - Cardinality(D \cap (A \ U))
      BY <3>2, FS_Union
    <3>4. Cardinality(T \cap S) <= Cardinality(D \cup (A \ U))
      BY <2>8, <3>3, FS_Subset
    <3>5. Cardinality(T \cap S) \in Nat
      <4>1. T \cap S \in SUBSET DOMAIN table
        OBVIOUS
      <4>. QED  BY <1>3, <4>1
    <3>. QED  BY <3>2, <3>3, <3>4, <3>5
  <2>14. /\ Cardinality(D) \in Nat /\ Cardinality(A) \in Nat
         /\ Cardinality(U \cap A) \in Nat /\ Cardinality(U \cap B) \in Nat
         /\ Cardinality(Low) \in Nat /\ Cardinality(A \ U) \in Int
         /\ Cardinality(T \cap S) \in Nat
    <3>1. /\ U \cap A \in SUBSET DOMAIN table /\ U \cap B \in SUBSET DOMAIN table
          /\ A \ U \in SUBSET DOMAIN table /\ T \cap S \in SUBSET DOMAIN table
      BY <1>1
    <3>. QED  BY <1>1, <1>3, <3>1
  <2>15. Cardinality(T \cap S) <= Cardinality(A)
    BY <2>6, <2>7, <2>10, <2>11, <2>12, <2>13, <2>14
  <2>. QED  BY <2>15 DEF A
<1>. QED  BY <1>7, <1>8

-----------------------------------------------------------------------------
(* The inductive invariant.                                                *)

More == IF page.HasMore THEN 1 ELSE 0

(* At every moment the table holds what the page implies.                  *)
CoverInv ==
    page.rows # <<>> =>
        Cardinality(Matching(page.filter)) >=
            Offset(page.page) + Len(page.rows) + More

(* A request for older events is about the page that is shown, and between *)
(* the two queries the page has the filter of the request.                 *)
AskedInv ==
    /\ pc = "asked" /\ want.link = "older" =>
           want.filter = page.filter /\ want.page = page.page + 1
    /\ pc = "queried" => want.filter = page.filter

(* Rows of the trail match its filter, and among the rows that were there  *)
(* when the trail began they are of no rank beyond the page.               *)
TrailInv ==
    \A x \in trail :
        /\ x \in Matching(page.filter)
        /\ x <= base => Rank(Upto(Matching(page.filter), base), x)
                            < Offset(page.page) + eventsPerPage

PagesInv == TypeOK /\ CoverInv /\ AskedInv /\ TrailInv
            /\ RepeatsBoundedByArrivals /\ CountCoversPage

LEMMA PageTypes ==
    ASSUME TypeOK
    PROVE  /\ page.page \in Nat \ {0} /\ page.rows \in Seq(DOMAIN table)
           /\ Len(page.rows) \in Nat /\ page.HasMore \in BOOLEAN
           /\ page.filter \in Filter /\ page.total \in 0..Len(table)
           /\ want.page \in Nat \ {0} /\ want.filter \in Filter
  BY DEF TypeOK

LEMMA PagesInit == Init => PagesInv
<1>. SUFFICES ASSUME Init PROVE PagesInv
  OBVIOUS
<1>1. table = <<>> /\ Len(table) = 0 /\ DOMAIN table = {} /\ table \in Seq(Row)
  BY DEF Init
<1>2. TypeOK
  <2>1. page \in [page : Nat \ {0}, filter : Filter, rows : Seq(DOMAIN table),
                  HasMore : BOOLEAN, total : 0..Len(table)]
    BY <1>1 DEF Init, Filter
  <2>2. want \in [page : Nat \ {0}, filter : Filter,
                  link : {"open", "newer", "older"}]
    BY DEF Init, Filter
  <2>3. /\ Len(page.rows) <= eventsPerPage
        /\ page.HasMore => Len(page.rows) = eventsPerPage
        /\ Len(table) <= MaxRows
    BY <1>1, PagesAssumption DEF Init
  <2>. QED  BY <1>1, <2>1, <2>2, <2>3 DEF Init, TypeOK
<1>3. RepeatsBoundedByArrivals
  <2>1. {i \in Matching(page.filter) : i > base} = {}
    BY <1>1 DEF Matching
  <2>2. Cardinality({i \in Matching(page.filter) : i > base}) = 0
    BY <2>1, FS_EmptySet
  <2>. QED  BY <2>2 DEF Init, RepeatsBoundedByArrivals
<1>. QED
  BY <1>2, <1>3
  DEF Init, PagesInv, CoverInv, AskedInv, TrailInv, CountCoversPage

LEMMA InsertKeeps ==
    ASSUME PagesInv, NEW r \in Row, InsertEvents(r)
    PROVE  PagesInv'
<1>1. /\ table \in Seq(Row) /\ Len(table) < MaxRows
      /\ table' = Append(table, r) /\ UNCHANGED <<pc, want, page, history>>
  BY DEF PagesInv, TypeOK, InsertEvents
<1>2. /\ table' \in Seq(Row) /\ Len(table') = Len(table) + 1
      /\ Len(table) \in Nat /\ DOMAIN table = 1..Len(table)
      /\ DOMAIN table' = 1..(Len(table) + 1)
      /\ \A i \in 1..Len(table) : table'[i] = table[i]
  BY <1>1
<1>3. DOMAIN table \subseteq DOMAIN table'
  BY <1>2
<1>4. /\ \A f : Matching(f) \subseteq Matching(f)'
      /\ \A f : \A b \in 0..Len(table) :
            Upto(Matching(f), b)' = Upto(Matching(f), b)
  <2>1. \A f, i : i \in Matching(f) =>
            /\ i \in 1..Len(table) /\ i \in Matching(f)'
    BY <1>2 DEF Matching
  <2>2. \A f, i : i \in Matching(f)' /\ i \in 1..Len(table) => i \in Matching(f)
    BY <1>2 DEF Matching
  <2>3. \A f, i : i \in Matching(f)' => i \in 1..(Len(table) + 1)
    BY <1>2 DEF Matching
  <2>. QED  BY <1>2, <2>1, <2>2, <2>3 DEF Upto
<1>5. \A f : \A b \in 0..Len(table) : \A x \in Upto(Matching(f), b) :
          Rank(Upto(Matching(f), b), x)' = Rank(Upto(Matching(f), b), x)
  <2>. SUFFICES ASSUME NEW f, NEW b \in 0..Len(table),
                       NEW x \in Upto(Matching(f), b)
                PROVE  Rank(Upto(Matching(f), b), x)' = Rank(Upto(Matching(f), b), x)
    OBVIOUS
  <2>1. \A j \in Upto(Matching(f), b) : j \in 1..Len(table)
    BY <1>2 DEF Upto, Matching
  <2>2. \A j \in Upto(Matching(f), b) : Before(j, x)' <=> Before(j, x)
    BY <1>2, <2>1 DEF Before
  <2>3. {j \in Upto(Matching(f), b) : Before(j, x)}' =
           {j \in Upto(Matching(f), b) : Before(j, x)}
    <3>1. Upto(Matching(f), b)' = Upto(Matching(f), b)
      BY <1>4
    <3>. QED  BY <2>2, <3>1
  <2>. QED  BY <2>3 DEF Rank
<1>6. \A f : Cardinality(Matching(f)) <= Cardinality(Matching(f)')
             /\ Cardinality(Matching(f)) \in Nat
             /\ Cardinality(Matching(f)') \in Nat
  <2>. SUFFICES ASSUME NEW f
                PROVE  Cardinality(Matching(f)) <= Cardinality(Matching(f)')
                       /\ Cardinality(Matching(f)) \in Nat
                       /\ Cardinality(Matching(f)') \in Nat
    OBVIOUS
  <2>1. /\ Matching(f)' \in SUBSET (1..(Len(table) + 1))
        /\ IsFiniteSet(1..(Len(table) + 1))
    BY <1>2, FS_Interval DEF Matching
  <2>2. IsFiniteSet(Matching(f)')
    BY <2>1, FS_Subset
  <2>3. Matching(f) \in SUBSET Matching(f)'
    BY <1>4
  <2>. QED  BY <2>2, <2>3, FS_Subset, FS_CardinalityType
<1>7. TypeOK'
  <2>1. Seq(DOMAIN table) \subseteq Seq(DOMAIN table')
    BY <1>3
  <2>2. 0..Len(table) \subseteq 0..Len(table')
    BY <1>2
  <2>3. MaxRows \in Nat
    BY PagesAssumption
  <2>4. page' \in [page : Nat \ {0}, filter : Filter, rows : Seq(DOMAIN table'),
                   HasMore : BOOLEAN, total : 0..Len(table')]
    BY <1>1, <2>1, <2>2 DEF PagesInv, TypeOK
  <2>5. trail' \subseteq DOMAIN table' /\ base' \in 0..Len(table')
    BY <1>1, <1>3, <2>2 DEF PagesInv, TypeOK, history
  <2>6. Len(table') <= MaxRows
    BY <1>1, <1>2, <2>3
  <2>. QED
    BY <1>1, <1>2, <2>4, <2>5, <2>6 DEF PagesInv, TypeOK, history
<1>8. CoverInv' /\ AskedInv' /\ CountCoversPage'
  <2>1. /\ AskedInv' /\ CountCoversPage'
    BY <1>1 DEF PagesInv, AskedInv, CountCoversPage
  <2>2. CoverInv'
    <3>. SUFFICES ASSUME page.rows # <<>>
                  PROVE  Cardinality(Matching(page.filter)') >=
                             Offset(page.page) + Len(page.rows) + More
      BY <1>1 DEF CoverInv, More
    <3>1. Cardinality(Matching(page.filter)) >=
              Offset(page.page) + Len(page.rows) + More
      BY DEF PagesInv, CoverInv
    <3>2. page.page \in Nat \ {0} /\ Len(page.rows) \in Nat
      BY PageTypes DEF PagesInv
    <3>3. Offset(page.page) \in Nat /\ More \in Nat
      <4>1. Offset(page.page) \in Nat
        BY <3>2, Offsets
      <4>. QED  BY <4>1 DEF More
    <3>4. /\ Cardinality(Matching(page.filter)) <=
                 Cardinality(Matching(page.filter)')
          /\ Cardinality(Matching(page.filter)) \in Nat
          /\ Cardinality(Matching(page.filter)') \in Nat
      BY <1>1, <1>6
    <3>. QED  BY <3>1, <3>2, <3>3, <3>4
  <2>. QED  BY <2>1, <2>2
<1>9. TrailInv'
  <2>. SUFFICES ASSUME NEW x \in trail
                PROVE  (/\ x \in Matching(page.filter)
                        /\ x <= base =>
                               Rank(Upto(Matching(page.filter), base), x)
                                   < Offset(page.page) + eventsPerPage)'
    BY <1>1 DEF TrailInv, history
  <2>1. x \in Matching(page.filter) /\ base \in 0..Len(table)
    BY DEF PagesInv, TrailInv, TypeOK
  <2>2. x <= base =>
           /\ x \in Upto(Matching(page.filter), base)
           /\ Rank(Upto(Matching(page.filter), base), x)
                  < Offset(page.page) + eventsPerPage
    BY <2>1 DEF PagesInv, TrailInv, Upto
  <2>. DEFINE f == page.filter
              b == base
  <2>3. f' = f /\ b' = b
    BY <1>1 DEF history
  <2>. QED  BY <1>1, <1>4, <1>5, <2>1, <2>2 DEF history
<1>10. RepeatsBoundedByArrivals'
  <2>1. \A f, b : {i \in Matching(f) : i > b} \subseteq
                      {i \in Matching(f)' : i > b}
    BY <1>4
  <2>2. \A f : Matching(f)' \in SUBSET DOMAIN table'
    BY DEF Matching
  <2>3. IsFiniteSet(DOMAIN table')
    BY <1>2, FS_Interval
  <2>. DEFINE P == {i \in Matching(page.filter) : i > base}
              Q == {i \in Matching(page.filter)' : i > base}
  <2>4. IsFiniteSet(Q) /\ P \in SUBSET Q
    <3>1. Q \in SUBSET DOMAIN table'
      BY <2>2
    <3>2. P \subseteq Q
      BY <1>1, <1>4
    <3>3. IsFiniteSet(Q)
      <4>. HIDE DEF Q
      <4>. QED  BY <2>3, <3>1, FS_Subset
    <3>. QED  BY <3>2, <3>3
  <2>. HIDE DEF P, Q
  <2>5. /\ Cardinality(P) <= Cardinality(Q)
        /\ Cardinality(P) \in Nat /\ Cardinality(Q) \in Nat
    BY <2>4, FS_Subset, FS_CardinalityType
  <2>6. repeats <= Cardinality(P) /\ repeats \in Nat
    BY DEF PagesInv, TypeOK, RepeatsBoundedByArrivals, P
  <2>7. repeats <= Cardinality(Q)
    BY <2>5, <2>6
  <2>8. Q = {i \in Matching(page.filter) : i > base}'
    BY <1>1 DEF Q, history
  <2>. QED  BY <1>1, <2>7, <2>8 DEF RepeatsBoundedByArrivals, history
<1>. QED  BY <1>7, <1>8, <1>9, <1>10 DEF PagesInv

(* What does not look at anything but the table.                           *)
LEMMA TableKept ==
    ASSUME table' = table
    PROVE  /\ \A f : Matching(f)' = Matching(f)
           /\ \A rows, x : Rank(rows, x)' = Rank(rows, x)
  BY DEF Matching, Rank, Before

LEMMA QueryKeeps ==
    ASSUME PagesInv, QueryRows("asked", "queried")
    PROVE  PagesInv'
<1>. DEFINE M == Matching(want.filter)
            n == want.page
            q == QueryEvents(want.filter, want.page)
            s == Shown(q)
<1>1. /\ pc = "asked" /\ pc' = "queried" /\ UNCHANGED <<table, want>>
      /\ page' = [page EXCEPT !.page = want.page, !.filter = want.filter,
                              !.HasMore = Len(q) > eventsPerPage, !.rows = s]
      /\ ExtendTrail(s)
  BY DEF QueryRows
<1>2. /\ TypeOK /\ table \in Seq(Row) /\ n \in Nat \ {0}
      /\ M \in SUBSET DOMAIN table
  BY MatchingRows, PageTypes DEF PagesInv, TypeOK
<1>3. /\ s \in Seq(M) /\ Len(s) <= eventsPerPage
      /\ Len(q) > eventsPerPage =>
            /\ Len(s) = eventsPerPage
            /\ Cardinality(M) >= Offset(n) + eventsPerPage + 1
      /\ s # <<>> => Cardinality(M) >= Offset(n) + Len(s)
      /\ \A x \in ToSet(s) :
            x \in M /\ Rank(M, x) >= Offset(n)
                    /\ Rank(M, x) < Offset(n) + eventsPerPage
  <2>. HIDE DEF M, n
  <2>. QED  BY <1>2, PageRows DEF M, n
<1>. HIDE DEF M, q, s
<1>4. /\ page'.page = n /\ page'.filter = want.filter /\ page'.rows = s
      /\ page'.HasMore = (Len(q) > eventsPerPage) /\ page'.total = page.total
  BY <1>1, <1>2 DEF TypeOK
<1>5. /\ \A f : Matching(f)' = Matching(f)
      /\ \A rows, x : Rank(rows, x)' = Rank(rows, x)
  BY <1>1, TableKept
<1>6. /\ eventsPerPage \in Nat \ {0} /\ Offset(n) \in Nat
      /\ IsFiniteSet(M) /\ Cardinality(M) \in Nat
      /\ Len(table) \in Nat /\ DOMAIN table = 1..Len(table)
  BY <1>2, Offsets, TableFacts
<1>7. TypeOK'
  <2>1. page' \in [page : Nat \ {0}, filter : Filter, rows : Seq(DOMAIN table'),
                   HasMore : BOOLEAN, total : 0..Len(table')]
    <3>1. s \in Seq(DOMAIN table)
      BY <1>2, <1>3
    <3>2. page \in [page : Nat \ {0}, filter : Filter, rows : Seq(DOMAIN table),
                    HasMore : BOOLEAN, total : 0..Len(table)]
      BY <1>2 DEF TypeOK
    <3>3. n \in Nat \ {0} /\ want.filter \in Filter
      BY <1>2, PageTypes
    <3>4. (Len(q) > eventsPerPage) \in BOOLEAN
      OBVIOUS
    <3>. QED  BY <1>1, <3>1, <3>2, <3>3, <3>4
  <2>2. ToSet(s) \subseteq DOMAIN table
    BY <1>2, <1>3
  <2>3. /\ trail' \subseteq DOMAIN table' /\ whole' \in BOOLEAN
        /\ repeats' \in Nat /\ base' \in 0..Len(table')
    <3>1. CASE want.link = "older"
      <4>1. trail \subseteq DOMAIN table /\ trail \cap ToSet(s) \in SUBSET DOMAIN table
        BY <1>2 DEF TypeOK
      <4>2. Cardinality(trail \cap ToSet(s)) \in Nat
        BY <1>2, <4>1, TableFacts
      <4>. QED  BY <1>1, <1>2, <2>2, <3>1, <4>1, <4>2 DEF ExtendTrail, TypeOK
    <3>2. CASE want.link # "older"
      BY <1>1, <1>6, <2>2, <3>2 DEF ExtendTrail
    <3>. QED  BY <3>1, <3>2
  <2>4. Len(page'.rows) <= eventsPerPage
    BY <1>3, <1>4
  <2>5. page'.HasMore => Len(page'.rows) = eventsPerPage
    BY <1>3, <1>4
  <2>. QED  BY <1>1, <1>2, <2>1, <2>3, <2>4, <2>5 DEF TypeOK
<1>8. CoverInv'
  <2>. SUFFICES ASSUME s # <<>>
                PROVE  Cardinality(M) >= Offset(n) + Len(s)
                            + (IF Len(q) > eventsPerPage THEN 1 ELSE 0)
    <3>1. Matching(page.filter)' = M
      BY <1>4, <1>5 DEF M
    <3>2. More' = IF Len(q) > eventsPerPage THEN 1 ELSE 0
      BY <1>4 DEF More
    <3>3. Offset(page.page)' = Offset(n)
      BY <1>4 DEF Offset
    <3>. QED  BY <1>4, <3>1, <3>2, <3>3 DEF CoverInv
  <2>. QED  BY <1>3, <1>6
<1>9. AskedInv' /\ CountCoversPage'
  BY <1>1, <1>4 DEF AskedInv, CountCoversPage
<1>10. \A b : \A x \in Upto(M, b) :
           Rank(Upto(M, b), x) \in Nat /\ Rank(Upto(M, b), x) <= Rank(M, x)
  <2>. SUFFICES ASSUME NEW b, NEW x \in Upto(M, b)
                PROVE  /\ Rank(Upto(M, b), x) \in Nat
                       /\ Rank(Upto(M, b), x) <= Rank(M, x)
    OBVIOUS
  <2>1. x \in M /\ Upto(M, b) \in SUBSET DOMAIN table
    BY <1>2 DEF Upto
  <2>. DEFINE P == {j \in Upto(M, b) : Before(j, x)}
              Q == {j \in M : Before(j, x)}
  <2>2. P \in SUBSET Q
    BY DEF Upto
  <2>3. IsFiniteSet(Q) /\ Rank(Upto(M, b), x) \in Nat
    BY <1>2, <2>1, RankTypes
  <2>. HIDE DEF P, Q
  <2>4. Cardinality(P) <= Cardinality(Q)
    BY <2>2, <2>3, FS_Subset
  <2>. QED  BY <2>3, <2>4 DEF Rank, P, Q
<1>11. CASE want.link = "older"
  <2>1. /\ want.filter = page.filter /\ n = page.page + 1
        /\ page.page \in Nat \ {0} /\ Offset(page.page) \in Nat
        /\ Offset(n) = Offset(page.page) + eventsPerPage + 1
    BY <1>1, <1>2, <1>11, PageTypes, Offsets DEF PagesInv, AskedInv
  <2>2. /\ trail' = trail \cup ToSet(s) /\ base' = base /\ base \in Nat
        /\ repeats' = Cardinality(trail \cap ToSet(s))
    BY <1>1, <1>2, <1>6, <1>11 DEF ExtendTrail, TypeOK
  <2>3. \A x \in trail : /\ x \in M
                         /\ x <= base => Rank(Upto(M, base), x)
                                             < Offset(page.page) + eventsPerPage
    BY <2>1 DEF PagesInv, TrailInv, M
  <2>4. TrailInv'
    <3>. SUFFICES ASSUME NEW x \in trail \cup ToSet(s)
                  PROVE  /\ x \in M
                         /\ x <= base => Rank(Upto(M, base), x)
                                             < Offset(n) + eventsPerPage
      <4>1. /\ Matching(page.filter)' = M /\ base' = base
            /\ Offset(page.page)' = Offset(n)
        BY <1>4, <1>5, <2>2 DEF M, Offset
      <4>2. Upto(Matching(page.filter), base)' = Upto(M, base)
        BY <4>1 DEF Upto
      <4>3. \A x : Rank(Upto(Matching(page.filter), base), x)' =
                      Rank(Upto(M, base), x)
        BY <1>1, <4>2 DEF Rank, Before
      <4>. QED  BY <2>2, <4>1, <4>3 DEF TrailInv
    <3>1. x \in M
      BY <1>3, <2>3
    <3>2. x <= base => x \in Upto(M, base)
      BY <3>1 DEF Upto
    <3>3. CASE x \in trail
      BY <1>6, <1>10, <2>1, <2>3, <3>1, <3>2, <3>3
    <3>4. CASE x \in ToSet(s)
      <4>1. Rank(M, x) < Offset(n) + eventsPerPage /\ Rank(M, x) \in Nat
        BY <1>2, <1>3, <3>1, <3>4, RankTypes
      <4>. QED  BY <1>6, <1>10, <3>1, <3>2, <4>1
    <3>. QED  BY <3>3, <3>4
  <2>5. RepeatsBoundedByArrivals'
    <3>. DEFINE c == Offset(page.page) + eventsPerPage
    <3>1. c \in Nat /\ ToSet(s) \in SUBSET M /\ trail \in SUBSET M
      BY <1>3, <1>6, <2>1, <2>3
    <3>2. \A x \in ToSet(s) : Rank(M, x) > c
      <4>1. \A x \in M : Rank(M, x) \in Nat
        BY <1>2, RankTypes
      <4>. QED  BY <1>3, <1>6, <2>1, <4>1
    <3>3. Cardinality(trail \cap ToSet(s)) <= Cardinality(Above(M, base))
      <4>1. \A x \in trail : x <= base => Rank(Upto(M, base), x) < c
        BY <2>3
      <4>. HIDE DEF c
      <4>. QED  BY <1>2, <2>2, <3>1, <3>2, <4>1, FewRepeats
    <3>4. Above(M, base) = {i \in Matching(page.filter) : i > base}'
      BY <1>4, <1>5, <2>2 DEF M, Above
    <3>. QED  BY <2>2, <3>3, <3>4 DEF RepeatsBoundedByArrivals
  <2>. QED  BY <1>7, <1>8, <1>9, <2>4, <2>5 DEF PagesInv
<1>12. CASE want.link # "older"
  <2>1. trail' = ToSet(s) /\ base' = Len(table) /\ repeats' = 0
    BY <1>1, <1>12 DEF ExtendTrail
  <2>2. Upto(M, Len(table)) = M
    BY <1>2, <1>6 DEF Upto
  <2>3. TrailInv'
    <3>1. Upto(Matching(page.filter), base)' = M /\ Matching(page.filter)' = M
      BY <1>4, <1>5, <2>1, <2>2 DEF Upto, M
    <3>2. \A x : Rank(Upto(Matching(page.filter), base), x)' = Rank(M, x)
      BY <1>1, <3>1 DEF Rank, Before
    <3>3. Offset(page.page)' = Offset(n)
      BY <1>4 DEF Offset
    <3>. QED  BY <1>3, <2>1, <3>1, <3>2, <3>3 DEF TrailInv
  <2>4. RepeatsBoundedByArrivals'
    <3>1. {i \in Matching(page.filter) : i > base}' \in SUBSET DOMAIN table
      BY <1>1 DEF Matching
    <3>2. Cardinality({i \in Matching(page.filter) : i > base}') \in Nat
      BY <1>2, <3>1, TableFacts
    <3>. QED  BY <2>1, <3>2 DEF RepeatsBoundedByArrivals
  <2>. QED  BY <1>7, <1>8, <1>9, <2>3, <2>4 DEF PagesInv
<1>. QED  BY <1>11, <1>12

LEMMA PagesNext == PagesInv /\ [Next]_vars => PagesInv'
<1>. SUFFICES ASSUME PagesInv, [Next]_vars PROVE PagesInv'
  OBVIOUS
<1>1. ASSUME NEW r \in Row, InsertEvents(r) PROVE PagesInv'
  BY <1>1, InsertKeeps
<1>2. ASSUME NEW p \in Nat \ {0}, NEW f \in Filter,
             NEW link \in {"open", "newer", "older"}, Ask(p, f, link),
             link = "older" => f = page.filter /\ p = page.page + 1
      PROVE  PagesInv'
  <2>1. /\ pc = "none" /\ pc' = "asked" /\ UNCHANGED <<table, page, history>>
        /\ want' = [page |-> p, filter |-> f, link |-> link]
    BY <1>2 DEF Ask
  <2>2. /\ \A g : Matching(g)' = Matching(g)
        /\ \A rows, x : Rank(rows, x)' = Rank(rows, x)
    BY <2>1, TableKept
  <2>3. TypeOK'
    <3>1. want' \in [page : Nat \ {0}, filter : Filter,
                     link : {"open", "newer", "older"}]
      BY <2>1
    <3>. QED  BY <2>1, <3>1 DEF PagesInv, TypeOK, history
  <2>4. AskedInv'
    BY <1>2, <2>1 DEF AskedInv
  <2>5. CoverInv' /\ CountCoversPage'
    BY <2>1, <2>2 DEF PagesInv, CoverInv, CountCoversPage, More
  <2>6. TrailInv' /\ RepeatsBoundedByArrivals'
    BY <2>1, <2>2
    DEF PagesInv, TrailInv, RepeatsBoundedByArrivals, history, Upto
  <2>. QED  BY <2>3, <2>4, <2>5, <2>6 DEF PagesInv
<1>3. CASE Newer
  <2>1. page.page - 1 \in Nat \ {0} /\ page.filter \in Filter
    BY <1>3, PageTypes DEF Newer, PagesInv
  <2>. QED  BY <1>2, <1>3, <2>1 DEF Newer
<1>4. CASE Older
  <2>1. page.page + 1 \in Nat \ {0} /\ page.filter \in Filter
    BY <1>4, PageTypes DEF PagesInv
  <2>. QED  BY <1>2, <1>4, <2>1 DEF Older
<1>5. CASE \E f \in Filter : Open(f)
  BY <1>2, <1>5 DEF Open
<1>6. CASE CountEvents("queried", "none")
  <2>. DEFINE M == Matching(want.filter)
  <2>1. /\ pc = "queried" /\ pc' = "none" /\ UNCHANGED <<table, want, history>>
        /\ want.filter = page.filter
    BY <1>6 DEF CountEvents, PagesInv, AskedInv
  <2>10. PICK count \in {0, Cardinality(M)} :
             page' = [page EXCEPT !.total = count]
    BY <1>6 DEF CountEvents
  <2>2. TypeOK /\ table \in Seq(Row) /\ M \in SUBSET DOMAIN table
    BY MatchingRows DEF PagesInv, TypeOK
  <2>3. /\ page'.page = page.page /\ page'.filter = page.filter
        /\ page'.rows = page.rows /\ page'.HasMore = page.HasMore
        /\ page'.total = count
    BY <2>10, <2>2 DEF TypeOK
  <2>4. /\ \A g : Matching(g)' = Matching(g)
        /\ \A rows, x : Rank(rows, x)' = Rank(rows, x)
    BY <2>1, TableKept
  <2>5. count \in 0..Len(table)
    <3>1. /\ Cardinality(M) \in Nat /\ Len(table) \in Nat
          /\ DOMAIN table = 1..Len(table)
      BY <2>2, TableFacts
    <3>2. IsFiniteSet(1..Len(table)) /\ Cardinality(1..Len(table)) = Len(table)
      <4>1. \A l \in Nat : IsFiniteSet(1..l) /\ Cardinality(1..l) = l
        BY FS_Interval
      <4>. QED  BY <3>1, <4>1
    <3>3. Cardinality(M) <= Cardinality(1..Len(table))
      <4>. HIDE DEF M
      <4>. QED  BY <2>2, <3>1, <3>2, FS_Subset
    <3>. QED  BY <2>10, <3>1, <3>2, <3>3
  <2>6. TypeOK'
    <3>1. page' \in [page : Nat \ {0}, filter : Filter, rows : Seq(DOMAIN table'),
                     HasMore : BOOLEAN, total : 0..Len(table')]
      <4>1. page \in [page : Nat \ {0}, filter : Filter, rows : Seq(DOMAIN table),
                      HasMore : BOOLEAN, total : 0..Len(table)]
        BY <2>2 DEF TypeOK
      <4>. HIDE DEF M
      <4>. QED  BY <2>1, <2>10, <2>5, <4>1
    <3>. QED  BY <2>1, <2>2, <2>3, <3>1 DEF TypeOK, history
  <2>7. CoverInv' /\ AskedInv'
    <3>1. Matching(page.filter)' = Matching(page.filter)
      BY <2>3, <2>4
    <3>2. Offset(page.page)' = Offset(page.page) /\ More' = More
      BY <2>3 DEF Offset, More
    <3>. QED  BY <2>1, <2>3, <3>1, <3>2 DEF PagesInv, CoverInv, AskedInv
  <2>8. CountCoversPage'
    <3>1. page.rows # <<>> => Cardinality(M) >= Offset(page.page)
                                 + Len(page.rows) + More
      BY <2>1 DEF PagesInv, CoverInv
    <3>2. Offset(page.page)' = Offset(page.page)
      BY <2>3 DEF Offset
    <3>. HIDE DEF M
    <3>. QED  BY <2>10, <2>3, <3>1, <3>2 DEF CountCoversPage, More
  <2>9. TrailInv' /\ RepeatsBoundedByArrivals'
    <3>1. Upto(Matching(page.filter), base)' = Upto(Matching(page.filter), base)
      BY <2>1, <2>3, <2>4 DEF history, Upto
    <3>2. \A x : Rank(Upto(Matching(page.filter), base), x)' =
                    Rank(Upto(Matching(page.filter), base), x)
      BY <2>1, <3>1 DEF Rank, Before
    <3>3. Matching(page.filter)' = Matching(page.filter)
          /\ Offset(page.page)' = Offset(page.page)
      BY <2>3, <2>4 DEF Offset
    <3>. QED
      BY <2>1, <3>2, <3>3
      DEF PagesInv, TrailInv, RepeatsBoundedByArrivals, history
  <2>. QED  BY <2>6, <2>7, <2>8, <2>9 DEF PagesInv
<1>9. CASE QueryFails
  <2>1. /\ pc = "asked" /\ pc' = "none"
        /\ UNCHANGED <<table, want, page, trail, whole, repeats, base>>
    BY <1>9 DEF QueryFails, history
  <2>2. /\ \A g : Matching(g)' = Matching(g)
        /\ \A rows, x : Rank(rows, x)' = Rank(rows, x)
    BY <2>1, TableKept
  <2>3. TypeOK' /\ AskedInv'
    BY <2>1 DEF PagesInv, TypeOK, AskedInv
  <2>4. CoverInv' /\ CountCoversPage'
    BY <2>1, <2>2 DEF PagesInv, CoverInv, CountCoversPage, More
  <2>5. TrailInv' /\ RepeatsBoundedByArrivals'
    BY <2>1, <2>2 DEF PagesInv, TrailInv, RepeatsBoundedByArrivals, Upto
  <2>. QED  BY <2>3, <2>4, <2>5 DEF PagesInv
<1>7. CASE QueryRows("asked", "queried")
  BY <1>7, QueryKeeps
<1>8. CASE UNCHANGED vars
  <2>1. UNCHANGED <<table, pc, want, page, trail, whole, repeats, base>>
    BY <1>8 DEF vars, history
  <2>2. /\ \A g : Matching(g)' = Matching(g)
        /\ \A rows, x : Rank(rows, x)' = Rank(rows, x)
    BY <2>1, TableKept
  <2>3. TypeOK' /\ AskedInv'
    BY <2>1 DEF PagesInv, TypeOK, AskedInv
  <2>4. CoverInv' /\ CountCoversPage'
    BY <2>1, <2>2 DEF PagesInv, CoverInv, CountCoversPage, More
  <2>5. TrailInv' /\ RepeatsBoundedByArrivals'
    BY <2>1, <2>2 DEF PagesInv, TrailInv, RepeatsBoundedByArrivals, Upto
  <2>. QED  BY <2>3, <2>4, <2>5 DEF PagesInv
<1>. QED
  BY <1>1, <1>3, <1>4, <1>5, <1>6, <1>7, <1>8, <1>9
  DEF Next, HandleEvents

LEMMA PagesKept == Spec => []PagesInv
  BY PagesInit, PagesNext, PTL DEF Spec

(* The table page is well-typed, never too long, and full if there is more.*)
THEOREM PageTypesKept == Spec => []TypeOK
<1>1. PagesInv => TypeOK
  BY DEF PagesInv
<1>. QED  BY PagesKept, <1>1, PTL

(* Going to older pages shows no more rows again than were inserted.       *)
THEOREM RepeatsBounded == Spec => []RepeatsBoundedByArrivals
<1>1. PagesInv => RepeatsBoundedByArrivals
  BY DEF PagesInv
<1>. QED  BY PagesKept, <1>1, PTL

(* The number above the table is never less than its pages imply, but for  *)
(* the 0 of a count that failed.                                           *)
THEOREM CountCovers == Spec => []CountCoversPage
<1>1. PagesInv => CountCoversPage
  BY DEF PagesInv
<1>. QED  BY PagesKept, <1>1, PTL

=============================================================================
