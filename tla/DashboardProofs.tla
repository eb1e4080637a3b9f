--------------------------- MODULE DashboardProofs ---------------------------
(* Theorems about what the dashboard and the query tool report (Reports),  *)
(* for every table of rows, every limit, and every way of inserts and      *)
(* queries among each other, and about who is let in (Access, at the end), *)
(* for all browsers, tokens and lifetimes.                                 *)
EXTENDS Reports, Access, FiniteSetTheorems, SequenceTheorems,
        WellFoundedInduction, TLAPS

-----------------------------------------------------------------------------
(* Sums over finite sets.  The provers have no induction for the function  *)
(* that a fold is made of; a least size up to which no function adds up    *)
(* stands for it.                                                          *)

(* The element that the fold takes next.                                   *)
First(s) == CHOOSE x \in s : TRUE

Total(w, g, s) == IF s = {} THEN 0 ELSE w[First(s)] + g[s \ {First(s)}]

AddsUp(w, S, g) == g = [s \in SUBSET S |-> Total(w, g, s)]

SumOf(w, S) == (CHOOSE g : AddsUp(w, S, g))[S]

LEMMA FoldIs ==
    ASSUME NEW t, NEW rows, NEW field
    PROVE  MapThenSumSet(LAMBDA i : t[i][field], rows) =
               SumOf([i \in rows |-> t[i][field]], rows)
<1>. DEFINE w == [i \in rows |-> t[i][field]]
            Q(g) == g = [s \in SUBSET rows |->
                            IF s = {} THEN 0
                            ELSE t[First(s)][field] + g[s \ {First(s)}]]
<1>1. MapThenSumSet(LAMBDA i : t[i][field], rows) = (CHOOSE g : Q(g))[rows]
  BY DEF MapThenSumSet, MapThenFoldSet, First
<1>2. \A g : Q(g) <=> AddsUp(w, rows, g)
  <2>. SUFFICES ASSUME NEW g PROVE Q(g) <=> AddsUp(w, rows, g)
    OBVIOUS
  <2>1. \A s \in SUBSET rows : s # {} => First(s) \in rows
    BY DEF First
  <2>. QED  BY <2>1 DEF AddsUp, Total
<1>3. (CHOOSE g : Q(g)) = (CHOOSE g : AddsUp(w, rows, g))
  <2>. HIDE DEF Q
  <2>. QED  BY <1>2
<1>. QED  BY <1>1, <1>3 DEF SumOf

LEMMA SumIs ==
    \A rows, field :
        Sum(rows, field) = SumOf([i \in rows |-> table[i][field]], rows)
  BY FoldIs DEF Sum

LEMMA SumIsThen ==
    (\A rows, field :
        Sum(rows, field) = SumOf([i \in rows |-> table[i][field]], rows))'
  BY SumIs, PTL

LEMMA LeastNumber ==
    ASSUME NEW T, T \subseteq Nat, T # {}
    PROVE  \E x \in T : \A y \in T : x <= y
<1>1. \E x \in T : \A y \in T : <<y, x>> \notin OpToRel(<, Nat)
  BY NatLessThanWellFounded, WFMin
<1>2. \A x, y \in Nat : <<y, x>> \notin OpToRel(<, Nat) => x <= y
  BY DEF OpToRel
<1>. QED  BY <1>1, <1>2

(* Of a set that is not empty, one element less.                           *)
LEMMA FirstTaken ==
    ASSUME NEW S, IsFiniteSet(S), NEW s \in SUBSET S, s # {}
    PROVE  /\ First(s) \in s /\ First(s) \in S /\ s \ {First(s)} \in SUBSET S
           /\ Cardinality(s) \in Nat
           /\ Cardinality(s \ {First(s)}) \in Nat
           /\ Cardinality(s \ {First(s)}) < Cardinality(s)
<1>1. First(s) \in s
  BY DEF First
<1>2. IsFiniteSet(s) /\ Cardinality(s) \in Nat
  BY FS_Subset, FS_CardinalityType
<1>3. Cardinality(s \ {First(s)}) = Cardinality(s) - 1
  BY <1>1, <1>2, FS_RemoveElement
<1>4. IsFiniteSet(s \ {First(s)}) /\ Cardinality(s \ {First(s)}) \in Nat
  BY <1>1, <1>2, FS_RemoveElement, FS_CardinalityType
<1>. QED  BY <1>1, <1>2, <1>3, <1>4

(* What adds up for the subsets of up to n elements.                       *)
AddsUpTo(w, S, g, n) ==
    /\ g \in [SUBSET S -> Nat]
    /\ \A s \in SUBSET S : Cardinality(s) <= n => g[s] = Total(w, g, s)

LEMMA AddedUp ==
    ASSUME NEW S, IsFiniteSet(S), NEW w, \A i \in S : w[i] \in Nat, NEW n \in Nat
    PROVE  \E g : AddsUpTo(w, S, g, n)
<1>. DEFINE Bad == {m \in Nat : ~ \E g : AddsUpTo(w, S, g, m)}
<1>1. SUFFICES ASSUME Bad # {} PROVE FALSE
  OBVIOUS
<1>2. PICK m \in Bad : \A k \in Bad : m <= k
  BY <1>1, LeastNumber
<1>3. \A s \in SUBSET S : Cardinality(s) \in Nat
  BY FS_Subset, FS_CardinalityType
<1>4. CASE m = 0
  <2>. DEFINE z == [s \in SUBSET S |-> 0]
  <2>1. \A s \in SUBSET S : Cardinality(s) <= 0 => s = {}
    <3>1. \A s \in SUBSET S : Cardinality(s) <= 0 => Cardinality(s) = 0
      BY <1>3
    <3>2. \A s \in SUBSET S : IsFiniteSet(s)
      BY FS_Subset
    <3>. QED  BY <3>1, <3>2, FS_EmptySet
  <2>2. AddsUpTo(w, S, z, 0)
    BY <2>1 DEF AddsUpTo, Total
  <2>. QED  BY <1>2, <1>4, <2>2
<1>5. CASE m > 0
  <2>1. m - 1 \in Nat /\ m - 1 \notin Bad
    BY <1>2, <1>5
  <2>2. PICK h : AddsUpTo(w, S, h, m - 1)
    BY <2>1
  <2>. DEFINE g == [s \in SUBSET S |-> Total(w, h, s)]
  <2>3. \A s \in SUBSET S : Total(w, h, s) \in Nat
    <3>. SUFFICES ASSUME NEW s \in SUBSET S PROVE Total(w, h, s) \in Nat
      OBVIOUS
    <3>1. CASE s = {}
      BY <3>1 DEF Total
    <3>2. CASE s # {}
      <4>1. w[First(s)] \in Nat /\ h[s \ {First(s)}] \in Nat
        BY <2>2, <3>2, FirstTaken DEF AddsUpTo
      <4>. QED  BY <3>2, <4>1 DEF Total
    <3>. QED  BY <3>1, <3>2
  <2>4. ASSUME NEW s \in SUBSET S, Cardinality(s) <= m
        PROVE  g[s] = Total(w, g, s)
    <3>1. CASE s = {}
      BY <3>1 DEF Total
    <3>2. CASE s # {}
      <4>. DEFINE t == s \ {First(s)}
      <4>1. t \in SUBSET S /\ Cardinality(t) <= m - 1
        BY <1>3, <2>1, <2>4, <3>2, FirstTaken
      <4>2. h[t] = Total(w, h, t)
        BY <2>2, <4>1 DEF AddsUpTo
      <4>3. g[t] = h[t]
        BY <4>1, <4>2
      <4>. QED  BY <3>2, <4>3 DEF Total
    <3>. QED  BY <3>1, <3>2
  <2>5. AddsUpTo(w, S, g, m)
    <3>1. g \in [SUBSET S -> Nat]
      BY <2>3
    <3>. HIDE DEF g
    <3>. QED  BY <2>4, <3>1 DEF AddsUpTo
  <2>. QED  BY <1>2, <2>5
<1>. QED  BY <1>2, <1>4, <1>5

LEMMA SumOfFacts ==
    ASSUME NEW S, IsFiniteSet(S), NEW w, \A i \in S : w[i] \in Nat
    PROVE  SumOf(w, S) \in Nat /\ (S = {} => SumOf(w, S) = 0)
<1>1. \A s \in SUBSET S : /\ Cardinality(s) \in Nat
                          /\ Cardinality(s) <= Cardinality(S)
  BY FS_Subset, FS_CardinalityType
<1>2. PICK h : AddsUpTo(w, S, h, Cardinality(S))
  BY AddedUp, FS_CardinalityType
<1>3. AddsUp(w, S, h)
  <2>1. \A s \in SUBSET S : h[s] = Total(w, h, s)
    BY <1>1, <1>2 DEF AddsUpTo
  <2>2. h = [s \in SUBSET S |-> h[s]]
    BY <1>2 DEF AddsUpTo
  <2>. QED  BY <2>1, <2>2 DEF AddsUp
<1>. DEFINE f == CHOOSE g : AddsUp(w, S, g)
<1>4. AddsUp(w, S, f)
  BY <1>3
<1>. HIDE DEF f
<1>5. \A s \in SUBSET S : f[s] = Total(w, f, s)
  BY <1>4 DEF AddsUp
<1>6. \A s \in SUBSET S : f[s] \in Nat
  <2>. DEFINE Bad == {s \in SUBSET S : f[s] \notin Nat}
  <2>0. SUFFICES ASSUME Bad # {} PROVE FALSE
    OBVIOUS
  <2>. DEFINE Sizes == {Cardinality(s) : s \in Bad}
  <2>1. Sizes \subseteq Nat /\ Sizes # {}
    BY <1>1, <2>0
  <2>2. PICK c \in Sizes : \A k \in Sizes : c <= k
    <3>. HIDE DEF Sizes
    <3>. QED  BY <2>1, LeastNumber
  <2>3. PICK s \in Bad : c = Cardinality(s)
    BY <2>2
  <2>4. CASE s = {}
    <3>1. f[s] = 0
      BY <1>5, <2>4 DEF Total
    <3>. QED  BY <2>3, <3>1
  <2>5. CASE s # {}
    <3>. DEFINE t == s \ {First(s)}
    <3>1. /\ t \in SUBSET S /\ First(s) \in S
          /\ Cardinality(t) \in Nat /\ Cardinality(t) < c /\ c \in Nat
      BY <2>3, <2>5, FirstTaken
    <3>2. t \notin Bad
      BY <2>2, <3>1
    <3>3. f[t] \in Nat /\ w[First(s)] \in Nat
      BY <3>1, <3>2
    <3>4. f[s] = w[First(s)] + f[t]
      BY <1>5, <2>5 DEF Total
    <3>. QED  BY <3>3, <3>4
  <2>. QED  BY <2>4, <2>5
<1>7. S = {} => f[S] = 0
  BY <1>5 DEF Total
<1>. QED  BY <1>6, <1>7 DEF SumOf, f

(* A sum of numbers of finitely many rows is a number.                     *)
LEMMA SumFacts ==
    ASSUME NEW rows, IsFiniteSet(rows), NEW field,
           \A i \in rows : table[i][field] \in Nat
    PROVE  Sum(rows, field) \in Nat /\ (rows = {} => Sum(rows, field) = 0)
<1>. DEFINE w == [i \in rows |-> table[i][field]]
<1>1. \A i \in rows : w[i] \in Nat
  OBVIOUS
<1>2. Sum(rows, field) = SumOf(w, rows)
  BY SumIs
<1>. HIDE DEF w
<1>. QED  BY <1>1, <1>2, SumOfFacts

(* It is of the rows and their numbers only.                               *)
LEMMA SumKept ==
    ASSUME NEW rows, NEW field,
           \A i \in rows : table'[i][field] = table[i][field]
    PROVE  Sum(rows, field)' = Sum(rows, field)
<1>1. [i \in rows |-> table'[i][field]] = [i \in rows |-> table[i][field]]
  OBVIOUS
<1>2. Sum(rows, field)' = SumOf([i \in rows |-> table'[i][field]], rows)
  BY SumIsThen
<1>. QED  BY <1>1, <1>2, SumIs

LEMMA MinIs ==
    ASSUME NEW S \in SUBSET Nat, S # {}
    PROVE  Min(S) \in S /\ \A y \in S : Min(S) <= y
<1>1. \E x \in S : \A y \in S : x <= y
  BY LeastNumber
<1>. QED  BY <1>1 DEF Min

(* The element that the fewest are above has none above it.                *)
LEMMA MaxIs ==
    ASSUME NEW S \in SUBSET Nat, S # {}, IsFiniteSet(S)
    PROVE  Max(S) \in S /\ \A y \in S : Max(S) >= y
<1>. DEFINE Up(x) == {y \in S : y > x}
            Counts == {Cardinality(Up(x)) : x \in S}
<1>1. \A x \in S : IsFiniteSet(Up(x)) /\ Cardinality(Up(x)) \in Nat
  <2>. SUFFICES ASSUME NEW x \in S
                PROVE  IsFiniteSet(Up(x)) /\ Cardinality(Up(x)) \in Nat
    OBVIOUS
  <2>1. Up(x) \in SUBSET S
    OBVIOUS
  <2>. HIDE DEF Up
  <2>. QED  BY <2>1, FS_Subset, FS_CardinalityType
<1>2. Counts \subseteq Nat /\ Counts # {}
  <2>. HIDE DEF Up
  <2>. QED  BY <1>1
<1>3. PICK c \in Counts : \A d \in Counts : c <= d
  <2>. HIDE DEF Counts
  <2>. QED  BY <1>2, LeastNumber
<1>4. PICK x \in S : c = Cardinality(Up(x))
  BY <1>3
<1>5. \A y \in S : x >= y
  <2>0. SUFFICES ASSUME NEW y \in S, y > x PROVE FALSE
    OBVIOUS
  <2>1. Up(y) \in SUBSET Up(x) /\ y \in Up(x) /\ y \notin Up(y)
    <3>1. x \in Nat /\ y \in Nat /\ \A z \in S : z \in Nat
      OBVIOUS
    <3>2. \A z \in S : z > y => z > x
      BY <2>0, <3>1
    <3>3. ~(y > y)
      BY <3>1
    <3>. QED  BY <2>0, <3>2, <3>3, Zenon
  <2>2. Cardinality(Up(y)) \in Counts
    OBVIOUS
  <2>. HIDE DEF Up, Counts
  <2>3. Cardinality(Up(y)) <= c /\ Cardinality(Up(y)) # c
    BY <1>1, <1>4, <2>1, FS_Subset
  <2>. QED  BY <1>1, <1>3, <1>4, <2>2, <2>3
<1>6. \E m \in S : \A y \in S : m >= y
  BY <1>5
<1>. QED  BY <1>6 DEF Max

-----------------------------------------------------------------------------
(* The table: what it says of its first rows, it says as long as it grows. *)

Figures == {"cost", "users", "heat", "views", "edits", "average", "unique",
            "categories"}

LEMMA FigureIs == Figure = Figures /\ \A f \in Figures : f \notin {"idle", "render"}
  BY DEF Figure, After, Figures

LEMMA TableFacts ==
    ASSUME table \in Seq(Row)
    PROVE  /\ Len(table) \in Nat /\ DOMAIN table = 1..Len(table)
           /\ \A i \in DOMAIN table :
                 /\ table[i] \in Row
                 /\ table[i].tokens \in Nat /\ table[i].cost \in Nat
                 /\ table[i].slot \in Slot \cup {None}
                 /\ table[i].time \in Nat \cup {None}
           /\ \A M \in SUBSET DOMAIN table :
                 IsFiniteSet(M) /\ Cardinality(M) \in Nat
<1>1. Len(table) \in Nat /\ DOMAIN table = 1..Len(table)
  OBVIOUS
<1>2. \A i \in DOMAIN table : table[i] \in Row
  OBVIOUS
<1>3. \A r \in Row : /\ r.tokens \in Nat /\ r.cost \in Nat
                     /\ r.slot \in Slot \cup {None}
                     /\ r.time \in Nat \cup {None}
  <2>1. \A r \in Row : r \in RowType
    BY ReportsAssumption
  <2>. QED  BY <2>1 DEF RowType
<1>4. IsFiniteSet(DOMAIN table)
  BY <1>1, FS_Interval
<1>5. \A M \in SUBSET DOMAIN table : IsFiniteSet(M) /\ Cardinality(M) \in Nat
  BY <1>4, FS_Subset, FS_CardinalityType
<1>. QED  BY <1>1, <1>2, <1>3, <1>5

(* As many values as rows at most.                                         *)
LEMMA DistinctFinite ==
    ASSUME table \in Seq(Row), NEW M \in SUBSET DOMAIN table, NEW field
    PROVE  /\ IsFiniteSet(Distinct(M, field))
           /\ Cardinality(Distinct(M, field)) \in Nat
<1>. DEFINE H == Having(M, field)
            f == [i \in H |-> table[i][field]]
<1>1. H \in SUBSET DOMAIN table
  BY DEF Having
<1>2. IsFiniteSet(H)
  BY <1>1, TableFacts
<1>3. Distinct(M, field) = {f[i] : i \in H}
  BY DEF Distinct
<1>4. f \in Surjection(H, Distinct(M, field))
  BY <1>3 DEF Surjection
<1>5. IsFiniteSet(Distinct(M, field))
  <2>. HIDE DEF f, H
  <2>. QED  BY <1>2, <1>4, FS_Surjection
<1>. QED  BY <1>5, FS_CardinalityType

(* More rows have no fewer values.                                         *)
LEMMA DistinctGrows ==
    ASSUME table \in Seq(Row), NEW M \in SUBSET DOMAIN table, NEW N \in SUBSET M,
           NEW field
    PROVE  Cardinality(Distinct(N, field)) <= Cardinality(Distinct(M, field))
<1>1. Distinct(N, field) \in SUBSET Distinct(M, field)
  BY DEF Distinct, Having
<1>. QED  BY <1>1, DistinctFinite, FS_Subset

(* The rows are counted, timed, and priced in what follows among the first *)
(* n of the table.                                                         *)
RowsUpTo(n, events) == {i \in 1..n : table[i].event \in events}

LEMMA OfIs ==
    ASSUME table \in Seq(Row), NEW events
    PROVE  /\ Of(events) = RowsUpTo(Len(table), events)
           /\ Of(events) \in SUBSET DOMAIN table
  BY TableFacts DEF Of, RowsUpTo

(* A step leaves the rows where they are.                                  *)
Grows ==
    /\ table \in Seq(Row) /\ table' \in Seq(Row)
    /\ Len(table') >= Len(table)
    /\ \A i \in DOMAIN table : table'[i] = table[i]

LEMMA RowsKept ==
    ASSUME Grows
    PROVE  /\ \A events : \A n \in 0..Len(table) :
                  RowsUpTo(n, events)' = RowsUpTo(n, events)
           /\ \A field : \A M \in SUBSET DOMAIN table :
                  /\ Having(M, field)' = Having(M, field)
                  /\ Distinct(M, field)' = Distinct(M, field)
                  /\ Sum(M, field)' = Sum(M, field)
<1>1. table \in Seq(Row) /\ \A i \in DOMAIN table : table'[i] = table[i]
  BY DEF Grows
<1>2. DOMAIN table = 1..Len(table) /\ Len(table) \in Nat
  BY <1>1, TableFacts
<1>3. \A events : \A n \in 0..Len(table) :
          RowsUpTo(n, events)' = RowsUpTo(n, events)
  <2>1. \A n \in 0..Len(table) : \A i \in 1..n : i \in DOMAIN table
    BY <1>2
  <2>. QED  BY <1>1, <2>1 DEF RowsUpTo
<1>4. \A field : \A M \in SUBSET DOMAIN table :
          Having(M, field)' = Having(M, field)
  BY <1>1 DEF Having
<1>5. \A field : \A M \in SUBSET DOMAIN table :
          Distinct(M, field)' = Distinct(M, field)
  <2>. SUFFICES ASSUME NEW M \in SUBSET DOMAIN table, NEW field
                PROVE  Distinct(M, field)' = Distinct(M, field)
    OBVIOUS
  <2>1. \A i \in Having(M, field) : table'[i][field] = table[i][field]
    BY <1>1 DEF Having
  <2>. QED  BY <1>4, <2>1 DEF Distinct
<1>6. \A field : \A M \in SUBSET DOMAIN table : Sum(M, field)' = Sum(M, field)
  BY <1>1, SumKept
<1>. QED  BY <1>3, <1>4, <1>5, <1>6

-----------------------------------------------------------------------------
(* What the figures of a page are, each of the n rows there were when it   *)
(* was queried.                                                            *)

Requests(n) == RowsUpTo(n, {"llm.request"})
Timed(n)    == Having(RowsUpTo(n, {"entry.edited"}), "time")

(* A value of zero is that of a query that failed, or not made yet.        *)
CostRight(v, n)  == v \in {0, Sum(Requests(n), "cost")}
UsersRight(v, n) == v \in {0, Cardinality(Distinct(1..n, "device"))}
TokensAt(rows, s) == Sum({i \in rows : table[i].slot = s}, "tokens")
HeatRight(v, n) ==
    /\ Having(Requests(n), "slot") = Requests(n)
    /\ v = [s \in Distinct(Requests(n), "slot") |-> TokensAt(Requests(n), s)]
AverageRight(v, n) == v * Cardinality(Timed(n)) = Sum(Timed(n), "time")
UniqueRight(v, n) ==
    v = Cardinality(Distinct(RowsUpTo(n, Entries), "entry"))

(* Where the page is when a figure has been queried.                       *)
Since ==
    [users   |-> {"heat", "views", "edits", "average", "unique",
                  "categories", "render"},
     heat    |-> {"views", "edits", "average", "unique", "categories", "render"},
     average |-> {"unique", "categories", "render"},
     unique  |-> {"categories", "render"}]

(* The figures are right of the rows of their time, those that are compared*)
(* with others come after them, and the tool keeps its word.               *)
ReportsInv ==
    /\ TypeOK
    /\ CostRight(figures["cost"], at["cost"])
    /\ UsersRight(figures["users"], at["users"])
    /\ pc \in Since["users"] => at["cost"] <= at["users"]
    /\ pc \in Since["heat"] /\ "heat" \notin logged =>
           HeatRight(figures["heat"], at["heat"])
    /\ pc \in Since["average"] /\ "average" \notin logged =>
           AverageRight(figures["average"], at["average"])
    /\ pc \in Since["unique"] =>
           at["views"] <= at["unique"] /\ at["edits"] <= at["unique"]
    /\ pc \in Since["unique"] /\ "unique" \notin logged =>
           UniqueRight(figures["unique"], at["unique"])
    /\ answer = "rows" => results = Selected

LEMMA TokensKept ==
    ASSUME Grows
    PROVE  \A s : \A M \in SUBSET DOMAIN table : TokensAt(M, s)' = TokensAt(M, s)
<1>. SUFFICES ASSUME NEW s, NEW M \in SUBSET DOMAIN table
              PROVE  TokensAt(M, s)' = TokensAt(M, s)
  OBVIOUS
<1>1. PICK X : X = {i \in M : table[i].slot = s}
  OBVIOUS
<1>2. X \in SUBSET DOMAIN table
  BY <1>1
<1>3. {i \in M : table'[i].slot = s} = X
  BY <1>1 DEF Grows
<1>4. TokensAt(M, s)' = Sum(X, "tokens")'
  BY <1>3 DEF TokensAt
<1>5. Sum(X, "tokens")' = Sum(X, "tokens")
  BY <1>2, RowsKept
<1>. QED  BY <1>1, <1>4, <1>5 DEF TokensAt

LEMMA RightKept ==
    ASSUME Grows
    PROVE  \A v : \A n \in 0..Len(table) :
               /\ CostRight(v, n)' = CostRight(v, n)
               /\ UsersRight(v, n)' = UsersRight(v, n)
               /\ HeatRight(v, n)' = HeatRight(v, n)
               /\ AverageRight(v, n)' = AverageRight(v, n)
               /\ UniqueRight(v, n)' = UniqueRight(v, n)
<1>. SUFFICES ASSUME NEW v, NEW n \in 0..Len(table)
              PROVE  /\ CostRight(v, n)' = CostRight(v, n)
                     /\ UsersRight(v, n)' = UsersRight(v, n)
                     /\ HeatRight(v, n)' = HeatRight(v, n)
                     /\ AverageRight(v, n)' = AverageRight(v, n)
                     /\ UniqueRight(v, n)' = UniqueRight(v, n)
  OBVIOUS
<1>1. /\ table \in Seq(Row) /\ Len(table) \in Nat /\ DOMAIN table = 1..Len(table)
      /\ \A i \in DOMAIN table : table'[i] = table[i]
  BY TableFacts DEF Grows
<1>2. /\ 1..n \in SUBSET DOMAIN table
      /\ \A events : RowsUpTo(n, events) \in SUBSET DOMAIN table
  BY <1>1 DEF RowsUpTo
<1>3. \A events : RowsUpTo(n, events)' = RowsUpTo(n, events)
  BY RowsKept
<1>. DEFINE R == Requests(n)
            T == Timed(n)
<1>4. R \in SUBSET DOMAIN table /\ T \in SUBSET DOMAIN table
  BY <1>2 DEF Requests, Timed, Having
<1>5. Requests(n)' = R
  BY <1>3 DEF Requests
<1>6. Timed(n)' = T
  BY <1>2, <1>3, RowsKept DEF Timed
<1>. HIDE DEF R, T
<1>7. CostRight(v, n)' = CostRight(v, n)
  BY <1>4, <1>5, RowsKept DEF CostRight, R
<1>8. UsersRight(v, n)' = UsersRight(v, n)
  BY <1>2, RowsKept DEF UsersRight
<1>9. HeatRight(v, n)' = HeatRight(v, n)
  <2>1. PICK S : S = Requests(n)
    OBVIOUS
  <2>2. S \in SUBSET DOMAIN table /\ Requests(n)' = S
    BY <1>4, <1>5, <2>1 DEF R
  <2>3. Having(S, "slot")' = Having(S, "slot")
        /\ Distinct(S, "slot")' = Distinct(S, "slot")
    BY <2>2, RowsKept
  <2>4. \A s : TokensAt(S, s)' = TokensAt(S, s)
    BY <2>2, TokensKept
  <2>. QED  BY <2>1, <2>2, <2>3, <2>4 DEF HeatRight
<1>10. AverageRight(v, n)' = AverageRight(v, n)
  BY <1>4, <1>6, RowsKept DEF AverageRight, T
<1>11. UniqueRight(v, n)' = UniqueRight(v, n)
  BY <1>2, <1>3, RowsKept DEF UniqueRight
<1>. QED  BY <1>7, <1>8, <1>9, <1>10, <1>11

-----------------------------------------------------------------------------
(* The steps.                                                              *)

LEMMA Growing ==
    ASSUME TypeOK,
           \/ table' = table
           \/ \E r \in Row : table' = Append(table, r)
    PROVE  Grows
<1>1. table \in Seq(Row) /\ Len(table) \in Nat /\ DOMAIN table = 1..Len(table)
  BY TableFacts DEF TypeOK
<1>2. CASE table' = table
  BY <1>1, <1>2 DEF Grows
<1>3. ASSUME NEW r \in Row, table' = Append(table, r) PROVE Grows
  <2>0. Append(table, r) \in Seq(Row) /\ Len(Append(table, r)) = Len(table) + 1
    BY <1>1, AppendProperties
  <2>1. table' \in Seq(Row) /\ Len(table') = Len(table) + 1
    BY <1>3, <2>0, Zenon
  <2>2. \A i \in 1..Len(table) : table'[i] = table[i]
    <3>1. \A i \in 1..Len(table) : Append(table, r)[i] = table[i]
      BY <1>1, AppendProperties
    <3>. QED  BY <1>3, <3>1, Zenon
  <2>. QED  BY <1>1, <2>1, <2>2 DEF Grows
<1>. QED  BY <1>2, <1>3

LEMMA Places ==
    ASSUME TypeOK
    PROVE  \A f \in Figures : at[f] \in 0..Len(table)
  BY FigureIs DEF TypeOK

(* A step that leaves the figures alone.                                   *)
LEMMA FiguresKept ==
    ASSUME ReportsInv, Grows, UNCHANGED page, TypeOK',
           \A f \in {"users", "heat", "average", "unique"} :
               pc' \in Since[f] => pc \in Since[f],
           (answer = "rows" => results = Selected)'
    PROVE  ReportsInv'
<1>1. TypeOK /\ UNCHANGED <<figures, logged, at>>
  BY DEF ReportsInv, page
<1>2. \A f \in Figures : at[f] \in 0..Len(table)
  BY <1>1, Places
<1>3. /\ CostRight(figures["cost"], at["cost"])'
      /\ UsersRight(figures["users"], at["users"])'
  BY <1>1, <1>2, RightKept DEF ReportsInv, Figures
<1>4. (pc \in Since["users"] => at["cost"] <= at["users"])'
  BY <1>1 DEF ReportsInv, Since
<1>5. (pc \in Since["heat"] /\ "heat" \notin logged =>
           HeatRight(figures["heat"], at["heat"]))'
  BY <1>1, <1>2, RightKept DEF ReportsInv, Figures, Since
<1>6. (pc \in Since["average"] /\ "average" \notin logged =>
           AverageRight(figures["average"], at["average"]))'
  BY <1>1, <1>2, RightKept DEF ReportsInv, Figures, Since
<1>7. (pc \in Since["unique"] =>
           at["views"] <= at["unique"] /\ at["edits"] <= at["unique"])'
  BY <1>1 DEF ReportsInv, Since
<1>8. (pc \in Since["unique"] /\ "unique" \notin logged =>
           UniqueRight(figures["unique"], at["unique"]))'
  BY <1>1, <1>2, RightKept DEF ReportsInv, Figures, Since
<1>. QED  BY <1>3, <1>4, <1>5, <1>6, <1>7, <1>8 DEF ReportsInv

(* A value that may be the figure f.                                       *)
Fits(f, value, ok) ==
    /\ f \notin {"heat", "categories"} => value \in Nat
    /\ f = "heat" => DOMAIN value \subseteq Slot
    /\ f = "categories" => Cardinality(DOMAIN value) <= TopLimit
    /\ f = "cost" => CostRight(value, Len(table))
    /\ f = "users" => UsersRight(value, Len(table))
    /\ f = "heat" /\ ok => HeatRight(value, Len(table))
    /\ f = "average" /\ ok => AverageRight(value, Len(table))
    /\ f = "unique" /\ ok => UniqueRight(value, Len(table))

LEMMA AnsweredKeeps ==
    ASSUME ReportsInv, NEW f \in Figures, NEW value, NEW ok \in BOOLEAN,
           Fits(f, value, ok), Answered(f, value, ok), failures' \in 0..MaxFailures
    PROVE  ReportsInv'
<1>1. /\ pc = f /\ pc' = After[f]
      /\ figures' = [figures EXCEPT ![f] = value]
      /\ logged' = IF ok THEN logged ELSE logged \cup {f}
      /\ at' = [at EXCEPT ![f] = Len(table)]
      /\ UNCHANGED <<table, snapshot, filter, results, answer>>
  BY DEF Answered, tool
<1>2. TypeOK /\ Grows
  BY <1>1, Growing DEF ReportsInv
<1>3. Len(table) \in Nat /\ Len(table)' = Len(table)
  BY <1>1, <1>2, TableFacts DEF TypeOK
<1>4. /\ DOMAIN figures' = Figures
      /\ figures'[f] = value
      /\ \A g \in Figures : g # f => figures'[g] = figures[g]
  BY <1>1, <1>2, FigureIs DEF TypeOK
<1>5. /\ at' \in [Figure -> 0..Len(table)]
      /\ at'[f] = Len(table)
      /\ \A g \in Figures : g # f => at'[g] = at[g]
      /\ \A g \in Figures : at[g] \in 0..Len(table)
  BY <1>1, <1>2, <1>3, FigureIs DEF TypeOK
<1>6. /\ logged' \subseteq Figure /\ (ok \/ f \in logged')
      /\ \A g \in Figures : g # f => (g \in logged' <=> g \in logged)
  BY <1>1, <1>2, FigureIs DEF TypeOK
<1>7. pc' \in Figure \cup {"idle", "render", "scan"}
  BY <1>1, FigureIs DEF After, Figures
<1>8. TypeOK'
  <2>1. \A g \in Figure \ {"heat", "categories"} : figures'[g] \in Nat
    BY <1>2, <1>4, FigureIs DEF TypeOK, Fits
  <2>2. DOMAIN figures'["heat"] \subseteq Slot
    BY <1>2, <1>4 DEF TypeOK, Fits, Figures
  <2>3. Cardinality(DOMAIN figures'["categories"]) <= TopLimit
    BY <1>2, <1>4 DEF TypeOK, Fits, Figures
  <2>4. Selected' = Selected
    BY <1>1 DEF Selected
  <2>. QED
    BY <1>1, <1>2, <1>3, <1>4, <1>5, <1>6, <1>7, <2>1, <2>2, <2>3, <2>4, FigureIs
    DEF TypeOK
<1>9. \A v : \A n \in 0..Len(table) :
          /\ CostRight(v, n)' = CostRight(v, n)
          /\ UsersRight(v, n)' = UsersRight(v, n)
          /\ HeatRight(v, n)' = HeatRight(v, n)
          /\ AverageRight(v, n)' = AverageRight(v, n)
          /\ UniqueRight(v, n)' = UniqueRight(v, n)
  BY <1>2, RightKept
<1>10. Len(table) \in 0..Len(table)
  BY <1>3
<1>11. CostRight(figures["cost"], at["cost"])'
  BY <1>3, <1>4, <1>5, <1>9, <1>10 DEF ReportsInv, Fits, Figures
<1>12. UsersRight(figures["users"], at["users"])'
  BY <1>3, <1>4, <1>5, <1>9, <1>10 DEF ReportsInv, Fits, Figures
<1>13. (pc \in Since["users"] => at["cost"] <= at["users"])'
  BY <1>1, <1>3, <1>5 DEF ReportsInv, Figures, Since, After
<1>14. (pc \in Since["heat"] /\ "heat" \notin logged =>
            HeatRight(figures["heat"], at["heat"]))'
  BY <1>1, <1>4, <1>5, <1>6, <1>9, <1>10
  DEF ReportsInv, Fits, Figures, Since, After
<1>15. (pc \in Since["average"] /\ "average" \notin logged =>
            AverageRight(figures["average"], at["average"]))'
  BY <1>1, <1>4, <1>5, <1>6, <1>9, <1>10
  DEF ReportsInv, Fits, Figures, Since, After
<1>16. (pc \in Since["unique"] =>
            at["views"] <= at["unique"] /\ at["edits"] <= at["unique"])'
  BY <1>1, <1>3, <1>5 DEF ReportsInv, Figures, Since, After
<1>17. (pc \in Since["unique"] /\ "unique" \notin logged =>
            UniqueRight(figures["unique"], at["unique"]))'
  BY <1>1, <1>4, <1>5, <1>6, <1>9, <1>10
  DEF ReportsInv, Fits, Figures, Since, After
<1>18. (answer = "rows" => results = Selected)'
  BY <1>1 DEF ReportsInv, Selected
<1>. QED
  BY <1>8, <1>11, <1>12, <1>13, <1>14, <1>15, <1>16, <1>17, <1>18
  DEF ReportsInv

LEMMA ZeroIs ==
    /\ DOMAIN Zero = Figure
    /\ \A f \in Figure \ {"heat", "categories"} : Zero[f] = 0
    /\ DOMAIN Zero["heat"] = {}
    /\ Cardinality(DOMAIN Zero["categories"]) = 0
    /\ \A n : CostRight(Zero["cost"], n) /\ UsersRight(Zero["users"], n)
<1>1. /\ DOMAIN Zero = Figure
      /\ Zero["heat"] = NoMap /\ Zero["categories"] = NoMap
      /\ \A f \in Figure \ {"heat", "categories"} : Zero[f] = 0
  BY FigureIs DEF Zero, Figures
<1>2. DOMAIN NoMap = {} /\ Cardinality({}) = 0
  BY FS_EmptySet DEF NoMap
<1>3. Zero["cost"] = 0 /\ Zero["users"] = 0
  BY <1>1, FigureIs DEF Figures
<1>4. \A n : CostRight(Zero["cost"], n) /\ UsersRight(Zero["users"], n)
  BY <1>3 DEF CostRight, UsersRight
<1>. QED  BY <1>1, <1>2, <1>4

LEMMA ZeroRight ==
    CostRight(Zero["cost"], at["cost"]) /\ UsersRight(Zero["users"], at["users"])
  BY ZeroIs

LEMMA ReportsInit == Init => ReportsInv
<1>. SUFFICES ASSUME Init PROVE ReportsInv
  OBVIOUS
<1>1. /\ table = <<>> /\ pc = "idle" /\ figures = Zero /\ logged = {}
      /\ at = [f \in Figure |-> 0]
      /\ snapshot = 0 /\ filter = {} /\ results = {} /\ answer = "none"
      /\ failures = 0
  BY DEF Init
<1>2. table \in Seq(Row) /\ Len(table) = 0 /\ Cardinality(results) = 0
  BY <1>1, FS_EmptySet
<1>3. at \in [Figure -> 0..Len(table)]
  BY <1>1, <1>2
<1>4. TypeOK
  BY <1>1, <1>2, <1>3, ZeroIs, ReportsAssumption DEF TypeOK
<1>. QED  BY <1>1, <1>4, ZeroIs DEF ReportsInv, Since

LEMMA HavingSome ==
    ASSUME table \in Seq(Row), NEW M \in SUBSET DOMAIN table
    PROVE  /\ Distinct(M, "slot") \subseteq Slot
           /\ \A i \in Having(M, "time") : table[i].time \in Nat
  BY TableFacts DEF Distinct, Having

LEMMA CountsKeep ==
    ASSUME ReportsInv,
           \/ GetTotalLLMCostMicros \/ GetTotalUniqueDevices
           \/ GetEntryViewCount \/ GetEntryEditCount
           \/ GetUniqueEntriesEngaged
    PROVE  ReportsInv'
<1>1. /\ TypeOK /\ table \in Seq(Row) /\ failures \in 0..MaxFailures
      /\ DOMAIN table = 1..Len(table)
      /\ \A M \in SUBSET DOMAIN table :
            IsFiniteSet(M) /\ Cardinality(M) \in Nat
  BY TableFacts DEF ReportsInv, TypeOK
<1>2. \A events : /\ Of(events) = RowsUpTo(Len(table), events)
                 /\ Of(events) \in SUBSET DOMAIN table
  BY <1>1, OfIs
<1>3. CASE GetTotalLLMCostMicros
  <2>. DEFINE R == Of({"llm.request"})
  <2>1. \A i \in R : table[i]["cost"] \in Nat
    BY <1>1, <1>2, TableFacts
  <2>2. Sum(R, "cost") \in Nat
    <3>1. IsFiniteSet(R)
      BY <1>1, <1>2
    <3>. HIDE DEF R
    <3>. QED  BY <2>1, <3>1, SumFacts
  <2>3. Fits("cost", Sum(R, "cost"), TRUE)
    BY <1>2, <2>2 DEF Fits, CostRight, Requests
  <2>. QED
    BY <1>1, <1>3, <2>3, AnsweredKeeps DEF GetTotalLLMCostMicros, Figures
<1>4. CASE GetTotalUniqueDevices
  <2>1. Cardinality(Distinct(DOMAIN table, "device")) \in Nat
    BY <1>1, DistinctFinite
  <2>2. Fits("users", Cardinality(Distinct(DOMAIN table, "device")), TRUE)
    BY <1>1, <2>1 DEF Fits, UsersRight
  <2>. QED
    BY <1>1, <1>4, <2>2, AnsweredKeeps DEF GetTotalUniqueDevices, Figures
<1>5. CASE GetEntryViewCount
  <2>1. Fits("views", Cardinality(Of({"entry.detail_viewed"})), TRUE)
    BY <1>1, <1>2 DEF Fits
  <2>. QED  BY <1>1, <1>5, <2>1, AnsweredKeeps DEF GetEntryViewCount, Figures
<1>6. CASE GetEntryEditCount
  <2>1. Fits("edits", Cardinality(Of(Edits)), TRUE)
    BY <1>1, <1>2 DEF Fits
  <2>. QED  BY <1>1, <1>6, <2>1, AnsweredKeeps DEF GetEntryEditCount, Figures
<1>7. CASE GetUniqueEntriesEngaged
  <2>1. Cardinality(Distinct(Of(Entries), "entry")) \in Nat
    BY <1>1, <1>2, DistinctFinite
  <2>2. Fits("unique", Cardinality(Distinct(Of(Entries), "entry")), TRUE)
    BY <1>2, <2>1 DEF Fits, UniqueRight
  <2>. QED
    BY <1>1, <1>7, <2>2, AnsweredKeeps DEF GetUniqueEntriesEngaged, Figures
<1>. QED  BY <1>3, <1>4, <1>5, <1>6, <1>7

LEMMA HeatKeeps ==
    ASSUME ReportsInv, TokensByDayHour \/ TokensByDayHourFails
    PROVE  ReportsInv'
<1>. DEFINE R == Of({"llm.request"})
<1>1. /\ TypeOK /\ table \in Seq(Row) /\ failures \in 0..MaxFailures
      /\ R = Requests(Len(table)) /\ R \in SUBSET DOMAIN table
  BY OfIs DEF ReportsInv, TypeOK, Requests
<1>2. Distinct(R, "slot") \subseteq Slot
  BY <1>1, HavingSome
<1>3. \A slots : /\ DOMAIN TokensBy(slots) = slots
                /\ TokensBy(slots) = [s \in slots |-> TokensAt(R, s)]
  BY DEF TokensBy, TokensAt
<1>4. ASSUME Having(R, "slot") = R
      PROVE  Fits("heat", TokensBy(Distinct(R, "slot")), TRUE)
  <2>. HIDE DEF R
  <2>. QED  BY <1>1, <1>2, <1>3, <1>4 DEF Fits, HeatRight
<1>5. Fits("heat", NoMap, FALSE)
  BY DEF Fits, NoMap
<1>6. \A slots \in SUBSET Distinct(R, "slot") : Fits("heat", TokensBy(slots), FALSE)
  <2>. HIDE DEF R
  <2>. QED  BY <1>2, <1>3 DEF Fits
<1>7. CASE TokensByDayHour
  <2>1. \/ /\ Having(R, "slot") = R
           /\ Answered("heat", TokensBy(Distinct(R, "slot")), TRUE)
        \/ Answered("heat", NoMap, FALSE)
    BY <1>7 DEF TokensByDayHour
  <2>2. failures' \in 0..MaxFailures
    BY <1>1, <1>7 DEF TokensByDayHour
  <2>. QED  BY <1>4, <1>5, <2>1, <2>2, AnsweredKeeps DEF Figures
<1>8. CASE TokensByDayHourFails
  <2>1. failures' \in 0..MaxFailures
    BY <1>1, <1>8, ReportsAssumption DEF TokensByDayHourFails
  <2>2. PICK slots \in SUBSET Distinct(R, "slot") :
            Answered("heat", TokensBy(slots), FALSE)
    BY <1>8 DEF TokensByDayHourFails
  <2>. QED  BY <1>6, <2>1, <2>2, AnsweredKeeps DEF Figures
<1>. QED  BY <1>7, <1>8

(* What Scan takes for the average is exact.                               *)
LEMMA AverageKeeps ==
    ASSUME ReportsInv, GetAvgTimeToEditMs
    PROVE  ReportsInv'
<1>. DEFINE T == Having(Of({"entry.edited"}), "time")
            n == Cardinality(T)
            total == Sum(T, "time")
<1>1. /\ TypeOK /\ table \in Seq(Row) /\ failures \in 0..MaxFailures
      /\ Of({"entry.edited"}) \in SUBSET DOMAIN table
      /\ T = Timed(Len(table))
  BY OfIs DEF ReportsInv, TypeOK, Timed
<1>2. T \in SUBSET DOMAIN table /\ \A i \in T : table[i]["time"] \in Nat
  BY <1>1, HavingSome DEF Having
<1>3. IsFiniteSet(T) /\ n \in Nat /\ (n = 0 => T = {})
  <2>. HIDE DEF T
  <2>. QED  BY <1>1, <1>2, TableFacts, FS_EmptySet
<1>4. total \in Nat /\ (n = 0 => total = 0)
  <2>. HIDE DEF T
  <2>. QED  BY <1>2, <1>3, SumFacts
<1>. HIDE DEF total
<1>5. /\ \/ n = 0 /\ Answered("average", 0, TRUE)
         \/ n # 0 /\ total % n = 0 /\ Answered("average", total \div n, TRUE)
         \/ Answered("average", 0, FALSE)
      /\ failures' = failures
  BY DEF GetAvgTimeToEditMs, total
<1>. HIDE DEF T
<1>6. n = 0 => Fits("average", 0, TRUE)
  BY <1>1, <1>4 DEF Fits, AverageRight, total
<1>7. n # 0 /\ total % n = 0 => Fits("average", total \div n, TRUE)
  <2>1. n # 0 /\ total % n = 0 =>
            total \div n \in Nat /\ (total \div n) * n = total
    <3>. HIDE DEF n
    <3>. QED  BY <1>3, <1>4
  <2>. QED  BY <1>1, <2>1 DEF Fits, AverageRight, total
<1>8. Fits("average", 0, FALSE)
  BY DEF Fits
<1>. QED  BY <1>1, <1>5, <1>6, <1>7, <1>8, AnsweredKeeps DEF Figures

LEMMA CategoriesKeep ==
    ASSUME ReportsInv, GetTopCategories
    PROVE  ReportsInv'
<1>. DEFINE all == Distinct(Having(Of(Entries), "category"), "category")
            few == Min({TopLimit, Cardinality(all)})
<1>1. TypeOK /\ table \in Seq(Row) /\ failures \in 0..MaxFailures
  BY DEF ReportsInv, TypeOK
<1>2. Cardinality(all) \in Nat
  <2>1. Having(Of(Entries), "category") \in SUBSET DOMAIN table
    BY <1>1, OfIs DEF Having
  <2>. QED  BY <1>1, <2>1, DistinctFinite
<1>3. few <= TopLimit
  <2>1. {TopLimit, Cardinality(all)} \in SUBSET Nat
    BY <1>2, ReportsAssumption
  <2>. HIDE DEF all
  <2>. QED  BY <2>1, MinIs
<1>4. \E top, count :
          /\ Cardinality(top) = few /\ DOMAIN count = top
          /\ Answered("categories", count, TRUE)
  <2>. HIDE DEF few
  <2>. QED  BY DEF GetTopCategories, few
<1>5. PICK top, count :
          /\ Cardinality(top) = few /\ DOMAIN count = top
          /\ Answered("categories", count, TRUE)
  BY <1>4
<1>6. Fits("categories", count, TRUE)
  BY <1>3, <1>5 DEF Fits
<1>7. failures' = failures
  BY DEF GetTopCategories
<1>. QED  BY <1>1, <1>5, <1>6, <1>7, AnsweredKeeps DEF Figures

LEMMA FailureKeeps ==
    ASSUME ReportsInv, QueryFails
    PROVE  ReportsInv'
<1>1. /\ pc \in Figures /\ pc # "heat" /\ Answered(pc, Zero[pc], FALSE)
      /\ failures \in 0..MaxFailures /\ failures < MaxFailures
      /\ failures' = failures + 1
  BY FigureIs DEF ReportsInv, TypeOK, QueryFails
<1>2. failures' \in 0..MaxFailures
  BY <1>1, ReportsAssumption
<1>3. Zero[pc] = IF pc = "categories" THEN NoMap ELSE 0
  BY <1>1, FigureIs DEF Zero
<1>4. Cardinality(DOMAIN NoMap) = 0 /\ TopLimit \in Nat
  BY FS_EmptySet, ReportsAssumption DEF NoMap
<1>5. Fits(pc, Zero[pc], FALSE)
  BY <1>1, <1>3, <1>4 DEF Fits, CostRight, UsersRight
<1>. QED  BY <1>1, <1>2, <1>5, AnsweredKeeps

LEMMA RenderKeeps ==
    ASSUME ReportsInv, Render
    PROVE  ReportsInv'
<1>1. /\ pc' = "idle" /\ figures' = Zero /\ logged' = {}
      /\ at' = [f \in Figure |-> 0]
      /\ UNCHANGED <<table, snapshot, filter, results, answer, failures>>
  BY DEF Render, After, tool
<1>2. TypeOK /\ Len(table) \in Nat
  BY TableFacts DEF ReportsInv, TypeOK
<1>3. at' \in [Figure -> 0..Len(table)]
  BY <1>1, <1>2
<1>4. Selected' = Selected
  BY <1>1 DEF Selected
<1>5. TypeOK'
  BY <1>1, <1>2, <1>3, <1>4, ZeroIs, ReportsAssumption DEF TypeOK
<1>6. (CostRight(Zero["cost"], at["cost"]) /\ UsersRight(Zero["users"], at["users"]))'
  BY ZeroRight, PTL
<1>7. (CostRight(figures["cost"], at["cost"])
       /\ UsersRight(figures["users"], at["users"]))'
  BY <1>1, <1>6
<1>. QED  BY <1>1, <1>4, <1>5, <1>7 DEF ReportsInv, Since

LEMMA InsertKeeps ==
    ASSUME ReportsInv, NEW r \in Row, InsertEvents(r)
    PROVE  ReportsInv'
<1>1. /\ TypeOK /\ Len(table) < MaxTable /\ table' = Append(table, r)
      /\ UNCHANGED <<pc, page, figures, logged, at, snapshot, filter, results,
                     answer, failures>>
  BY DEF ReportsInv, InsertEvents, page, tool
<1>2. Grows
  BY <1>1, Growing
<1>3. /\ table' \in Seq(Row) /\ Len(table') = Len(table) + 1
      /\ Len(table) \in Nat /\ DOMAIN table = 1..Len(table)
  BY <1>1, AppendProperties, TableFacts DEF TypeOK
<1>4. Selected' = Selected
  BY <1>1, <1>2, <1>3 DEF Selected, Grows, TypeOK
<1>5. at \in [Figure -> 0..Len(table')] /\ snapshot \in 0..Len(table')
  <2>1. \A n \in 0..Len(table) : n \in 0..Len(table')
    BY <1>3
  <2>. QED  BY <1>1, <2>1 DEF TypeOK
<1>6. Len(table') <= MaxTable
  BY <1>1, <1>3, ReportsAssumption
<1>7. TypeOK'
  BY <1>1, <1>3, <1>4, <1>5, <1>6 DEF TypeOK
<1>. QED  BY <1>1, <1>2, <1>4, <1>7, FiguresKept DEF ReportsInv

LEMMA ToolKeeps ==
    ASSUME ReportsInv,
           \/ \E events \in SUBSET EventTypes : QueryContext(events)
           \/ ScanRow \/ ScanEnds \/ ScanCut \/ ToolAnswered
    PROVE  ReportsInv'
<1>1. /\ TypeOK /\ table \in Seq(Row) /\ Len(table) \in Nat
      /\ DOMAIN table = 1..Len(table) /\ snapshot \in 0..Len(table)
      /\ Selected \in SUBSET DOMAIN table
  BY TableFacts DEF ReportsInv, TypeOK, Selected
<1>2. UNCHANGED <<table, page, figures, logged, at, failures>>
  BY DEF QueryContext, ScanRow, ScanEnds, ScanCut, ToolAnswered, page
<1>3. Grows
  BY <1>1, <1>2, Growing
<1>4. pc' \in {"scan", "idle"}
  BY DEF QueryContext, ScanRow, ScanEnds, ScanCut, ToolAnswered
<1>5. \A f \in {"users", "heat", "average", "unique"} : pc' \notin Since[f]
  BY <1>4 DEF Since
<1>6. ASSUME NEW events \in SUBSET EventTypes, QueryContext(events)
      PROVE  TypeOK' /\ answer' # "rows"
  BY <1>1, <1>2, <1>6, FS_EmptySet, ReportsAssumption DEF QueryContext, TypeOK
<1>7. CASE ScanRow
  <2>. DEFINE m == Min(Selected \ results)
  <2>1. /\ UNCHANGED <<pc, snapshot, filter, answer>> /\ answer = "none"
        /\ Cardinality(results) < maxRows /\ Selected # results
        /\ results' = results \cup {m}
        /\ results \in SUBSET Selected
    BY <1>1, <1>7 DEF ScanRow, TypeOK
  <2>2. m \in Selected /\ m \notin results
    <3>1. Selected \ results \in SUBSET Nat /\ Selected \ results # {}
      <4>1. \A i \in Selected : i \in Nat
        BY <1>1
      <4>. QED  BY <2>1, <4>1
    <3>. QED  BY <3>1, MinIs
  <2>3. IsFiniteSet(results) /\ Cardinality(results) \in Nat
    <3>1. results \in SUBSET DOMAIN table
      BY <1>1, <2>1, Zenon
    <3>. QED  BY <1>1, <3>1, TableFacts
  <2>. HIDE DEF m
  <2>4. Cardinality(results') = Cardinality(results) + 1
    BY <2>1, <2>2, <2>3, FS_AddElement
  <2>5. Cardinality(results') <= maxRows
    BY <2>1, <2>3, <2>4, ReportsAssumption
  <2>6. Selected' = Selected
    BY <1>2, <2>1 DEF Selected
  <2>7. TypeOK'
    BY <1>1, <1>2, <2>1, <2>2, <2>5, <2>6 DEF TypeOK
  <2>. QED  BY <1>2, <1>3, <1>5, <2>1, <2>7, FiguresKept
<1>8. CASE ScanEnds
  <2>1. /\ UNCHANGED <<pc, snapshot, filter, results>>
        /\ results = Selected \/ Cardinality(results) >= maxRows
        /\ answer' = IF Cardinality(results) >= maxRows THEN "warning"
                                                        ELSE "rows"
    BY <1>8 DEF ScanEnds
  <2>2. Selected' = Selected
    BY <1>2, <2>1 DEF Selected
  <2>3. TypeOK'
    BY <1>1, <1>2, <2>1, <2>2 DEF TypeOK
  <2>. QED  BY <1>2, <1>3, <1>5, <2>1, <2>2, <2>3, FiguresKept
<1>9. CASE ScanCut
  <2>1. /\ UNCHANGED <<pc, snapshot, filter>>
        /\ answer' = "error" /\ results' = {}
    BY <1>9 DEF ScanCut
  <2>2. TypeOK'
    BY <1>1, <1>2, <2>1, FS_EmptySet, ReportsAssumption DEF TypeOK
  <2>. QED  BY <1>2, <1>3, <1>5, <2>1, <2>2, FiguresKept
<1>10. CASE ToolAnswered
  <2>1. /\ pc' = "idle" /\ snapshot' = 0 /\ filter' = {} /\ results' = {}
        /\ answer' = "none"
    BY <1>10 DEF ToolAnswered
  <2>2. TypeOK'
    BY <1>1, <1>2, <2>1, FS_EmptySet, ReportsAssumption DEF TypeOK
  <2>. QED  BY <1>2, <1>3, <1>5, <2>1, <2>2, FiguresKept
<1>. QED  BY <1>2, <1>3, <1>5, <1>6, <1>7, <1>8, <1>9, <1>10, FiguresKept

LEMMA ReportsNext == ReportsInv /\ [Next]_vars => ReportsInv'
<1>. SUFFICES ASSUME ReportsInv, [Next]_vars PROVE ReportsInv'
  OBVIOUS
<1>1. ASSUME NEW r \in Row, InsertEvents(r) PROVE ReportsInv'
  BY <1>1, InsertKeeps
<1>2. CASE BuildMetrics
  <2>1. /\ pc' = "cost" /\ TypeOK
        /\ UNCHANGED <<table, page, figures, logged, at, snapshot, filter,
                       results, answer, failures>>
    BY <1>2 DEF BuildMetrics, After, ReportsInv, page, tool
  <2>2. Grows
    BY <2>1, Growing
  <2>3. Selected' = Selected
    BY <2>1 DEF Selected
  <2>4. TypeOK'
    BY <2>1, <2>3, FigureIs DEF TypeOK, Figures
  <2>5. \A f \in {"users", "heat", "average", "unique"} : pc' \notin Since[f]
    BY <2>1 DEF Since
  <2>. QED  BY <2>1, <2>2, <2>3, <2>4, <2>5, FiguresKept DEF ReportsInv
<1>3. CASE \/ GetTotalLLMCostMicros \/ GetTotalUniqueDevices
           \/ GetEntryViewCount \/ GetEntryEditCount
           \/ GetUniqueEntriesEngaged
  BY <1>3, CountsKeep
<1>4. CASE TokensByDayHour \/ TokensByDayHourFails
  BY <1>4, HeatKeeps
<1>5. CASE GetAvgTimeToEditMs
  BY <1>5, AverageKeeps
<1>6. CASE GetTopCategories
  BY <1>6, CategoriesKeep
<1>7. CASE QueryFails
  BY <1>7, FailureKeeps
<1>8. CASE Render
  BY <1>8, RenderKeeps
<1>9. CASE ExecuteQuery
  <2>1. {{"llm.request"}, Entries, EventTypes} \in SUBSET (SUBSET EventTypes)
    BY DEF EventTypes
  <2>. QED  BY <1>9, <2>1, ToolKeeps DEF ExecuteQuery
<1>10. CASE UNCHANGED vars
  <2>1. UNCHANGED <<table, pc, page, figures, logged, at, snapshot, filter,
                    results, answer, failures>> /\ TypeOK
    BY <1>10 DEF vars, page, tool, ReportsInv
  <2>2. Grows
    BY <2>1, Growing
  <2>3. Selected' = Selected
    BY <2>1 DEF Selected
  <2>4. TypeOK'
    BY <2>1, <2>3 DEF TypeOK
  <2>. QED  BY <2>1, <2>2, <2>3, <2>4, FiguresKept DEF ReportsInv
<1>. QED
  BY <1>1, <1>2, <1>3, <1>4, <1>5, <1>6, <1>7, <1>8, <1>9, <1>10
  DEF Next, Metrics

LEMMA ReportsKept == Spec => []ReportsInv
  BY ReportsInit, ReportsNext, PTL DEF Spec

-----------------------------------------------------------------------------
(* What the page and the tool say.                                         *)

(* The figures are numbers, the heat map is of slots, and the tool gives no*)
(* more than maxRows rows, none of which came after the query.             *)
THEOREM ReportTypes == Spec => []TypeOK
<1>1. ReportsInv => TypeOK
  BY DEF ReportsInv
<1>. QED  BY ReportsKept, <1>1, PTL

LEMMA ThenIs ==
    ASSUME TypeOK, NEW f \in Figures, NEW events
    PROVE  /\ Then(f, events) = RowsUpTo(at[f], events)
           /\ Then(f, events) \in SUBSET DOMAIN table
           /\ 1..at[f] \in SUBSET DOMAIN table
<1>1. at[f] \in 0..Len(table) /\ DOMAIN table = 1..Len(table)
      /\ Len(table) \in Nat
  BY Places, TableFacts DEF TypeOK
<1>2. 1..at[f] \in SUBSET DOMAIN table
  BY <1>1
<1>. QED  BY <1>2 DEF Then, RowsUpTo

(* A division gives no more than there is.                                 *)
LEMMA Shares ==
    ASSUME NEW c \in Nat, NEW u \in Nat \ {0}, NEW k \in Nat, k <= u
    PROVE  (c \div u) * k <= c
<1>1. (c \div u) \in Nat /\ (c \div u) * u <= c
  OBVIOUS
<1>. DEFINE q == c \div u
<1>2. q * k <= q * u
  <2>. HIDE DEF q
  <2>1. q \in Nat
    BY <1>1 DEF q
  <2>. QED  BY <2>1
<1>3. q * k \in Nat /\ q * u \in Nat
  BY <1>1
<1>. QED  BY <1>1, <1>2, <1>3

LEMMA CostCovered ==
    ASSUME ReportsInv, Rendered
    PROVE  CostPerUser * Cardinality(Distinct(1..at["cost"], "device"))
               <= Sum(Then("cost", {"llm.request"}), "cost")
<1>. DEFINE R == Then("cost", {"llm.request"})
            k == Cardinality(Distinct(1..at["cost"], "device"))
            U == Cardinality(Distinct(1..at["users"], "device"))
<1>1. TypeOK /\ table \in Seq(Row) /\ "cost" \in Figures /\ "users" \in Figures
  BY DEF ReportsInv, TypeOK, Figures
<1>2. /\ R = Requests(at["cost"]) /\ R \in SUBSET DOMAIN table
      /\ 1..at["cost"] \in SUBSET DOMAIN table
      /\ 1..at["users"] \in SUBSET DOMAIN table
  BY <1>1, ThenIs DEF Requests
<1>3. Sum(R, "cost") \in Nat
  <2>1. IsFiniteSet(R) /\ \A i \in R : table[i]["cost"] \in Nat
    BY <1>1, <1>2, TableFacts
  <2>. HIDE DEF R
  <2>. QED  BY <2>1, SumFacts
<1>4. k \in Nat /\ U \in Nat /\ k <= U
  <2>1. 1..at["cost"] \in SUBSET (1..at["users"])
    <3>1. at["cost"] \in Nat /\ at["users"] \in Nat
      BY <1>1, Places
    <3>2. at["cost"] <= at["users"]
      BY DEF ReportsInv, Rendered, Since
    <3>. QED  BY <3>1, <3>2
  <2>. QED  BY <1>1, <1>2, <2>1, DistinctFinite, DistinctGrows
<1>5. figures["cost"] \in {0, Sum(R, "cost")} /\ figures["users"] \in {0, U}
  BY <1>2 DEF ReportsInv, CostRight, UsersRight
<1>. HIDE DEF k, U, R
<1>6. CASE figures["users"] = 0
  BY <1>3, <1>4, <1>6 DEF CostPerUser, k, R
<1>7. CASE figures["users"] # 0
  <2>1. /\ U \in Nat \ {0} /\ CostPerUser = figures["cost"] \div U
        /\ figures["cost"] \in Nat /\ figures["cost"] <= Sum(R, "cost")
    BY <1>3, <1>4, <1>5, <1>7 DEF CostPerUser
  <2>2. CostPerUser * k <= figures["cost"]
    BY <1>4, <2>1, Shares
  <2>3. CostPerUser \in Nat
    BY <2>1
  <2>4. CostPerUser * k \in Nat
    BY <1>4, <2>3
  <2>. QED  BY <1>3, <2>1, <2>2, <2>4 DEF k, R
<1>. QED  BY <1>6, <1>7

LEMMA UniqueCovered ==
    ASSUME ReportsInv, Rendered, "unique" \notin logged
    PROVE  figures["unique"] >= Cardinality(Distinct(
               Then("views", {"entry.detail_viewed"}) \cup Then("edits", Edits),
               "entry"))
<1>. DEFINE N == Then("views", {"entry.detail_viewed"}) \cup Then("edits", Edits)
            M == Then("unique", Entries)
<1>1. TypeOK /\ table \in Seq(Row) /\ {"views", "edits", "unique"} \subseteq Figures
  BY DEF ReportsInv, TypeOK, Figures
<1>2. M = RowsUpTo(at["unique"], Entries) /\ M \in SUBSET DOMAIN table
  BY <1>1, ThenIs
<1>3. /\ figures["unique"] = Cardinality(Distinct(M, "entry"))
      /\ at["views"] <= at["unique"] /\ at["edits"] <= at["unique"]
  BY <1>2 DEF ReportsInv, Rendered, Since, UniqueRight
<1>4. N \in SUBSET M
  <2>1. at["views"] \in Nat /\ at["edits"] \in Nat /\ at["unique"] \in Nat
    BY <1>1, Places
  <2>2. 1..at["views"] \subseteq 1..at["unique"]
        /\ 1..at["edits"] \subseteq 1..at["unique"]
    BY <1>3, <2>1
  <2>3. Edits \subseteq Entries /\ "entry.detail_viewed" \in Entries
    BY DEF Entries
  <2>. QED  BY <2>2, <2>3 DEF Then
<1>. HIDE DEF M
<1>5. N \in SUBSET DOMAIN table
  BY <1>2, <1>4
<1>6. /\ Cardinality(Distinct(N, "entry")) <= Cardinality(Distinct(M, "entry"))
      /\ Cardinality(Distinct(N, "entry")) \in Nat
      /\ Cardinality(Distinct(M, "entry")) \in Nat
  <2>. HIDE DEF N
  <2>. QED  BY <1>1, <1>2, <1>4, <1>5, DistinctFinite, DistinctGrows
<1>. QED  BY <1>3, <1>6

(* Inserts between the queries of a page do not make the cost per user more*)
(* than the table said, nor the unique entries fewer than the counted ones.*)
THEOREM LaterCovers == Spec => []LaterFiguresCoverEarlier
<1>1. ReportsInv => LaterFiguresCoverEarlier
  <2>. SUFFICES ASSUME ReportsInv PROVE LaterFiguresCoverEarlier
    OBVIOUS
  <2>. QED  BY CostCovered, UniqueCovered DEF LaterFiguresCoverEarlier
<1>. QED  BY ReportsKept, <1>1, PTL

-----------------------------------------------------------------------------
(* The heat map.                                                           *)

(* More is not in a weaker colour, whatever the strongest is.              *)
LEMMA ColorsGrow ==
    ASSUME NEW v \in Nat, NEW w \in Nat, maxVal \in Nat, v > w
    PROVE  heatmapColor(v) >= heatmapColor(w)
<1>. DEFINE P(x) == {q \in 1..3 : 4 * x > q * maxVal}
<1>1. \A x \in Nat : Cardinality(P(x)) \in Nat
  <2>. SUFFICES ASSUME NEW x \in Nat PROVE Cardinality(P(x)) \in Nat
    OBVIOUS
  <2>1. P(x) \in SUBSET (1..3) /\ IsFiniteSet(1..3)
    <3>1. 1 \in Int /\ 3 \in Int
      OBVIOUS
    <3>2. IsFiniteSet(1..3)
      BY <3>1, FS_Interval
    <3>. QED  BY <3>2
  <2>. HIDE DEF P
  <2>. QED  BY <2>1, FS_Subset, FS_CardinalityType
<1>2. Cardinality(P(w)) <= Cardinality(P(v))
  <2>1. P(w) \in SUBSET P(v)
    <3>. SUFFICES ASSUME NEW q \in 1..3, 4 * w > q * maxVal
                  PROVE  4 * v > q * maxVal
      OBVIOUS
    <3>1. q * maxVal \in Nat
      OBVIOUS
    <3>. QED  BY <3>1
  <2>2. P(v) \in SUBSET (1..3) /\ IsFiniteSet(1..3)
    <3>1. 1 \in Int /\ 3 \in Int
      OBVIOUS
    <3>2. IsFiniteSet(1..3)
      BY <3>1, FS_Interval
    <3>. QED  BY <3>2
  <2>. HIDE DEF P
  <2>. QED  BY <2>1, <2>2, FS_Subset
<1>3. /\ heatmapColor(v) = 1 + Cardinality(P(v))
      /\ heatmapColor(w) = IF w = 0 THEN 0 ELSE 1 + Cardinality(P(w))
  BY DEF heatmapColor
<1>. HIDE DEF P
<1>. QED  BY <1>1, <1>2, <1>3

LEMMA HeatWhole ==
    ASSUME ReportsInv, Rendered, "heat" \notin logged,
           NEW requests, requests = Then("heat", {"llm.request"})
    PROVE  /\ Having(requests, "slot") = requests
           /\ \A i \in requests :
                  Cell(i).Tokens = Sum({j \in requests :
                                        table[j].slot = table[i].slot}, "tokens")
           /\ \A i, j \in requests : Cell(i).Tokens > Cell(j).Tokens =>
                                         Cell(i).Color >= Cell(j).Color
<1>1. TypeOK /\ table \in Seq(Row) /\ "heat" \in Figures
  BY DEF ReportsInv, TypeOK, Figures
<1>2. requests = Requests(at["heat"]) /\ requests \in SUBSET DOMAIN table
  BY <1>1, ThenIs DEF Requests
<1>3. /\ Having(requests, "slot") = requests
      /\ figures["heat"] = [s \in Distinct(requests, "slot") |->
                                TokensAt(requests, s)]
  BY <1>2 DEF ReportsInv, HeatRight, Rendered, Since
<1>. DEFINE D == Distinct(requests, "slot")
<1>4. /\ DOMAIN figures["heat"] = D
      /\ \A s \in D : figures["heat"][s] = TokensAt(requests, s)
  BY <1>3
<1>5. \A s : TokensAt(requests, s) \in Nat
  <2>. SUFFICES ASSUME NEW s PROVE TokensAt(requests, s) \in Nat
    OBVIOUS
  <2>. DEFINE M == {i \in requests : table[i].slot = s}
  <2>1. M \in SUBSET DOMAIN table /\ \A i \in M : table[i]["tokens"] \in Nat
    BY <1>1, <1>2, TableFacts
  <2>2. TokensAt(requests, s) = Sum(M, "tokens")
    BY DEF TokensAt
  <2>. HIDE DEF M
  <2>. QED  BY <1>1, <2>1, <2>2, TableFacts, SumFacts
<1>6. maxVal \in Nat
  <2>. DEFINE V == {0} \cup {figures["heat"][s] : s \in D}
              f == [s \in D |-> figures["heat"][s]]
  <2>1. IsFiniteSet(D)
    BY <1>1, <1>2, DistinctFinite
  <2>2. f \in Surjection(D, {figures["heat"][s] : s \in D})
    BY DEF Surjection
  <2>3. IsFiniteSet({figures["heat"][s] : s \in D})
    <3>. HIDE DEF D, f
    <3>. QED  BY <2>1, <2>2, FS_Surjection
  <2>4. IsFiniteSet(V)
    <3>1. V = {figures["heat"][s] : s \in D} \cup {0}
      OBVIOUS
    <3>. HIDE DEF D
    <3>. QED  BY <2>3, <3>1, FS_AddElement
  <2>5. V \in SUBSET Nat /\ V # {}
    <3>. HIDE DEF D
    <3>. QED  BY <1>4, <1>5
  <2>6. maxVal = Max(V)
    BY <1>4 DEF maxVal
  <2>. HIDE DEF V
  <2>. QED  BY <2>4, <2>5, <2>6, MaxIs
<1>7. ASSUME NEW i \in requests
      PROVE  /\ Cell(i).Tokens = TokensAt(requests, table[i].slot)
             /\ Cell(i).Color = heatmapColor(TokensAt(requests, table[i].slot))
  <2>1. table[i].slot \in D
    BY <1>3 DEF Distinct
  <2>2. table[i].slot \in Slot
    BY <1>1, <1>2, <2>1, HavingSome
  <2>3. PICK dow \in Dow, hour \in Hour : table[i].slot = <<dow, hour>>
    BY <2>2 DEF Slot
  <2>. DEFINE day == IF dow = 0 THEN 7 ELSE dow
  <2>4. day \in 1..7 /\ dowMap[day] = dow
    BY DEF Dow, dowMap
  <2>5. Cell(i) = buildHeatmap[<<day, hour>>]
    BY <2>3 DEF Cell
  <2>6. Tokens(dow, hour) = TokensAt(requests, table[i].slot)
    <3>. HIDE DEF D
    <3>. QED  BY <1>4, <2>1, <2>3 DEF Tokens
  <2>7. buildHeatmap[<<day, hour>>] = [Tokens |-> Tokens(dow, hour),
                                   Color |-> heatmapColor(Tokens(dow, hour))]
    <3>. HIDE DEF day
    <3>. QED  BY <2>4 DEF buildHeatmap
  <2>. QED  BY <2>5, <2>6, <2>7
<1>8. \A i, j \in requests : Cell(i).Tokens > Cell(j).Tokens =>
                                 Cell(i).Color >= Cell(j).Color
  BY <1>5, <1>6, <1>7, ColorsGrow
<1>. QED  BY <1>3, <1>7, <1>8 DEF TokensAt

(* What comes without a logged error, an error or a warning is whole.      *)
THEOREM SilenceWhole == Spec => []SilenceMeansWhole
<1>1. ReportsInv => SilenceMeansWhole
  <2>. SUFFICES ASSUME ReportsInv PROVE SilenceMeansWhole
    OBVIOUS
  <2>1. ASSUME Rendered, "average" \notin logged
        PROVE  LET timed == Having(Then("average", {"entry.edited"}), "time")
               IN  figures["average"] * Cardinality(timed) = Sum(timed, "time")
    <3>1. Then("average", {"entry.edited"}) =
              RowsUpTo(at["average"], {"entry.edited"})
      BY ThenIs DEF ReportsInv, Figures
    <3>. QED  BY <2>1, <3>1 DEF ReportsInv, AverageRight, Timed, Rendered, Since
  <2>2. answer = "rows" => results = Selected
    BY DEF ReportsInv
  <2>. QED  BY <2>1, <2>2, HeatWhole DEF SilenceMeansWhole
<1>. QED  BY ReportsKept, <1>1, PTL

-----------------------------------------------------------------------------
(* Who is let in: theorems about Access.                                   *)

(* Why the check can be trusted: a row is missing only if the token was    *)
(* never drawn, was revoked, or is too old; a revoked row stays away; and  *)
(* every token that a browser holds or asked with was drawn.  A browser    *)
(* that waits for the check is served nothing yet.                         *)
TableInv ==
    /\ AccessTypeOK
    /\ \A t \in Token :
         /\ sessions[t] = Absent =>
                login[t] = Absent \/ t \in revoked \/ login[t] > ttl
         /\ t \in revoked => sessions[t] = Absent /\ login[t] # Absent
    /\ \A b \in Browser :
         /\ cookie[b] # NoToken => login[cookie[b]] # Absent
         /\ asked[b] # NoToken => /\ login[asked[b]] # Absent
                                  /\ serving[b] = "nothing"

USE AccessAssumption, NoTokenAssumption

LEMMA OlderAges ==
    \A age \in Age : /\ Older(age) \in Age
                     /\ Older(age) = Absent <=> age = Absent
                     /\ age > ttl => Older(age) > ttl
  BY DEF Older, Age, Absent

LEMMA TableInit == AccessInit => TableInv
<1>. SUFFICES ASSUME AccessInit PROVE TableInv
  OBVIOUS
<1>. USE DEF AccessInit
<1>1. Absent \in Age /\ 1 \in 1..MaxStarts
  BY DEF Age, Absent
<1>2. Idle
  BY DEF Idle
<1>3. AccessTypeOK
  BY <1>1, <1>2 DEF AccessTypeOK
<1>. QED  BY <1>1, <1>3 DEF TableInv

LEMMA TableNext == TableInv /\ [AccessNext]_accessVars => TableInv'
<1>. SUFFICES ASSUME TableInv, [AccessNext]_accessVars PROVE TableInv'
  OBVIOUS
<1>. USE DEF TableInv, AccessTypeOK, Idle
<1>1. ASSUME NEW b \in Browser, HandleLogin(b) PROVE TableInv'
  <2>1. PICK t \in Token :
            /\ login[t] = Absent
            /\ sessions' = [sessions EXCEPT ![t] = 0]
            /\ login' = [login EXCEPT ![t] = 0]
            /\ cookie' = [cookie EXCEPT ![b] = t]
    BY <1>1 DEF HandleLogin
  <2>2. UNCHANGED <<asked, serving, process, revoked, failed>> /\ server = "up"
    BY <1>1 DEF HandleLogin
  <2>3. 0 \in Age /\ 0 # Absent /\ ~(0 > ttl)
    BY DEF Age, Absent
  <2>. QED  BY <2>1, <2>2, <2>3 DEF process
<1>2. ASSUME NEW b \in Browser, HandleLogout(b) PROVE TableInv'
  BY <1>2 DEF HandleLogout, Age, Absent, process
<1>3. ASSUME NEW b \in Browser, Ask(b) PROVE TableInv'
  BY <1>3 DEF Ask, process, history
<1>4. ASSUME NEW b \in Browser, DashboardAuth(b) PROVE TableInv'
  BY <1>4 DEF DashboardAuth, process
<1>5. ASSUME NEW b \in Browser, FetchProject(b) \/ PageServed(b) \/ StreamLeft(b)
      PROVE  TableInv'
  BY <1>5 DEF FetchProject, PageServed, StreamLeft, process, history
<1>6. CASE Shutdown \/ DeadlinePasses
  BY <1>6 DEF Shutdown, DeadlinePasses, browsers, history
<1>7. CASE Finished \/ GivesUp \/ Killed
  <2>1. GoesDown
    BY <1>7 DEF Finished, GivesUp, Killed
  <2>. QED  BY <2>1 DEF GoesDown, history
<1>8. CASE Start
  BY <1>8 DEF Start, CleanExpiredSessions, browsers, history, Age, Absent
<1>9. CASE Tick
  <2>1. /\ sessions' \in [Token -> Age] /\ login' \in [Token -> Age]
    BY <1>9, OlderAges DEF Tick
  <2>2. \A t \in Token :
            /\ sessions'[t] = Older(sessions[t]) /\ login'[t] = Older(login[t])
            /\ sessions[t] \in Age /\ login[t] \in Age
    BY <1>9 DEF Tick
  <2>3. \A t \in Token : sessions'[t] \in {Absent, login'[t]}
    BY <2>2, OlderAges
  <2>4. \A t \in Token :
         /\ sessions'[t] = Absent =>
                login'[t] = Absent \/ t \in revoked \/ login'[t] > ttl
         /\ t \in revoked => sessions'[t] = Absent /\ login'[t] # Absent
    BY <2>2, OlderAges
  <2>5. UNCHANGED <<browsers, process, revoked, failed>>
    BY <1>9 DEF Tick
  <2>. QED  BY <2>1, <2>2, <2>3, <2>4, <2>5, OlderAges DEF browsers, process
<1>10. CASE UNCHANGED accessVars
  BY <1>10 DEF accessVars, browsers, process, history
<1>. QED  BY <1>1, <1>2, <1>3, <1>4, <1>5, <1>6, <1>7, <1>8, <1>9, <1>10
          DEF AccessNext

(* The table agrees with what logins and logouts did.                      *)
THEOREM AccessTypes == AccessSpec => []AccessTypeOK
<1>1. TableInv => AccessTypeOK
  BY DEF TableInv
<1>. QED  BY TableInit, TableNext, <1>1, PTL DEF AccessSpec

(* Only the check and the end of the server take a request off the line.   *)
LEMMA OnlyAuthAnswers ==
    ASSUME TableInv, [AccessNext]_accessVars, NEW b \in Browser, NEW t \in Token,
           asked[b] = t, asked'[b] = NoToken,
           server' # "down" \/ serving'[b] # serving[b]
    PROVE  DashboardAuth(b)
<1>. USE DEF TableInv, AccessTypeOK
<1>1. asked # asked'
  OBVIOUS
<1>2. ASSUME NEW c \in Browser, HandleLogin(c) \/ HandleLogout(c) \/ Ask(c)
                                \/ FetchProject(c) \/ PageServed(c)
                                \/ StreamLeft(c)
      PROVE  FALSE
  BY <1>1, <1>2 DEF HandleLogin, HandleLogout, Ask, FetchProject, PageServed,
                    StreamLeft
<1>3. ASSUME NEW c \in Browser, DashboardAuth(c) PROVE c = b
  BY <1>3 DEF DashboardAuth
<1>4. ~(Finished \/ GivesUp \/ Killed)
  BY DEF Finished, GivesUp, Killed, GoesDown
<1>5. ~(\/ Shutdown \/ DeadlinePasses \/ Start \/ Tick
        \/ UNCHANGED accessVars)
  BY <1>1 DEF Shutdown, DeadlinePasses, Start, Tick, browsers, accessVars
<1>. QED  BY <1>2, <1>3, <1>4, <1>5 DEF AccessNext

(* The check passes only those who logged in less than ttl ago and have not*)
(* been logged out, and refuses them only when it could not read the table,*)
(* whatever restarts and cleanings came between.                           *)
THEOREM CheckSound == AccessSpec => CheckAgreesWithLogins
<1>1. ASSUME TableInv, [AccessNext]_accessVars
      PROVE  \A b \in Browser, t \in Token :
                 /\ Passes(b, t) => login[t] < ttl /\ t \notin revoked
                 /\ Refuses(b, t) =>
                        login[t] >= ttl \/ t \in revoked \/ failed'
  <2>. SUFFICES ASSUME NEW b \in Browser, NEW t \in Token
                PROVE  /\ Passes(b, t) => login[t] < ttl /\ t \notin revoked
                       /\ Refuses(b, t) =>
                              login[t] >= ttl \/ t \in revoked \/ failed'
    OBVIOUS
  <2>. USE <1>1
  <2>1. /\ login[t] \in Age /\ sessions[t] \in {Absent, login[t]}
        /\ sessions[t] = Absent =>
               login[t] = Absent \/ t \in revoked \/ login[t] > ttl
        /\ t \in revoked => sessions[t] = Absent
        /\ asked[b] = t => login[t] # Absent /\ serving[b] = "nothing"
    BY DEF TableInv, AccessTypeOK
  <2>2. Valid(t) => login[t] < ttl /\ t \notin revoked
    BY <2>1 DEF Valid, Age, Absent
  <2>3. asked[b] = t /\ ~Valid(t) => login[t] >= ttl \/ t \in revoked
    BY <2>1 DEF Valid, Age, Absent
  <2>4. CASE Passes(b, t)
    <3>2. DashboardAuth(b)
      BY <2>4, OnlyAuthAnswers DEF Passes
    <3>3. Valid(t)
      BY <2>4, <3>2 DEF Passes, DashboardAuth
    <3>. QED  BY <2>2, <3>3, <2>4 DEF Passes, Refuses
  <2>5. CASE Refuses(b, t) /\ ~failed'
    <3>1. DashboardAuth(b)
      BY <2>5, OnlyAuthAnswers DEF Refuses
    <3>2. ~Valid(t)
      BY <2>1, <2>5, <3>1 DEF Refuses, DashboardAuth, TableInv, AccessTypeOK
    <3>. QED  BY <2>3, <2>5, <3>2 DEF Passes, Refuses
  <2>. QED  BY <2>4, <2>5 DEF Passes, Refuses
<1>. QED  BY TableInit, TableNext, <1>1, PTL
          DEF AccessSpec, CheckAgreesWithLogins

=============================================================================
