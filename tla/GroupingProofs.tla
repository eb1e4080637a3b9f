--------------------------- MODULE GroupingProofs ---------------------------
(* Theorems about Grouping, for pages of any length, any number of         *)
(* requests, and every order in which the map yields the groups.           *)
EXTENDS Grouping, FiniteSetTheorems, WellFoundedInduction, TLAPS

USE GroupingAssumption, NoRequestAssumption

n == Len(rid)

(* The slice is a permutation of the page, and a turn goes on behind the   *)
(* first place.                                                            *)
Permutation(v) ==
    /\ v \in [1..n -> 1..n]
    /\ \A i, j \in 1..n : v[i] = v[j] => i = j
    /\ \A r \in 1..n : \E i \in 1..n : v[i] = r

RowsInv ==
    /\ rid \in Seq(RequestID \cup {NoRequest})
    /\ Permutation(views)
    /\ toCluster \subseteq RequestID
    /\ \A id \in toCluster : groups(id) # {}
    /\ current \in RequestID \cup {NoRequest}
    /\ insertAt \in Nat /\ passes \in Int
    /\ current # NoRequest => insertAt >= 1

LEMMA LeastPlace ==
    ASSUME NEW T, T \subseteq Nat, T # {}
    PROVE  Min(T) \in T /\ \A y \in T : Min(T) <= y
<1>1. \E x \in T : \A y \in T : <<y, x>> \notin OpToRel(<, Nat)
  BY NatLessThanWellFounded, WFMin
<1>2. \A x, y \in Nat : <<y, x>> \notin OpToRel(<, Nat) => x <= y
  BY DEF OpToRel
<1>3. \E x \in T : \A y \in T : x <= y
  BY <1>1, <1>2
<1>. QED  BY <1>3 DEF Min

LEMMA RowsFacts ==
    ASSUME RowsInv
    PROVE  /\ n \in Nat /\ DOMAIN rid = 1..n /\ DOMAIN views = 1..n
           /\ \A id, from : Members(id, from) \subseteq 1..n
  BY DEF RowsInv, Permutation, Members, n

(* The anchor of a group that the loop has not reached exists.             *)
LEMMA Anchor ==
    ASSUME RowsInv, NEW id \in toCluster
    PROVE  /\ Min(Members(id, 1)) \in Members(id, 1)
           /\ \A i \in Members(id, 1) : Min(Members(id, 1)) <= i
<1>1. PICK r \in groups(id) : TRUE
  BY DEF RowsInv
<1>2. r \in 1..n /\ rid[r] = id
  BY <1>1, RowsFacts DEF groups
<1>3. PICK i \in 1..n : views[i] = r
  BY <1>2 DEF RowsInv, Permutation
<1>4. i \in Members(id, 1)
  BY <1>2, <1>3, RowsFacts DEF Members
<1>5. Members(id, 1) \subseteq Nat
  BY RowsFacts
<1>. HIDE DEF Members
<1>. QED  BY <1>4, <1>5, LeastPlace

(* The place whose row stands at k when row i has moved.                   *)
From(i, k) == IF k = insertAt THEN i
              ELSE IF k > insertAt /\ k <= i THEN k - 1 ELSE k

LEMMA MovedFrom ==
    ASSUME RowsInv, NEW i \in 1..n, insertAt >= 1, insertAt <= i
    PROVE  /\ Moved(i) \in [1..n -> 1..n]
           /\ \A k \in 1..n : /\ From(i, k) \in 1..n
                              /\ Moved(i)[k] = views[From(i, k)]
<1>1. /\ n \in Nat /\ insertAt \in Nat /\ DOMAIN views = 1..n
      /\ views \in [1..n -> 1..n]
  BY RowsFacts DEF RowsInv, Permutation
<1>2. \A k \in 1..n : From(i, k) \in 1..n
  BY <1>1 DEF From
<1>3. ASSUME NEW k \in 1..n
      PROVE  (IF k = insertAt THEN views[i]
              ELSE IF k > insertAt /\ k <= i THEN views[k - 1]
              ELSE views[k]) = views[From(i, k)]
  BY DEF From
<1>4. Moved(i) = [k \in 1..n |-> views[From(i, k)]]
  BY <1>1, <1>3, Zenon DEF Moved
<1>5. \A k \in 1..n : views[From(i, k)] \in 1..n
  BY <1>1, <1>2
<1>. QED  BY <1>2, <1>4, <1>5

(* Moving a row up the slice loses none.                                   *)
LEMMA MovedPermutes ==
    ASSUME RowsInv, NEW i \in 1..n, insertAt >= 1, insertAt <= i
    PROVE  Permutation(Moved(i))
<1>. DEFINE w == Moved(i)
            to(k) == IF k = i THEN insertAt
                     ELSE IF k >= insertAt /\ k < i THEN k + 1 ELSE k
<1>1. \A k \in 1..n : /\ to(k) \in 1..n
                      /\ From(i, to(k)) = k /\ to(From(i, k)) = k
  BY RowsFacts DEF RowsInv, From
<1>2. /\ w \in [1..n -> 1..n]
      /\ \A k \in 1..n : From(i, k) \in 1..n /\ w[k] = views[From(i, k)]
  BY MovedFrom
<1>. HIDE DEF w, to
<1>3. \A k, l \in 1..n : w[k] = w[l] => k = l
  <2>. SUFFICES ASSUME NEW k \in 1..n, NEW l \in 1..n, w[k] = w[l]
                PROVE  k = l
    OBVIOUS
  <2>1. From(i, k) = From(i, l)
    <3>1. \A x, y \in 1..n : views[x] = views[y] => x = y
      BY DEF RowsInv, Permutation
    <3>2. /\ From(i, k) \in 1..n /\ From(i, l) \in 1..n
          /\ views[From(i, k)] = views[From(i, l)]
      BY <1>2
    <3>. QED  BY <3>1, <3>2
  <2>2. to(From(i, k)) = to(From(i, l))
    BY <2>1
  <2>. QED  BY <1>1, <2>2
<1>4. \A r \in 1..n : \E k \in 1..n : w[k] = r
  <2>. SUFFICES ASSUME NEW r \in 1..n PROVE \E k \in 1..n : w[k] = r
    OBVIOUS
  <2>1. PICK j \in 1..n : views[j] = r
    BY DEF RowsInv, Permutation
  <2>2. to(j) \in 1..n /\ w[to(j)] = r
    BY <1>1, <1>2, <2>1
  <2>. QED  BY <2>2
<1>. QED  BY <1>2, <1>3, <1>4 DEF Permutation, w

LEMMA RowsInit == Init => RowsInv
<1>. SUFFICES ASSUME Init PROVE RowsInv
  OBVIOUS
<1>1. PICK m \in 0..MaxRows : rid \in [1..m -> RequestID \cup {NoRequest}]
  BY DEF Init
<1>2. rid \in Seq(RequestID \cup {NoRequest}) /\ n = m /\ DOMAIN rid = 1..n
  BY <1>1 DEF n
<1>3. Permutation(views)
  BY <1>2 DEF Init, Permutation
<1>4. \A id \in toCluster : groups(id) # {}
  BY FS_EmptySet DEF Init
<1>. QED  BY <1>2, <1>3, <1>4 DEF Init, RowsInv

LEMMA RowsNext == RowsInv /\ [Next]_vars => RowsInv'
<1>. SUFFICES ASSUME RowsInv, [Next]_vars PROVE RowsInv'
  OBVIOUS
<1>0. ASSUME NEW v, Permutation(v), rid' = rid, views' = v
      PROVE  Permutation(views)'
  BY <1>0 DEF Permutation, n
<1>1. ASSUME NEW id \in RequestID, Cluster(id) PROVE RowsInv'
  <2>1. id \in toCluster
    BY <1>1 DEF Cluster
  <2>2. Min(Members(id, 1)) \in Nat
    BY <2>1, Anchor, RowsFacts
  <2>3. Cardinality(groups(id)) \in Nat
    <3>1. groups(id) \subseteq 1..n /\ n \in Nat
      BY RowsFacts DEF groups
    <3>2. IsFiniteSet(1..n)
      BY <3>1, FS_Interval
    <3>3. IsFiniteSet(groups(id))
      BY <3>1, <3>2, FS_Subset
    <3>. QED  BY <3>3, FS_CardinalityType
  <2>. QED  BY <1>0, <1>1, <2>2, <2>3 DEF Cluster, RowsInv, groups
<1>2. CASE Pass
  <2>1. Permutation(views)' /\ insertAt' \in Nat /\ insertAt' >= insertAt
    <3>. DEFINE found == Members(current, insertAt + 1)
    <3>1. CASE found = {}
      BY <1>0, <1>2, <3>1 DEF Pass, RowsInv
    <3>2. CASE found # {}
      <4>1. found \subseteq 1..n /\ \A i \in found : i >= insertAt + 1
        BY RowsFacts DEF Members
      <4>2. Min(found) \in found
        BY <3>2, <4>1, LeastPlace
      <4>3. Permutation(Moved(Min(found)))
        BY <1>2, <4>1, <4>2, MovedPermutes DEF Pass, RowsInv
      <4>. QED  BY <1>0, <1>2, <3>2, <4>3 DEF Pass, RowsInv
    <3>. QED  BY <3>1, <3>2
  <2>. QED  BY <1>2, <2>1 DEF Pass, RowsInv, groups
<1>3. CASE EndTurn \/ MarkGroups \/ UNCHANGED vars
  BY <1>0, <1>3 DEF EndTurn, MarkGroups, vars, loop, RowsInv, groups
<1>. QED  BY <1>1, <1>2, <1>3 DEF Next

(* applyGrouping never loses or doubles a row, at any point of its loops.  *)
THEOREM RowsKept == Spec => []NoRowLost
<1>1. RowsInv => NoRowLost
  <2>. SUFFICES ASSUME RowsInv PROVE NoRowLost
    OBVIOUS
  <2>1. ToSet(views) = DOMAIN rid
    <3>1. \A r \in ToSet(views) : r \in 1..n
      BY RowsFacts DEF RowsInv, Permutation, ToSet
    <3>2. \A r \in 1..n : r \in ToSet(views)
      BY RowsFacts DEF RowsInv, Permutation, ToSet
    <3>. QED  BY <3>1, <3>2, RowsFacts
  <2>. QED  BY <2>1, RowsFacts DEF NoRowLost, RowsInv, Permutation, n
<1>. QED  BY RowsInit, RowsNext, <1>1, PTL DEF Spec

-----------------------------------------------------------------------------
(* While a group is gathered, its members fill the places from the anchor  *)
(* a up to insertAt, none is before, and either none is behind the scan or *)
(* every pass so far moved one.                                            *)
Gathered(a) ==
    /\ a \in 1..(insertAt - 1) /\ insertAt - 1 <= n /\ passes >= 0
    /\ \A i \in a..(insertAt - 1) : rid[views[i]] = current
    /\ \A i \in Members(current, 1) : i >= a
    /\ \/ Members(current, insertAt + 1) = {}
       \/ insertAt - a = Cardinality(groups(current)) - passes

TogetherInv ==
    /\ RowsInv
    /\ DoneGroupsTogether
    /\ current # NoRequest => \E a \in 1..n : Gathered(a)

LEMMA GroupsFinite ==
    ASSUME RowsInv, NEW id
    PROVE  /\ IsFiniteSet(groups(id)) /\ Cardinality(groups(id)) \in Nat
           /\ groups(id) # {} => Cardinality(groups(id)) >= 1
<1>1. groups(id) \subseteq 1..n /\ n \in Nat
  BY RowsFacts DEF groups
<1>2. IsFiniteSet(1..n)
  BY <1>1, FS_Interval
<1>3. IsFiniteSet(groups(id))
  BY <1>1, <1>2, FS_Subset
<1>4. Cardinality(groups(id)) \in Nat
  BY <1>3, FS_CardinalityType
<1>5. Cardinality(groups(id)) = 0 <=> groups(id) = {}
  BY <1>3, FS_EmptySet
<1>. QED  BY <1>3, <1>4, <1>5

(* A block of places survives a move if neither the place before insertAt  *)
(* nor the one that the row is taken from is in it.                        *)
LEMMA BlockSurvives ==
    ASSUME RowsInv, NEW i \in 1..n, insertAt >= 1, insertAt <= i,
           NEW P, P \subseteq 1..n, Contiguous(P),
           insertAt - 1 \notin P, i \notin P,
           NEW Q, \A k : k \in Q <=> k \in 1..n /\ From(i, k) \in P
    PROVE  Contiguous(Q)
<1>0. n \in Nat /\ insertAt \in Nat
  BY RowsFacts DEF RowsInv
<1>. SUFFICES ASSUME NEW k \in Q, NEW l \in Q, NEW x \in k..l PROVE x \in Q
  BY DEF Contiguous
<1>1. k \in 1..n /\ l \in 1..n /\ x \in 1..n /\ k <= x /\ x <= l
  BY <1>0
<1>2. From(i, k) \in P /\ From(i, l) \in P
  OBVIOUS
<1>3. \A y \in From(i, k)..From(i, l) : y \in P
  BY <1>2 DEF Contiguous
<1>4. k # insertAt /\ l # insertAt
  BY <1>2 DEF From
<1>5. CASE x = insertAt
  <2>1. insertAt - 1 \in From(i, k)..From(i, l)
    BY <1>0, <1>1, <1>4, <1>5 DEF From
  <2>. QED  BY <1>3, <2>1
<1>6. CASE x # insertAt
  <2>1. From(i, x) \in From(i, k)..From(i, l)
    BY <1>0, <1>1, <1>4, <1>6 DEF From
  <2>. QED  BY <1>1, <1>3, <2>1
<1>. QED  BY <1>5, <1>6

LEMMA MemberDef ==
    ASSUME RowsInv, NEW id, NEW from
    PROVE  \A i : i \in Members(id, from) <=>
                      i \in 1..n /\ i >= from /\ rid[views[i]] = id
  BY RowsFacts DEF Members

(* When the passes are used up, the group stands together: as many places  *)
(* are filled as it has rows, and no row has two places.                   *)
LEMMA GatheredTogether ==
    ASSUME RowsInv, current # NoRequest, NEW a \in 1..n, Gathered(a), passes = 0
    PROVE  Contiguous(Members(current, 1))
<1>. DEFINE places == a..(insertAt - 1)
            group == groups(current)
            members == Members(current, 1)
<1>0. n \in Nat /\ insertAt \in Nat /\ views \in [1..n -> 1..n]
  BY RowsFacts DEF RowsInv, Permutation
<1>1. /\ a \in Nat /\ a <= insertAt - 1 /\ insertAt - 1 <= n /\ a >= 1
      /\ \A i \in places : rid[views[i]] = current
      /\ \A i \in members : i >= a
      /\ Members(current, insertAt + 1) = {} \/ insertAt - a = Cardinality(group)
  <2>1. Cardinality(group) \in Nat
    BY GroupsFinite
  <2>. QED  BY <1>0, <2>1 DEF Gathered
<1>2. \A i : i \in members <=> i \in 1..n /\ rid[views[i]] = current
  BY MemberDef
<1>3. \A i \in places : i \in members
  <2>1. \A i \in places : i \in 1..n
    BY <1>0, <1>1
  <2>. HIDE DEF places, members
  <2>. QED  BY <1>1, <1>2, <2>1
<1>4. CASE Members(current, insertAt + 1) = {}
  <2>1. \A i \in members : i \in Nat /\ a <= i /\ i <= insertAt
    <3>1. \A i : ~(i \in 1..n /\ i >= insertAt + 1 /\ rid[views[i]] = current)
      BY <1>4, MemberDef
    <3>. HIDE DEF members
    <3>. QED  BY <1>0, <1>1, <1>2, <3>1
  <2>. HIDE DEF members
  <2>2. ASSUME NEW i \in members, NEW j \in members, NEW x \in i..j
        PROVE  x \in members
    <3>1. x \in Int /\ a <= x /\ x <= insertAt /\ i <= x /\ x <= j
      <4>1. i \in Nat /\ a <= i /\ j \in Nat /\ j <= insertAt
        BY <2>1
      <4>. QED  BY <1>0, <1>1, <4>1
    <3>2. CASE x = insertAt
      <4>1. j \in Nat /\ j <= insertAt
        BY <2>1
      <4>2. j = x
        BY <1>0, <3>1, <3>2, <4>1
      <4>. QED  BY <4>2
    <3>3. CASE x # insertAt
      BY <1>0, <1>1, <1>3, <3>1, <3>3
    <3>. QED  BY <3>2, <3>3
  <2>. QED  BY <2>2 DEF Contiguous, members
<1>5. CASE insertAt - a = Cardinality(group)
  <2>1. ASSUME NEW k \in members, k \notin places PROVE FALSE
    <3>. DEFINE S == places \cup {k}
                f == [x \in S |-> views[x]]
    <3>1. \A x \in S : x \in 1..n /\ rid[views[x]] = current
      BY <1>2, <1>3, <2>1
    <3>2. f \in [S -> group]
      <4>1. \A x \in S : views[x] \in group
        BY <1>0, <3>1, RowsFacts DEF groups
      <4>. HIDE DEF S, group
      <4>. QED  BY <4>1
    <3>3. IsFiniteSet(places) /\ Cardinality(places) = insertAt - a
      <4>1. a \in Int /\ insertAt - 1 \in Int /\ ~(a > insertAt - 1)
        BY <1>0, <1>1
      <4>2. /\ IsFiniteSet(places)
            /\ Cardinality(places) = (insertAt - 1) - a + 1
        BY <4>1, FS_Interval
      <4>. QED  BY <1>0, <1>1, <4>2
    <3>4. IsFiniteSet(S) /\ Cardinality(S) = insertAt - a + 1
      BY <2>1, <3>3, FS_AddElement
    <3>5. IsFiniteSet(group) /\ Cardinality(group) \in Nat
      BY GroupsFinite
    <3>6. Cardinality(group) < Cardinality(S)
      BY <1>5, <3>4, <3>5
    <3>. HIDE DEF S, group, f
    <3>7. \E x, y \in S : x # y /\ f[x] = f[y]
      BY ONLY <3>2, <3>4, <3>5, <3>6, FS_PigeonHole
    <3>. QED  BY <3>1, <3>7 DEF RowsInv, Permutation, f
  <2>2. members = places
    BY <1>3, <2>1
  <2>3. Contiguous(places)
    BY <1>0, <1>1 DEF Contiguous
  <2>. QED  BY <2>2, <2>3
<1>. QED  BY <1>1, <1>4, <1>5

LEMMA TogetherInit == Init => TogetherInv
<1>. SUFFICES ASSUME Init PROVE TogetherInv
  OBVIOUS
<1>1. RowsInv
  BY RowsInit
<1>2. ASSUME NEW id \in RequestID, id \notin toCluster, NEW i \in Members(id, 1),
             NEW j \in Members(id, 1)
      PROVE  i = j
  <2>1. i \in groups(id) /\ j \in groups(id)
    BY <1>2, <1>1, RowsFacts DEF Init, Members, groups
  <2>2. Cardinality(groups(id)) < 2 /\ IsFiniteSet(groups(id))
    BY <1>1, <1>2, GroupsFinite DEF Init
  <2>. SUFFICES ASSUME i # j PROVE FALSE
    OBVIOUS
  <2>3. IsFiniteSet({i}) /\ Cardinality({i}) = 1
    BY FS_Singleton
  <2>4. Cardinality({i} \cup {j}) = 2
    <3>1. Cardinality({i} \cup {j}) =
              IF j \in {i} THEN Cardinality({i}) ELSE Cardinality({i}) + 1
      BY <2>3, FS_AddElement, Zenon
    <3>2. j \notin {i}
      OBVIOUS
    <3>. QED  BY <2>3, <3>1, <3>2
  <2>5. ({i} \cup {j}) \in SUBSET groups(id)
    BY <2>1
  <2>6. Cardinality({i} \cup {j}) <= Cardinality(groups(id))
    BY <2>2, <2>5, FS_Subset
  <2>7. Cardinality(groups(id)) \in Nat
    BY <1>1, GroupsFinite
  <2>. QED  BY <2>2, <2>4, <2>6, <2>7
<1>3. \A id : Members(id, 1) \subseteq Nat
  BY <1>1, RowsFacts
<1>4. \A k \in Nat : k..k = {k}
  OBVIOUS
<1>5. DoneGroupsTogether
  <2>. HIDE DEF Members
  <2>. SUFFICES ASSUME NEW id \in RequestID, id \notin toCluster,
                       NEW i \in Members(id, 1), NEW j \in Members(id, 1)
                PROVE  i..j \subseteq Members(id, 1)
    BY DEF DoneGroupsTogether, Contiguous
  <2>. QED  BY <1>2, <1>3, <1>4
<1>. QED  BY <1>1, <1>5 DEF Init, TogetherInv

(* One pass that finds row i of the current group behind the scan.         *)
LEMMA MoveKeepsTogether ==
    ASSUME TogetherInv, RowsInv', current # NoRequest, passes > 0,
           NEW i \in Members(current, insertAt + 1), views' = Moved(i),
           insertAt' = insertAt + 1, passes' = passes - 1,
           UNCHANGED <<rid, toCluster, current>>
    PROVE  TogetherInv'
<1>. USE DEF TogetherInv
<1>1. /\ n \in Nat /\ n' = n /\ insertAt \in Nat /\ insertAt >= 1
      /\ i \in 1..n /\ i >= insertAt + 1 /\ rid[views[i]] = current
      /\ passes \in Int /\ \A id : groups(id)' = groups(id)
  BY RowsFacts, MemberDef DEF RowsInv, n, groups
<1>2. \A k \in 1..n : /\ From(i, k) \in 1..n
                      /\ views'[k] = views[From(i, k)]
  <2>1. insertAt <= i
    BY <1>1
  <2>. QED  BY <1>1, <2>1, MovedFrom
<1>3. \A id, from, k : k \in Members(id, from)' <=>
                           k \in 1..n /\ k >= from /\ rid[views'[k]] = id
  <2>1. DOMAIN views' = 1..n
    BY <1>1, MovedFrom
  <2>. QED  BY <2>1 DEF Members
<1>4. \A id, k : k \in Members(id, 1)' <=>
                     k \in 1..n /\ From(i, k) \in Members(id, 1)
  BY <1>1, <1>2, <1>3, MemberDef
<1>5. PICK a \in 1..n : Gathered(a)
  OBVIOUS
<1>6. /\ a \in Nat /\ a >= 1 /\ a <= insertAt - 1
      /\ \A k \in a..(insertAt - 1) : rid[views[k]] = current
      /\ \A k \in Members(current, 1) : k >= a
      /\ insertAt - a = Cardinality(groups(current)) - passes
  BY <1>1, <1>5 DEF Gathered
<1>7. Gathered(a)'
  <2>1. \A k \in a..insertAt : rid[views'[k]] = current
    <3>1. \A k \in a..insertAt :
              k \in 1..n /\ (From(i, k) = i \/ From(i, k) \in a..(insertAt - 1))
      BY <1>1, <1>6 DEF From
    <3>. QED  BY <1>1, <1>2, <1>6, <3>1
  <2>2. \A k \in Members(current, 1)' : k >= a
    <3>1. \A k \in 1..n : From(i, k) >= a => k >= a
      BY <1>1, <1>6 DEF From
    <3>. QED  BY <1>4, <1>6, <3>1
  <2>3. insertAt' - a = Cardinality(groups(current)) - passes'
    <3>1. Cardinality(groups(current)) \in Nat
      BY GroupsFinite
    <3>. QED  BY <1>1, <1>6, <3>1
  <2>4. /\ a \in 1..insertAt /\ insertAt <= n /\ passes - 1 >= 0
        /\ insertAt' - 1 = insertAt
    BY <1>1, <1>6
  <2>. QED  BY <1>1, <2>1, <2>2, <2>3, <2>4 DEF Gathered
<1>8. DoneGroupsTogether'
  <2>. SUFFICES ASSUME NEW id \in RequestID, id \notin toCluster, id # current
                PROVE  Contiguous(Members(id, 1)')
    BY DEF DoneGroupsTogether
  <2>1. Contiguous(Members(id, 1)) /\ Members(id, 1) \subseteq 1..n
    BY RowsFacts DEF DoneGroupsTogether
  <2>2. i \notin Members(id, 1) /\ insertAt - 1 \notin Members(id, 1)
    <3>1. rid[views[insertAt - 1]] = current
      BY <1>1, <1>6
    <3>. QED  BY <1>1, <3>1, MemberDef
  <2>3. insertAt <= i
    BY <1>1
  <2>4. \A k : k \in Members(id, 1)' <=> k \in 1..n /\ From(i, k) \in Members(id, 1)
    BY <1>4
  <2>. QED  BY <1>1, <2>1, <2>2, <2>3, <2>4, BlockSurvives
<1>. QED  BY <1>1, <1>7, <1>8

LEMMA TogetherNext == TogetherInv /\ [Next]_vars => TogetherInv'
<1>. SUFFICES ASSUME TogetherInv, [Next]_vars PROVE TogetherInv'
  OBVIOUS
<1>0. RowsInv /\ RowsInv'
  BY RowsNext DEF TogetherInv
<1>1. ASSUME NEW id \in RequestID, Cluster(id) PROVE TogetherInv'
  <2>1. /\ id \in toCluster /\ current = NoRequest /\ id # NoRequest
        /\ current' = id /\ toCluster' = toCluster \ {id}
        /\ insertAt' = Min(Members(id, 1)) + 1
        /\ passes' = Cardinality(groups(id)) - 1
        /\ UNCHANGED <<rid, views>>
    BY <1>1 DEF Cluster
  <2>2. \A r, from : Members(r, from)' = Members(r, from)
    BY <2>1 DEF Members
  <2>3. DoneGroupsTogether'
    BY <2>1, <2>2 DEF DoneGroupsTogether, TogetherInv
  <2>4. PICK a \in 1..n : /\ a = Min(Members(id, 1))
                          /\ rid[views[a]] = id
                          /\ \A i \in Members(id, 1) : a <= i
    BY <1>0, <2>1, Anchor, MemberDef
  <2>5. n \in Nat /\ a \in Nat /\ a >= 1 /\ a <= n /\ n' = n
    BY <1>0, <2>1, RowsFacts DEF n
  <2>6. /\ Cardinality(groups(id)) \in Nat /\ Cardinality(groups(id)) >= 1
        /\ groups(id)' = groups(id)
    BY <1>0, <2>1, GroupsFinite DEF RowsInv, groups
  <2>7. /\ insertAt' - 1 = a /\ insertAt' - a = 1 /\ a \in 1..(insertAt' - 1)
        /\ a..(insertAt' - 1) = {a} /\ passes' >= 0
    BY <2>1, <2>4, <2>5, <2>6
  <2>8. insertAt' - a = Cardinality(groups(id)) - passes'
    BY <2>1, <2>6, <2>7
  <2>9. Gathered(a)'
    BY <2>1, <2>2, <2>4, <2>5, <2>6, <2>7, <2>8 DEF Gathered
  <2>. QED  BY <1>0, <2>3, <2>5, <2>9 DEF TogetherInv
<1>2. CASE Pass
  <2>. DEFINE found == Members(current, insertAt + 1)
  <2>1. /\ current # NoRequest /\ passes > 0 /\ passes' = passes - 1
        /\ UNCHANGED <<rid, toCluster, current>>
    BY <1>2 DEF Pass
  <2>2. CASE found = {}
    <3>1. UNCHANGED <<views, insertAt>>
      BY <1>2, <2>2 DEF Pass
    <3>2. /\ \A r, from : Members(r, from)' = Members(r, from)
          /\ n' = n /\ passes' \in Int /\ passes' >= 0
      BY <1>0, <2>1, <3>1 DEF Members, n, RowsInv
    <3>3. PICK a \in 1..n : Gathered(a)
      BY <2>1 DEF TogetherInv
    <3>4. Gathered(a)'
      BY <2>1, <2>2, <3>1, <3>2, <3>3 DEF Gathered
    <3>5. DoneGroupsTogether'
      BY <2>1, <3>2 DEF DoneGroupsTogether, TogetherInv
    <3>. QED  BY <1>0, <3>2, <3>4, <3>5 DEF TogetherInv
  <2>3. CASE found # {}
    <3>1. found \subseteq Nat
      BY <1>0, RowsFacts
    <3>2. Min(found) \in found
      BY <2>3, <3>1, LeastPlace
    <3>3. views' = Moved(Min(found)) /\ insertAt' = insertAt + 1
      BY <1>2, <2>3 DEF Pass
    <3>. HIDE DEF found
    <3>. QED  BY <1>0, <2>1, <3>2, <3>3, MoveKeepsTogether DEF found
  <2>. QED  BY <2>2, <2>3
<1>3. CASE EndTurn
  <2>1. /\ current # NoRequest /\ passes = 0 /\ current' = NoRequest
        /\ UNCHANGED <<rid, views, toCluster>>
    BY <1>3 DEF EndTurn
  <2>2. \A r : Members(r, 1)' = Members(r, 1)
    BY <2>1 DEF Members
  <2>3. Contiguous(Members(current, 1))
    BY <1>0, <2>1, GatheredTogether DEF TogetherInv
  <2>4. DoneGroupsTogether'
    BY <2>1, <2>2, <2>3 DEF DoneGroupsTogether, TogetherInv
  <2>. QED  BY <1>0, <2>1, <2>4 DEF TogetherInv
<1>4. CASE MarkGroups \/ UNCHANGED vars
  <2>1. UNCHANGED <<rid, views, toCluster, current, insertAt, passes>>
    BY <1>4 DEF MarkGroups, vars, loop
  <2>2. /\ \A r, from : Members(r, from)' = Members(r, from)
        /\ \A r : groups(r)' = groups(r)
        /\ n' = n
    BY <2>1 DEF Members, groups, n
  <2>3. \A a : Gathered(a) => Gathered(a)'
    BY <2>1, <2>2 DEF Gathered
  <2>4. DoneGroupsTogether'
    BY <2>1, <2>2 DEF DoneGroupsTogether, TogetherInv
  <2>. QED  BY <1>0, <2>1, <2>2, <2>3, <2>4 DEF TogetherInv
<1>. QED  BY <1>1, <1>2, <1>3, <1>4 DEF Next

(* Groups that the loop is done with stand together and stay so while the  *)
(* others are gathered, whatever the order of the map.                     *)
THEOREM GroupsStayTogether == Spec => []DoneGroupsTogether
<1>1. TogetherInv => DoneGroupsTogether
  BY DEF TogetherInv
<1>. QED  BY TogetherInit, TogetherNext, <1>1, PTL DEF Spec

-----------------------------------------------------------------------------
(* Marks are only set when the loop is over, and then nothing moves.       *)
MarksInv ==
    /\ TogetherInv
    /\ GroupPos # <<>> =>
           /\ toCluster = {} /\ current = NoRequest
           /\ GroupPos = [i \in 1..n |-> MarkAt(i)]

LEMMA GreatestPlace ==
    ASSUME NEW m \in Nat, NEW T, T \subseteq 1..m, T # {}
    PROVE  Max(T) \in T /\ \A y \in T : Max(T) >= y
<1>. DEFINE U == {x \in 0..m : m - x \in T}
<1>1. PICK t \in T : TRUE
  OBVIOUS
<1>2. m - t \in U
  <2>1. t \in 1..m
    OBVIOUS
  <2>2. m - t \in 0..m /\ m - (m - t) = t
    BY <2>1
  <2>. QED  BY <2>2
<1>3. U \subseteq Nat /\ U # {}
  BY <1>2
<1>4. Min(U) \in U /\ \A y \in U : Min(U) <= y
  <2>. HIDE DEF U
  <2>. QED  BY <1>3, LeastPlace
<1>5. PICK x \in U : \A y \in U : x <= y
  BY <1>4
<1>6. m - x \in T /\ x \in 0..m
  BY <1>5
<1>7. \A y \in T : m - x >= y
  <2>. TAKE y \in T
  <2>1. y \in 1..m
    OBVIOUS
  <2>2. m - y \in U
    <3>1. m - y \in 0..m /\ m - (m - y) = y
      BY <2>1
    <3>. QED  BY <3>1
  <2>3. x <= m - y
    BY <1>5, <2>2
  <2>. QED  BY <1>6, <2>1, <2>3
<1>8. \E z \in T : \A y \in T : z >= y
  BY <1>6, <1>7
<1>. HIDE DEF U
<1>. QED  BY <1>8 DEF Max

LEMMA MarksInit == Init => MarksInv
  BY TogetherInit DEF Init, MarksInv

LEMMA MarksNext == MarksInv /\ [Next]_vars => MarksInv'
<1>. SUFFICES ASSUME MarksInv, [Next]_vars PROVE MarksInv'
  OBVIOUS
<1>1. TogetherInv' /\ RowsInv
  BY TogetherNext DEF MarksInv, TogetherInv
<1>2. CASE GroupPos = <<>> /\ ~MarkGroups
  <2>1. GroupPos' = <<>>
    BY <1>2 DEF Next, Cluster, Pass, EndTurn, vars
  <2>. QED  BY <1>1, <2>1 DEF MarksInv
<1>3. CASE MarkGroups
  <2>1. /\ toCluster' = {} /\ current' = NoRequest /\ n' = n
        /\ GroupPos' = [i \in 1..n |-> MarkAt(i)]
    BY <1>1, <1>3, RowsFacts DEF MarkGroups, loop, n
  <2>2. \A i : MarkAt(i)' = MarkAt(i)
    BY <1>3 DEF MarkGroups, MarkAt, Same
  <2>. QED  BY <1>1, <2>1, <2>2 DEF MarksInv
<1>4. CASE GroupPos # <<>>
  <2>1. toCluster = {} /\ current = NoRequest
    BY <1>4 DEF MarksInv
  <2>2. UNCHANGED vars
    BY <1>4, <2>1 DEF Next, Cluster, Pass, EndTurn, MarkGroups
  <2>3. /\ n' = n /\ UNCHANGED <<toCluster, current, GroupPos>>
        /\ \A i : MarkAt(i)' = MarkAt(i)
    BY <2>2 DEF vars, loop, n, MarkAt, Same
  <2>. QED  BY <1>1, <2>3 DEF MarksInv
<1>. QED  BY <1>2, <1>3, <1>4

(* What MarkAt says of a place, its neighbours being of its group or not.  *)
LEMMA MarkCases ==
    ASSUME NEW i
    PROVE  /\ Same(i, i - 1) /\ Same(i, i + 1) => MarkAt(i) = "mid"
           /\ Same(i, i - 1) /\ ~Same(i, i + 1) => MarkAt(i) = "last"
           /\ ~Same(i, i - 1) /\ Same(i, i + 1) => MarkAt(i) = "first"
           /\ ~Same(i, i - 1) /\ ~Same(i, i + 1) => MarkAt(i) = ""
  BY DEF MarkAt

(* The marks are those of the groups, not only of the runs of equal        *)
(* neighbours from which markGroups takes them.                            *)
THEOREM GroupsFramed == Spec => []MarksFrameGroups
<1>1. MarksInv => MarksFrameGroups
  <2>. SUFFICES ASSUME MarksInv, GroupPos # <<>>, NEW i \in 1..n
                PROVE  LET group == Members(rid[views[i]], 1)
                       IN  GroupPos[i] =
                             IF rid[views[i]] = NoRequest \/ group = {i} THEN ""
                             ELSE IF i = Min(group) THEN "first"
                             ELSE IF i = Max(group) THEN "last" ELSE "mid"
    <3>1. MarksInv => DOMAIN views = 1..n
      BY RowsFacts DEF MarksInv, TogetherInv
    <3>. QED  BY <3>1 DEF MarksFrameGroups
  <2>. DEFINE r == rid[views[i]]
              group == Members(r, 1)
  <2>1. /\ RowsInv /\ DoneGroupsTogether /\ n \in Nat
        /\ toCluster = {} /\ current = NoRequest
        /\ GroupPos[i] = MarkAt(i)
    BY RowsFacts DEF MarksInv, TogetherInv
  <2>2. r \in RequestID \cup {NoRequest} /\ DOMAIN views = 1..n
    <3>1. n \in Nat /\ DOMAIN rid = 1..n /\ DOMAIN views = 1..n
      BY <2>1, RowsFacts
    <3>2. rid \in Seq(RequestID \cup {NoRequest}) /\ views \in [1..n -> 1..n]
      BY <2>1 DEF RowsInv, Permutation
    <3>3. views[i] \in DOMAIN rid
      BY <3>1, <3>2
    <3>. QED  BY <3>1, <3>2, <3>3
  <2>3. CASE r = NoRequest
    <3>1. ~Same(i, i - 1) /\ ~Same(i, i + 1)
      BY <2>3 DEF Same
    <3>. QED  BY <2>1, <2>3, <3>1, MarkCases
  <2>4. CASE r # NoRequest
    <3>1. \A k : k \in group <=> k \in 1..n /\ rid[views[k]] = r
      BY <2>1, MemberDef
    <3>2. \A k : Same(i, k) <=> k \in group
      BY <2>2, <2>4, <3>1 DEF Same
    <3>3. Contiguous(group)
      BY <2>1, <2>2, <2>4 DEF DoneGroupsTogether
    <3>4. i \in group /\ group \subseteq 1..n
      BY <3>1
    <3>. HIDE DEF group
    <3>5. /\ Min(group) \in group /\ \A y \in group : Min(group) <= y
          /\ Max(group) \in group /\ \A y \in group : Max(group) >= y
      <4>1. group \subseteq Nat
        BY <3>4
      <4>. QED  BY <2>1, <3>4, <4>1, LeastPlace, GreatestPlace
    <3>6. PICK lo, hi \in group : /\ lo = Min(group) /\ hi = Max(group)
                                  /\ \A y \in group : lo <= y /\ y <= hi
      BY <2>1, <3>4, <3>5
    <3>7. \A y \in lo..hi : y \in group
      BY <3>6, <3>3 DEF Contiguous
    <3>8. lo \in Nat /\ hi \in Nat /\ i \in Nat /\ lo <= i /\ i <= hi
      BY <2>1, <3>4, <3>6
    <3>9. i - 1 \in group <=> i # lo
      BY <3>6, <3>7, <3>8
    <3>10. i + 1 \in group <=> i # hi
      BY <3>6, <3>7, <3>8
    <3>11. group = {i} <=> i = lo /\ i = hi
      <4>1. group = {i} => i = lo /\ i = hi
        BY <3>6
      <4>2. i = lo /\ i = hi => \A y \in group : y = i
        BY <3>4, <3>6, <3>8
      <4>. QED  BY <3>4, <4>1, <4>2
    <3>12. MarkAt(i) = IF group = {i} THEN ""
                       ELSE IF i = lo THEN "first"
                       ELSE IF i = hi THEN "last" ELSE "mid"
      BY <3>2, <3>9, <3>10, <3>11, MarkCases
    <3>. QED  BY <2>1, <2>4, <3>6, <3>12 DEF group
  <2>. QED  BY <2>3, <2>4
<1>. QED  BY MarksInit, MarksNext, <1>1, PTL DEF Spec

-----------------------------------------------------------------------------
(* A move takes a row that does not lead, because the first place of its   *)
(* group, before insertAt, is that of the row that does.                   *)
LeadersFirst ==
    \A id \in RequestID : \A i, j \in Members(id, 1) : Leads(views[j]) => j <= i

LeadersApart ==
    \A i, j \in 1..n :
        i < j /\ Leads(views[i]) /\ Leads(views[j]) => views[i] < views[j]

LeadersInv == TogetherInv /\ LeadersFirst /\ LeadersApart

LEMMA LeadersInit == Init => LeadersInv
<1>. SUFFICES ASSUME Init PROVE LeadersInv
  OBVIOUS
<1>1. TogetherInv /\ RowsInv
  BY TogetherInit DEF TogetherInv
<1>2. n \in Nat /\ DOMAIN rid = 1..n /\ \A i \in 1..n : views[i] = i
  BY <1>1, RowsFacts DEF Init
<1>3. LeadersApart
  BY <1>2 DEF LeadersApart
<1>4. LeadersFirst
  <2>. SUFFICES ASSUME NEW id \in RequestID, NEW i \in Members(id, 1),
                       NEW j \in Members(id, 1), Leads(views[j])
                PROVE  j <= i
    BY DEF LeadersFirst
  <2>1. /\ i \in 1..n /\ rid[i] = id /\ views[j] = j
        /\ j \in 1..n /\ rid[j] = id
    BY <1>1, <1>2, MemberDef
  <2>2. j = Min(groups(id))
    BY <2>1, NoRequestAssumption DEF Leads
  <2>3. i \in groups(id) /\ groups(id) \subseteq Nat
    BY <1>2, <2>1 DEF groups
  <2>. QED  BY <2>2, <2>3, LeastPlace
<1>. QED  BY <1>1, <1>3, <1>4 DEF LeadersInv

LEMMA MoveKeepsLeaders ==
    ASSUME LeadersInv, current # NoRequest,
           NEW i \in Members(current, insertAt + 1), views' = Moved(i),
           rid' = rid
    PROVE  (LeadersFirst /\ LeadersApart)'
<1>0. RowsInv /\ TogetherInv
  BY DEF LeadersInv, TogetherInv
<1>1. /\ n \in Nat /\ n' = n /\ insertAt \in Nat /\ insertAt >= 1
      /\ i \in 1..n /\ i >= insertAt + 1 /\ i >= 1 /\ rid[views[i]] = current
      /\ current \in RequestID
  BY <1>0, RowsFacts, MemberDef DEF RowsInv, n
<1>2. \A k \in 1..n : From(i, k) \in 1..n /\ views'[k] = views[From(i, k)]
  <2>1. insertAt <= i
    BY <1>1
  <2>. QED  BY <1>0, <1>1, <2>1, MovedFrom
<1>3. \A id, k : k \in Members(id, 1)' <=>
                     k \in 1..n /\ From(i, k) \in Members(id, 1)
  <2>1. DOMAIN views' = 1..n
    BY <1>0, <1>1, MovedFrom
  <2>2. \A id, k : k \in Members(id, 1)' <=>
                       k \in 1..n /\ k >= 1 /\ rid[views'[k]] = id
    BY <2>1 DEF Members
  <2>. QED  BY <1>0, <1>1, <1>2, <2>2, MemberDef
<1>4. \A r : Leads(r)' <=> Leads(r)
  BY DEF Leads, groups
<1>5. PICK a \in 1..n : Gathered(a)
  BY <1>0 DEF TogetherInv
<1>6. a \in Members(current, 1) /\ i \in Members(current, 1) /\ a < insertAt
  <2>1. a \in a..(insertAt - 1) /\ a < insertAt /\ a >= 1
    BY <1>1, <1>5 DEF Gathered
  <2>2. rid[views[a]] = current
    BY <1>5, <2>1 DEF Gathered
  <2>. QED  BY <1>0, <1>1, <2>1, <2>2, MemberDef
<1>7. ~Leads(views[i])
  <2>. SUFFICES ASSUME Leads(views[i]) PROVE FALSE
    OBVIOUS
  <2>1. i <= a
    BY <1>1, <1>6 DEF LeadersInv, LeadersFirst
  <2>. QED  BY <1>1, <1>6, <2>1
<1>8. \A k \in 1..n : Leads(views[k])' =>
                          k # insertAt /\ Leads(views[From(i, k)])
  <2>1. From(i, insertAt) = i
    BY DEF From
  <2>. QED  BY <1>2, <1>4, <1>7, <2>1
<1>9. LeadersApart'
  <2>. SUFFICES ASSUME NEW k \in 1..n, NEW l \in 1..n, k < l,
                       Leads(views[k])', Leads(views[l])'
                PROVE  (views[k] < views[l])'
    BY <1>1 DEF LeadersApart
  <2>1. From(i, k) < From(i, l)
    BY <1>1, <1>8 DEF From
  <2>. QED  BY <1>2, <1>8, <2>1 DEF LeadersInv, LeadersApart
<1>10. LeadersFirst'
  <2>. SUFFICES ASSUME NEW id \in RequestID, NEW k \in Members(id, 1)',
                       NEW l \in Members(id, 1)', Leads(views[l])'
                PROVE  l <= k
    BY DEF LeadersFirst
  <2>1. /\ k \in 1..n /\ From(i, k) \in Members(id, 1)
        /\ l \in 1..n /\ From(i, l) \in Members(id, 1)
    BY <1>3
  <2>2. /\ l # insertAt /\ Leads(views[From(i, l)])
        /\ From(i, k) \in 1..n /\ From(i, l) \in 1..n
    BY <1>2, <1>8, <2>1
  <2>3. \A y \in Members(id, 1) : From(i, l) <= y
    BY <2>1, <2>2 DEF LeadersInv, LeadersFirst
  <2>4. CASE k # insertAt
    <3>1. From(i, l) <= From(i, k)
      BY <2>1, <2>3
    <3>. QED  BY <1>1, <2>1, <2>2, <2>4, <3>1 DEF From
  <2>5. CASE k = insertAt
    <3>1. From(i, k) = i
      BY <2>5 DEF From
    <3>2. id = current
      BY <1>0, <1>1, <2>1, <3>1, MemberDef
    <3>3. From(i, l) <= a
      BY <1>6, <2>3, <3>2
    <3>. QED  BY <1>1, <1>6, <2>1, <2>2, <2>5, <3>3 DEF From
  <2>. QED  BY <2>4, <2>5
<1>. QED  BY <1>9, <1>10

LEMMA LeadersNext == LeadersInv /\ [Next]_vars => LeadersInv'
<1>. SUFFICES ASSUME LeadersInv, [Next]_vars PROVE LeadersInv'
  OBVIOUS
<1>1. TogetherInv' /\ RowsInv
  BY TogetherNext DEF LeadersInv, TogetherInv
<1>2. CASE UNCHANGED <<rid, views>>
  <2>1. /\ \A id : Members(id, 1)' = Members(id, 1)
        /\ \A r : Leads(r)' <=> Leads(r)
        /\ n' = n
    BY <1>2 DEF Members, Leads, groups, n
  <2>. QED  BY <1>1, <1>2, <2>1 DEF LeadersInv, LeadersFirst, LeadersApart
<1>3. CASE Pass /\ views' # views
  <2>. DEFINE found == Members(current, insertAt + 1)
  <2>1. /\ current # NoRequest /\ found # {} /\ rid' = rid
        /\ views' = Moved(Min(found))
    BY <1>3 DEF Pass
  <2>2. found \subseteq Nat
    BY <1>1, RowsFacts
  <2>3. Min(found) \in found
    BY <2>1, <2>2, LeastPlace
  <2>. HIDE DEF found
  <2>4. (LeadersFirst /\ LeadersApart)'
    BY <2>1, <2>3, MoveKeepsLeaders DEF found
  <2>. QED  BY <1>1, <2>4 DEF LeadersInv
<1>. QED
  BY <1>2, <1>3 DEF Next, Cluster, Pass, EndTurn, MarkGroups, vars, loop

(* The order of the map does not show in the order of the leading rows, and*)
(* no other row of a request gets before its first.                        *)
THEOREM LeadersKept == Spec => []LeadersInOrder
<1>1. LeadersInv => LeadersInOrder
  <2>. SUFFICES ASSUME LeadersInv PROVE LeadersInOrder
    OBVIOUS
  <2>1. RowsInv /\ n \in Nat /\ DOMAIN views = 1..n /\ DOMAIN rid = 1..n
    BY RowsFacts DEF LeadersInv, TogetherInv
  <2>2. ASSUME NEW id \in RequestID, groups(id) # {}
        PROVE  Leads(views[Min(Members(id, 1))])
    <3>1. groups(id) \subseteq Nat
      BY <2>1 DEF groups
    <3>2. PICK r \in groups(id) : r = Min(groups(id))
      BY <2>2, <3>1, LeastPlace
    <3>3. r \in 1..n /\ rid[r] = id /\ Leads(r)
      BY <2>1, <3>2 DEF groups, Leads
    <3>4. PICK j \in 1..n : views[j] = r
      BY <2>1, <3>3 DEF RowsInv, Permutation
    <3>5. j \in Members(id, 1) /\ Members(id, 1) \subseteq Nat
      BY <2>1, <3>3, <3>4, MemberDef, RowsFacts
    <3>6. \A i \in Members(id, 1) : j <= i
      BY <3>3, <3>4, <3>5 DEF LeadersInv, LeadersFirst
    <3>7. PICK i \in Members(id, 1) : /\ i = Min(Members(id, 1))
                                      /\ \A y \in Members(id, 1) : i <= y
      BY <3>5, LeastPlace
    <3>8. i = j
      <4>1. i <= j /\ j <= i /\ i \in Nat /\ j \in Nat
        BY <3>5, <3>6, <3>7
      <4>. QED  BY <4>1
    <3>. QED  BY <3>3, <3>4, <3>7, <3>8
  <2>. QED
    BY <2>1, <2>2 DEF LeadersInOrder, LeadersInv, LeadersApart
<1>. QED  BY LeadersInit, LeadersNext, <1>1, PTL DEF Spec

=============================================================================
