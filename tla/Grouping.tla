------------------------------ MODULE Grouping ------------------------------
(***************************************************************************)
(* applyGrouping: how one page of events is rearranged so that the events  *)
(* of one LLM request stand together.  It works in place, one group after  *)
(* the other, in the random order of a Go map, and each group moves rows   *)
(* of the slice that the next group scans.                                 *)
(*                                                                         *)
(* A row is known by its place on the page that the query returned; rid    *)
(* gives its request_id.                                                   *)
(***************************************************************************)
EXTENDS Integers, FiniteSetsExt, SequencesExt

CONSTANTS RequestID,  \* the non-empty request ids
          MaxRows     \* bound: rows of a page

ASSUME GroupingAssumption == MaxRows \in Nat

NoRequest == "none"   \* the empty string
ASSUME NoRequestAssumption == NoRequest \notin RequestID

VARIABLES
    rid,        \* the request id of each row
    views,      \* the slice, of rows
    toCluster,  \* groups that the loop has not reached
    current,    \* the group it is at, NoRequest between two turns
    insertAt,   \* where the next member goes
    passes,     \* passes left for the group
    GroupPos    \* the mark of each place of the slice, once they are set

loop == <<current, insertAt, passes>>
vars == <<rid, views, toCluster, loop, GroupPos>>

(* groups[id]: the rows of a request.                                      *)
groups(id) == {r \in DOMAIN rid : rid[r] = id}

Init ==
    /\ \E n \in 0..MaxRows : rid \in [1..n -> RequestID \cup {NoRequest}]
    /\ views = [i \in DOMAIN rid |-> i]
    /\ toCluster = {id \in RequestID : Cardinality(groups(id)) >= 2}
    /\ current = NoRequest /\ insertAt = 0 /\ passes = 0
    /\ GroupPos = <<>>

-----------------------------------------------------------------------------

(* The places, from a given one on, that hold members of a group.          *)
Members(id, from) == {i \in DOMAIN views : i >= from /\ rid[views[i]] = id}

(* A deviation: one pass too few.                                          *)
ClusterShort(id) ==
    /\ current = NoRequest /\ id \in toCluster
    /\ current' = id
    /\ insertAt' = Min(Members(id, 1)) + 1
    /\ passes' = Cardinality(groups(id)) - 2
    /\ toCluster' = toCluster \ {id}
    /\ UNCHANGED <<rid, views, GroupPos>>

(* A turn of the loop begins: the anchor is the first member.              *)
Cluster(id) ==
    /\ current = NoRequest /\ id \in toCluster
    /\ current' = id
    /\ insertAt' = Min(Members(id, 1)) + 1
    /\ passes' = Cardinality(groups(id)) - 1
    /\ toCluster' = toCluster \ {id}
    /\ UNCHANGED <<rid, views, GroupPos>>

(* Deviations: the row between is overwritten, or the two rows swap.       *)
MovedLosing(i) == [views EXCEPT ![insertAt] = views[i]]
MovedSwapping(i) == [views EXCEPT ![insertAt] = views[i],
                                  ![i] = views[insertAt]]

(* Row i goes to insertAt; the rows from there on move up by one.          *)
Moved(i) ==
    [k \in DOMAIN views |->
        IF k = insertAt THEN views[i]
        ELSE IF k > insertAt /\ k <= i THEN views[k - 1]
        ELSE views[k]]

(* A pass looks behind insertAt for the next member, and moves it there.   *)
Pass ==
    /\ current # NoRequest /\ passes > 0
    /\ passes' = passes - 1
    /\ LET found == Members(current, insertAt + 1)
       IN  IF found = {}
             THEN UNCHANGED <<views, insertAt>>
             ELSE /\ views' = Moved(Min(found))
                  /\ insertAt' = insertAt + 1
    /\ UNCHANGED <<rid, toCluster, current, GroupPos>>

EndTurn ==
    /\ current # NoRequest /\ passes = 0
    /\ current' = NoRequest
    /\ UNCHANGED <<rid, views, toCluster, insertAt, passes, GroupPos>>

Same(i, j) == i \in DOMAIN views /\ j \in DOMAIN views
              /\ rid[views[i]] = rid[views[j]] /\ rid[views[i]] # NoRequest

(* The marks of a maximal run of rows of one request.                      *)
MarkAt(i) ==
    CASE Same(i, i - 1) /\ Same(i, i + 1) -> "mid"
      [] Same(i, i - 1) /\ ~Same(i, i + 1) -> "last"
      [] ~Same(i, i - 1) /\ Same(i, i + 1) -> "first"
      [] OTHER -> ""

(* A deviation: the marks are set before the rows are moved.               *)
MarkGroupsEarly ==
    /\ GroupPos = <<>> /\ views # <<>>
    /\ GroupPos' = [i \in DOMAIN views |-> MarkAt(i)]
    /\ UNCHANGED <<rid, views, toCluster, loop>>

MarkGroups ==
    /\ toCluster = {} /\ current = NoRequest
    /\ GroupPos = <<>> /\ views # <<>>
    /\ GroupPos' = [i \in DOMAIN views |-> MarkAt(i)]
    /\ UNCHANGED <<rid, views, toCluster, loop>>

Next ==
    \/ \E id \in RequestID : Cluster(id)
    \/ Pass
    \/ EndTurn
    \/ MarkGroups

Spec == Init /\ [][Next]_vars

-----------------------------------------------------------------------------
(* After every pass the slice holds each row of the page once.             *)
NoRowLost ==
    /\ Len(views) = Len(rid)
    /\ ToSet(views) = DOMAIN rid

Contiguous(places) == \A i, j \in places : i..j \subseteq places

(* The rows of a group that the loop is done with stand together, and the  *)
(* groups clustered later do not tear them apart.                          *)
DoneGroupsTogether ==
    \A id \in RequestID \ (toCluster \cup {current}) :
        Contiguous(Members(id, 1))

(* Rows that lead: the first of each request, and rows of no request.      *)
Leads(r) == rid[r] = NoRequest \/ r = Min(groups(rid[r]))

(* Whatever the order of the map, leading rows keep the order of the query,*)
(* newest first, and the first of a request stays the first of its group.  *)
LeadersInOrder ==
    /\ \A i, j \in DOMAIN views :
           i < j /\ Leads(views[i]) /\ Leads(views[j]) => views[i] < views[j]
    /\ \A id \in RequestID : groups(id) # {} =>
           Leads(views[Min(Members(id, 1))])

(* The marks that style the table frame each group of two or more rows,    *)
(* wherever it went, and nothing else.                                     *)
MarksFrameGroups ==
    GroupPos # <<>> => \A i \in DOMAIN views :
        LET group == Members(rid[views[i]], 1)
        IN  GroupPos[i] = IF rid[views[i]] = NoRequest \/ group = {i} THEN ""
                          ELSE IF i = Min(group) THEN "first"
                          ELSE IF i = Max(group) THEN "last" ELSE "mid"

=============================================================================
