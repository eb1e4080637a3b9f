-------------------------------- MODULE Pages --------------------------------
(***************************************************************************)
(* The dashboard's table of events, page by page: a browser that opens the *)
(* table, filters it and follows its newer and older links, while batches  *)
(* are inserted.  A request makes two queries, for the rows and then for   *)
(* their number, and inserts come in between.                              *)
(*                                                                         *)
(* A row is what the queries look at: its timestamp, which is compared as  *)
(* the text that the client wrote, and its app, which stands for all       *)
(* filters.  Rows are known by their rowid, their place in the table.      *)
(* Among equal timestamps SQLite's scan of the index gives the higher rowid*)
(* first.                                                                  *)
(***************************************************************************)
EXTENDS Integers, SequencesExt

CONSTANTS Row,            \* records [timestamp, app] that clients may send
          eventsPerPage,  \* 50
          MaxRows         \* bound: rows inserted

ASSUME PagesAssumption ==
    /\ \A r \in Row : DOMAIN r = {"timestamp", "app"} /\ r.timestamp \in Int
    /\ eventsPerPage \in Nat \ {0}
    /\ MaxRows \in Nat

NoFilter == "all"
Filter == {NoFilter} \cup {r.app : r \in Row}

VARIABLES
    table,    \* the table events, in the order of rowids
    pc,       \* the request: "none", "asked" or "queried"
    want,     \* page, filter and link of the request
    page,     \* what the browser shows: page, filter, rows, HasMore, total
    trail,    \* history: rowids shown since the last page not reached by older
    whole,    \* history: that page was page one
    repeats,  \* history: rows of the page that were already on the trail
    base      \* history: size of the table when the trail began

history == <<trail, whole, repeats, base>>
vars    == <<table, pc, want, page, history>>

Init ==
    /\ table = <<>>
    /\ pc = "none"
    /\ want = [page |-> 1, filter |-> NoFilter, link |-> "open"]
    /\ page = [page |-> 1, filter |-> NoFilter, rows |-> <<>>,
               HasMore |-> FALSE, total |-> 0]
    /\ trail = {} /\ whole = TRUE /\ repeats = 0 /\ base = 0

-----------------------------------------------------------------------------

Matching(filter) ==
    {i \in DOMAIN table : filter \in {NoFilter, table[i].app}}

(* ORDER BY timestamp DESC.                                                *)
Before(i, j) ==
    \/ table[i].timestamp > table[j].timestamp
    \/ table[i].timestamp = table[j].timestamp /\ i > j

(* A deviation: the offset of pages one row shorter than what is shown.    *)
OffsetShort(n) == (n - 1) * (eventsPerPage - 1)

(* The handlers ask for one row more than they show, and QueryEvents takes *)
(* that number for the page size.                                          *)
Offset(n) == (n - 1) * (eventsPerPage + 1)

Sorted(rows) ==
    [k \in 1..Cardinality(rows) |->
        CHOOSE i \in rows : Cardinality({j \in rows : Before(j, i)}) = k - 1]

QueryEvents(filter, n) ==
    LET rows == Sorted(Matching(filter))
        end  == Offset(n) + eventsPerPage + 1
    IN  SubSeq(rows, Offset(n) + 1, IF end > Len(rows) THEN Len(rows) ELSE end)

Shown(rows) ==
    SubSeq(rows, 1, IF Len(rows) > eventsPerPage THEN eventsPerPage
                                                 ELSE Len(rows))

-----------------------------------------------------------------------------

(* A batch commits; of a batch with several rows no query sees a part, but *)
(* nothing here depends on that.                                           *)
InsertEvents(r) ==
    /\ Len(table) < MaxRows
    /\ table' = Append(table, r)
    /\ UNCHANGED <<pc, want, page, history>>

Ask(n, filter, link) ==
    /\ pc = "none"
    /\ pc' = "asked"
    /\ want' = [page |-> n, filter |-> filter, link |-> link]
    /\ UNCHANGED <<table, page, history>>

(* The dashboard itself, and the form of filters, which has no page.       *)
Open(filter) == Ask(1, filter, "open")

(* The links carry the filters and a page number.                          *)
Newer == page.page > 1 /\ Ask(page.page - 1, page.filter, "newer")
Older == page.HasMore /\ Ask(page.page + 1, page.filter, "older")

ExtendTrail(rows) ==
    IF want.link = "older"
      THEN /\ trail' = trail \cup ToSet(rows)
           /\ repeats' = Cardinality(trail \cap ToSet(rows))
           /\ UNCHANGED <<whole, base>>
      ELSE /\ trail' = ToSet(rows)
           /\ whole' = (want.page = 1)
           /\ repeats' = 0
           /\ base' = Len(table)

(* A deviation: the row that tells whether there is more is shown.         *)
QueryRowsUncut(from, to) ==
    /\ pc = from /\ pc' = to
    /\ LET rows == QueryEvents(want.filter, want.page)
       IN  /\ page' = [page EXCEPT !.page = want.page, !.filter = want.filter,
                                   !.HasMore = Len(rows) > eventsPerPage,
                                   !.rows = rows]
           /\ ExtendTrail(rows)
    /\ UNCHANGED <<table, want>>

QueryRows(from, to) ==
    /\ pc = from /\ pc' = to
    /\ LET rows == QueryEvents(want.filter, want.page)
       IN  /\ page' = [page EXCEPT !.page = want.page, !.filter = want.filter,
                                   !.HasMore = Len(rows) > eventsPerPage,
                                   !.rows = Shown(rows)]
           /\ ExtendTrail(Shown(rows))
    /\ UNCHANGED <<table, want>>

(* QueryEvents fails: status 500, which htmx does not swap in.  Of a whole *)
(* dashboard the browser gets the error, and can only go back or reload.   *)
QueryFails ==
    /\ pc = "asked" /\ pc' = "none"
    /\ UNCHANGED <<table, want, page, history>>

(* Both handlers discard the error of the count, and then show 0.          *)
CountEvents(from, to) ==
    /\ pc = from /\ pc' = to
    /\ \E count \in {0, Cardinality(Matching(want.filter))} :
           page' = [page EXCEPT !.total = count]
    /\ UNCHANGED <<table, want, history>>

(* A deviation: the number is asked for before the rows.                   *)
HandleEventsCountFirst ==
    CountEvents("asked", "queried") \/ QueryRows("queried", "none")

(* HandleDashboard and HandleEventsPartial.                                *)
HandleEvents ==
    \/ QueryRows("asked", "queried") \/ QueryFails
    \/ CountEvents("queried", "none")

Next ==
    \/ \E r \in Row : InsertEvents(r)
    \/ \E f \in Filter : Open(f)
    \/ Newer
    \/ Older
    \/ HandleEvents

Spec == Init /\ [][Next]_vars

-----------------------------------------------------------------------------
(* Types, and the shape of a page: never longer than eventsPerPage, full   *)
(* when there is more.                                                     *)
TypeOK ==
    /\ table \in Seq(Row) /\ Len(table) <= MaxRows
    /\ pc \in {"none", "asked", "queried"}
    /\ want \in [page : Nat \ {0}, filter : Filter,
                 link : {"open", "newer", "older"}]
    /\ page \in [page : Nat \ {0}, filter : Filter,
                 rows : Seq(DOMAIN table), HasMore : BOOLEAN,
                 total : 0..Len(table)]
    /\ Len(page.rows) <= eventsPerPage
    /\ page.HasMore => Len(page.rows) = eventsPerPage
    /\ trail \subseteq DOMAIN table
    /\ whole \in BOOLEAN /\ repeats \in Nat /\ base \in 0..Len(table)

(* Following the older link shows a row again only because rows arrived    *)
(* since, and no more rows than arrived: in a table at rest no row is on   *)
(* two pages.                                                              *)
RepeatsBoundedByArrivals ==
    repeats <= Cardinality({i \in Matching(page.filter) : i > base})

(* The number above the table, asked for after the rows, is never less     *)
(* than what the page and its place imply, whatever was inserted between,  *)
(* unless it is the 0 that stands over rows when the count failed.         *)
CountCoversPage ==
    pc # "queried" /\ page.rows # <<>> =>
        \/ page.total = 0
        \/ page.total >= Offset(page.page) + Len(page.rows)
                         + (IF page.HasMore THEN 1 ELSE 0)

(* "QueryEvents returns events matching the given filters, paginated": who *)
(* goes from page one to the last page of a table at rest has seen every   *)
(* event.  The offset skips one event for every page.                      *)
PagesSkipNothing ==
    (/\ pc = "none" /\ whole /\ base = Len(table)
     /\ page.page > 1 /\ ~page.HasMore) => trail = Matching(page.filter)

=============================================================================
