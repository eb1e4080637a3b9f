------------------------------- MODULE Reports -------------------------------
(***************************************************************************)
(* What the server tells of the whole table of events: the figures above   *)
(* the dashboard (buildMetrics) and the answers of the query tool that     *)
(* agents call (executeQuery).  The figures of one page are eight queries, *)
(* and batches are inserted between them; an answer of the tool is read row*)
(* by row under a deadline.                                                *)
(*                                                                         *)
(* A page and a call of the tool only read, so that one at a time shows all*)
(* there is to see.  A row is what the queries look at; its id and app are *)
(* not.  How numbers and colours are printed is left out.                  *)
(***************************************************************************)
EXTENDS Integers, Sequences, FiniteSetsExt

CONSTANTS None,         \* a field that the event does not have
          Row,          \* the rows that clients may send
          Hour,         \* 0..23
          AvgLimit,     \* 1000000: %g writes it and more with an exponent
          TopLimit,     \* 5
          maxRows,      \* 1000
          MaxTable,     \* bound: rows inserted
          MaxFailures   \* bound: queries that fail

Dow   == 0..6           \* SQLite's strftime('%w'): 0 is Sunday
Slot  == Dow \X Hour

Edits      == {"entry.edited", "entry.category_changed"}
Entries    == Edits \cup {"entry.created", "entry.detail_viewed"}
EventTypes == Entries \cup {"llm.request", "session.start"}

(* slot is None when the timestamp, which passed for RFC 3339, is not one  *)
(* to SQLite.                                                              *)
RowType ==
    [event : EventTypes, device : {r.device : r \in Row},
     slot : Slot \cup {None}, tokens : Nat, cost : Nat,
     entry : {r.entry : r \in Row}, time : Nat \cup {None},
     category : {r.category : r \in Row}]

ASSUME ReportsAssumption ==
    /\ None \notin Slot \cup Nat /\ Hour \subseteq Nat
    /\ Row \subseteq RowType
    /\ AvgLimit \in Nat \ {0} /\ TopLimit \in Nat /\ maxRows \in Nat \ {0}
    /\ MaxTable \in Nat /\ MaxFailures \in Nat

VARIABLES
    table,     \* the table events, in the order of rowids
    pc,        \* the query that is next, "render", the tool's "scan", or "idle"
    figures,   \* what the queries of the page returned
    logged,    \* the figures whose error was logged
    at,        \* history: size of the table when a figure was queried
    snapshot,  \* the size of the table that the tool's query sees
    filter,    \* the events that it selects
    results,   \* the rows that it was given
    answer,    \* what the caller is told: "none", "rows", "warning" or "error"
    failures   \* failed queries so far

page == <<figures, logged, at>>
tool == <<snapshot, filter, results, answer>>
vars == <<table, pc, page, tool, failures>>

-----------------------------------------------------------------------------
(* The queries of store.go.                                                *)

Of(events) == {i \in DOMAIN table : table[i].event \in events}
Having(rows, field) == {i \in rows : table[i][field] # None}
Distinct(rows, field) == {table[i][field] : i \in Having(rows, field)}
Sum(rows, field) == MapThenSumSet(LAMBDA i : table[i][field], rows)

(* A deviation: the devices are counted before the cost.                   *)
AfterUsersFirst ==
    [idle |-> "users", users |-> "cost", cost |-> "heat", heat |-> "views",
     views |-> "edits", edits |-> "average", average |-> "unique",
     unique |-> "categories", categories |-> "render", render |-> "idle"]

(* The order in which buildMetrics and buildEngagementMetrics ask.         *)
After ==
    [idle |-> "cost", cost |-> "users", users |-> "heat", heat |-> "views",
     views |-> "edits", edits |-> "average", average |-> "unique",
     unique |-> "categories", categories |-> "render", render |-> "idle"]

Figure == DOMAIN After \ {"idle", "render"}

(* Go's zero values; an absent map is an empty one.                        *)
NoMap == [k \in {} |-> 0]
Zero  == [f \in Figure |-> IF f \in {"heat", "categories"} THEN NoMap ELSE 0]

(* A query is answered, or its error is logged and the page goes on with   *)
(* what was returned beside the error.                                     *)
Answered(f, value, ok) ==
    /\ pc = f
    /\ pc' = After[f]
    /\ figures' = [figures EXCEPT ![f] = value]
    /\ logged' = IF ok THEN logged ELSE logged \cup {f}
    /\ at' = [at EXCEPT ![f] = Len(table)]
    /\ UNCHANGED <<table, tool>>

GetTotalLLMCostMicros ==
    /\ Answered("cost", Sum(Of({"llm.request"}), "cost"), TRUE)
    /\ UNCHANGED failures

GetTotalUniqueDevices ==
    /\ Answered("users", Cardinality(Distinct(DOMAIN table, "device")), TRUE)
    /\ UNCHANGED failures

TokensBy(slots) ==
    [s \in slots |-> Sum({i \in Of({"llm.request"}) : table[i].slot = s}, "tokens")]

(* The rows whose timestamp SQLite cannot read are a group of their own,   *)
(* with NULLs that rows.Scan refuses: everything is given up.              *)
TokensByDayHour ==
    LET requests == Of({"llm.request"})
    IN  /\ IF Having(requests, "slot") = requests
             THEN Answered("heat", TokensBy(Distinct(requests, "slot")), TRUE)
             ELSE Answered("heat", NoMap, FALSE)
        /\ UNCHANGED failures

(* ... but if the iteration fails, what was read is returned as well.      *)
TokensByDayHourFails ==
    /\ failures < MaxFailures /\ failures' = failures + 1
    /\ \E slots \in SUBSET Distinct(Of({"llm.request"}), "slot") :
           Answered("heat", TokensBy(slots), FALSE)

GetEntryViewCount ==
    /\ Answered("views", Cardinality(Of({"entry.detail_viewed"})), TRUE)
    /\ UNCHANGED failures

GetEntryEditCount ==
    /\ Answered("edits", Cardinality(Of(Edits)), TRUE)
    /\ UNCHANGED failures

(* AVG is a float, which Scan prints and parses as an integer: a fraction  *)
(* or an exponent is an error.                                             *)
GetAvgTimeToEditMs ==
    LET timed == Having(Of({"entry.edited"}), "time")
        n     == Cardinality(timed)
        total == Sum(timed, "time")
    IN  /\ IF n = 0 THEN Answered("average", 0, TRUE)
           ELSE IF total % n = 0 /\ total \div n < AvgLimit
           THEN Answered("average", total \div n, TRUE)
           ELSE Answered("average", 0, FALSE)
        /\ UNCHANGED failures

GetUniqueEntriesEngaged ==
    /\ Answered("unique", Cardinality(Distinct(Of(Entries), "entry")), TRUE)
    /\ UNCHANGED failures

(* ORDER BY cnt DESC LIMIT: equal counts come in any order.                *)
GetTopCategories ==
    LET rows     == Having(Of(Entries), "category")
        all      == Distinct(rows, "category")
        Count(c) == Cardinality({i \in rows : table[i].category = c})
    IN  /\ \E top \in SUBSET all :
               /\ Cardinality(top) = Min({TopLimit, Cardinality(all)})
               /\ \A c \in top, other \in all \ top : Count(c) >= Count(other)
               /\ Answered("categories", [c \in top |-> Count(c)], TRUE)
        /\ UNCHANGED failures

(* Of every other query an error leaves nothing.                           *)
QueryFails ==
    /\ pc \in Figure \ {"heat"}
    /\ failures < MaxFailures /\ failures' = failures + 1
    /\ Answered(pc, Zero[pc], FALSE)

-----------------------------------------------------------------------------
(* The page.                                                               *)

(* HandleDashboard comes to buildMetrics, and in the end renders the page. *)
BuildMetrics ==
    /\ pc = "idle"
    /\ pc' = After.idle
    /\ UNCHANGED <<table, page, tool, failures>>

Render ==
    /\ pc = "render"
    /\ pc' = After.render
    /\ figures' = Zero /\ logged' = {} /\ at' = [f \in Figure |-> 0]
    /\ UNCHANGED <<table, tool, failures>>

CostPerUser ==
    IF figures.users > 0 THEN figures.cost \div figures.users ELSE 0

(* Monday to Sunday are the rows of the heat map.                          *)
dowMap == <<1, 2, 3, 4, 5, 6, 0>>

Tokens(dow, hour) ==
    LET slot == <<dow, hour>>
    IN  IF slot \in DOMAIN figures.heat THEN figures.heat[slot] ELSE 0

maxVal == Max({0} \cup {figures.heat[s] : s \in DOMAIN figures.heat})

heatmapColor(value) ==
    IF value = 0 THEN 0
                 ELSE 1 + Cardinality({q \in 1..3 : 4 * value > q * maxVal})

buildHeatmap ==
    [cell \in (1..7) \X Hour |->
        LET value == Tokens(dowMap[cell[1]], cell[2])
        IN  [Tokens |-> value, Color |-> heatmapColor(value)]]

-----------------------------------------------------------------------------
(* The query tool.                                                         *)

Selected == {i \in 1..snapshot : table[i].event \in filter}

(* A SELECT that validateQuery lets pass; the statement sees the table as  *)
(* it is now.                                                              *)
QueryContext(events) ==
    /\ pc = "idle" /\ pc' = "scan"
    /\ snapshot' = Len(table) /\ filter' = events
    /\ results' = {} /\ answer' = "none"
    /\ UNCHANGED <<table, page, failures>>

(* A deviation: one row too many is taken.                                 *)
ScanRowLate ==
    /\ pc = "scan" /\ answer = "none"
    /\ Cardinality(results) <= maxRows
    /\ Selected # results
    /\ results' = results \cup {Min(Selected \ results)}
    /\ UNCHANGED <<table, pc, page, snapshot, filter, answer, failures>>

(* rows.Next and rows.Scan, while there is room.                           *)
ScanRow ==
    /\ pc = "scan" /\ answer = "none"
    /\ Cardinality(results) < maxRows
    /\ Selected # results
    /\ results' = results \cup {Min(Selected \ results)}
    /\ UNCHANGED <<table, pc, page, snapshot, filter, answer, failures>>

(* No more rows, or maxRows of them.                                       *)
ScanEnds ==
    /\ pc = "scan" /\ answer = "none"
    /\ results = Selected \/ Cardinality(results) >= maxRows
    /\ answer' = IF Cardinality(results) >= maxRows THEN "warning" ELSE "rows"
    /\ UNCHANGED <<table, pc, page, snapshot, filter, results, failures>>

(* A deviation: the loop ends, and nobody looks at rows.Err.               *)
ScanCutUnnoticed ==
    /\ pc = "scan" /\ answer = "none"
    /\ answer' = IF Cardinality(results) >= maxRows THEN "warning" ELSE "rows"
    /\ UNCHANGED <<table, pc, page, snapshot, filter, results, failures>>

(* Five seconds are over, or a row cannot be read: rows.Err tells, and the *)
(* rows that were read are not returned.                                   *)
ScanCut ==
    /\ pc = "scan" /\ answer = "none"
    /\ answer' = "error" /\ results' = {}
    /\ UNCHANGED <<table, pc, page, snapshot, filter, failures>>

ToolAnswered ==
    /\ pc = "scan" /\ answer # "none"
    /\ pc' = "idle"
    /\ snapshot' = 0 /\ filter' = {} /\ results' = {} /\ answer' = "none"
    /\ UNCHANGED <<table, page, failures>>

-----------------------------------------------------------------------------

(* A batch commits.                                                        *)
InsertEvents(r) ==
    /\ Len(table) < MaxTable
    /\ table' = Append(table, r)
    /\ UNCHANGED <<pc, page, tool, failures>>

Init ==
    /\ table = <<>> /\ pc = "idle"
    /\ figures = Zero /\ logged = {} /\ at = [f \in Figure |-> 0]
    /\ snapshot = 0 /\ filter = {} /\ results = {} /\ answer = "none"
    /\ failures = 0

Metrics ==
    \/ BuildMetrics
    \/ GetTotalLLMCostMicros \/ GetTotalUniqueDevices
    \/ TokensByDayHour \/ TokensByDayHourFails
    \/ GetEntryViewCount \/ GetEntryEditCount \/ GetAvgTimeToEditMs
    \/ GetUniqueEntriesEngaged \/ GetTopCategories
    \/ QueryFails
    \/ Render

ExecuteQuery ==
    \/ \E events \in {{"llm.request"}, Entries, EventTypes} : QueryContext(events)
    \/ ScanRow \/ ScanEnds \/ ScanCut
    \/ ToolAnswered

Next ==
    \/ \E r \in Row : InsertEvents(r)
    \/ Metrics
    \/ ExecuteQuery

Spec == Init /\ [][Next]_vars

-----------------------------------------------------------------------------
(* Types; no answer has more than maxRows rows, and none has rows that were*)
(* inserted after the query began.                                         *)
TypeOK ==
    /\ table \in Seq(Row) /\ Len(table) <= MaxTable
    /\ pc \in Figure \cup {"idle", "render", "scan"}
    /\ DOMAIN figures = Figure
    /\ \A f \in Figure \ {"heat", "categories"} : figures[f] \in Nat
    /\ DOMAIN figures.heat \subseteq Slot
    /\ Cardinality(DOMAIN figures.categories) <= TopLimit
    /\ logged \subseteq Figure /\ at \in [Figure -> 0..Len(table)]
    /\ snapshot \in 0..Len(table) /\ filter \subseteq EventTypes
    /\ results \subseteq Selected /\ Cardinality(results) <= maxRows
    /\ answer \in {"none", "rows", "warning", "error"}
    /\ failures \in 0..MaxFailures

Rendered == pc = "render"

(* The rows that were there when a figure was queried.                     *)
Then(f, events) == {i \in 1..at[f] : table[i].event \in events}

(* Whatever is inserted between the queries of one page, the cost per user *)
(* is never more than the table said when the cost was read, and the edited*)
(* and viewed entries that the page counts are counted as unique ones.     *)
LaterFiguresCoverEarlier ==
    Rendered =>
        /\ LET users == Cardinality(Distinct(1..at.cost, "device"))
           IN  CostPerUser * users <= Sum(Then("cost", {"llm.request"}), "cost")
        /\ "unique" \notin logged =>
               figures.unique >= Cardinality(Distinct(
                   Then("views", {"entry.detail_viewed"}) \cup Then("edits", Edits),
                   "entry"))

(* What the heat map shows of the slot of a request.                       *)
Cell(i) ==
    LET dow == table[i].slot[1]
    IN  buildHeatmap[<<IF dow = 0 THEN 7 ELSE dow, table[i].slot[2]>>]

(* What comes without a logged error, an error or a warning is whole: every*)
(* token of the table is in the heat map, in the row of its day, and more  *)
(* tokens are never in a weaker colour; an average time is exact; an answer*)
(* of the tool has every row there was when the query began.               *)
SilenceMeansWhole ==
    /\ Rendered /\ "heat" \notin logged =>
           LET requests == Then("heat", {"llm.request"})
           IN  /\ Having(requests, "slot") = requests
               /\ \A i \in requests :
                      Cell(i).Tokens = Sum({j \in requests :
                                            table[j].slot = table[i].slot}, "tokens")
               /\ \A i, j \in requests : Cell(i).Tokens > Cell(j).Tokens =>
                                             Cell(i).Color >= Cell(j).Color
    /\ Rendered /\ "average" \notin logged =>
           LET timed == Having(Then("average", {"entry.edited"}), "time")
           IN  figures.average * Cardinality(timed) = Sum(timed, "time")
    /\ answer = "rows" => results = Selected

=============================================================================
