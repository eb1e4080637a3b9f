------------------------------ MODULE MCReports ------------------------------
(* TLC instances of Reports.                                               *)
EXTENDS Reports

CONSTANTS d1, d2, x, y, idea

Request(device, slot, tokens, cost) ==
    [event |-> "llm.request", device |-> device, slot |-> slot,
     tokens |-> tokens, cost |-> cost, entry |-> None, time |-> None,
     category |-> None]

Engaged(event, device, entry, time) ==
    [event |-> event, device |-> device, slot |-> <<1, 9>>, tokens |-> 0,
     cost |-> 0, entry |-> entry, time |-> time, category |-> idea]

(* Requests of two devices on a Sunday and a Monday, one whose timestamp   *)
(* SQLite cannot read and that names no device, edits and a view.          *)
Rows ==
    {Request(d1, <<0, 9>>, 1, 4), Request(d2, <<1, 23>>, 3, 2),
     Request(None, None, 2, 2),
     Engaged("entry.edited", d1, x, 1), Engaged("entry.edited", d1, y, 2),
     Engaged("entry.detail_viewed", d2, x, None)}

TwoHours == {9, 23}

=============================================================================
