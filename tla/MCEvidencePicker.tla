---- MODULE MCEvidencePicker ----
(* Three records of which two have the same type, pages of one.  Two        *)
(* records share a time stamp, and one table has room for a new record.     *)
EXTENDS EvidencePicker, TLC

CONSTANTS a, b, t, u

MCTypeOf == 1 :> t @@ 2 :> t @@ 3 :> u

Live(text, at) == [text |-> text, at |-> at, linked |-> FALSE, status |-> "live"]
Absent == [text |-> a, at |-> 0, linked |-> FALSE, status |-> "absent"]

MCTables ==
    {<<Live(a, 1), Live(a, 1), Live(b, 0)>>, <<Live(a, 0), Live(b, 1), Absent>>}

====
