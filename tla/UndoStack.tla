---- MODULE UndoStack ----
(* What undo and redo promise: a tape of working copies and a place on it. *)
(* Writing forgets what lay ahead, and what is too far back.               *)
EXTENDS Naturals, Sequences

CONSTANTS Copies, Limit

VARIABLES tape, at

Written(x) == Append(SubSeq(tape, 1, at), x)
Kept(t) == IF Len(t) > Limit + 1 THEN Tail(t) ELSE t

Init == tape \in [{1} -> Copies] /\ at = 1

Write(x) ==
    /\ x # tape[at]
    /\ tape' = Kept(Written(x))
    /\ at' = Len(tape')

Back == at > 1 /\ at' = at - 1 /\ UNCHANGED tape

Forward == at < Len(tape) /\ at' = at + 1 /\ UNCHANGED tape

(* What is on the screen is written first, if it is not on the tape.       *)
WriteBack(x) ==
    /\ x # tape[at]
    /\ tape' = Kept(Written(x))
    /\ at' = Len(tape') - 1

Reset(x) == tape' = <<x>> /\ at' = 1

Next ==
    \/ Back \/ Forward
    \/ \E x \in Copies : Write(x) \/ WriteBack(x) \/ Reset(x)

Spec == Init /\ [][Next]_<<tape, at>>

====
