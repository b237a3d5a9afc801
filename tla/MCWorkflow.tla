---- MODULE MCWorkflow ----
(* Two server actions at a time and three rules.  Two are for one trigger: *)
(* one acts and then fails to assign a user who is no member, the other    *)
(* one assigns.  The third sets back the status that the first has set.    *)
EXTENDS Workflow, TLC

CONSTANTS c1, c2, u1, u2, r1, r2, r3

SetStatus(s) == [kind |-> "status", value |-> s]
Assign(u) == [kind |-> "assign", value |-> u]

MCRule ==
    (r1 :> [trigger |-> "updated", condition |-> [kind |-> "status", value |-> "draft"],
            actions |-> <<SetStatus("implemented"), Assign(u2)>>])
    @@ (r2 :> [trigger |-> "updated", condition |-> [kind |-> "always", value |-> None],
               actions |-> <<Assign(u1)>>])
    @@ (r3 :> [trigger |-> "assigned", condition |-> [kind |-> "assignee", value |-> u1],
               actions |-> <<SetStatus("draft")>>])
MCSymmetry == Permutations({c1, c2})

====
