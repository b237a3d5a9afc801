---- MODULE MCControlReview ----
(* Two server actions at a time on the records of two controls.            *)
EXTENDS ControlReview, TLC

CONSTANTS c1, c2, k1, k2, f1, f2, v0, v1

MCClients == {c1, c2}
MCControls == {k1, k2}
MCFields == {f1, f2}
MCValues == {v0, v1}
MCDefault == [f \in MCFields |-> v0]
MCSymmetry == Permutations(MCClients) \cup Permutations(MCControls)
                \cup Permutations(MCFields)
====
