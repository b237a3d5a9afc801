---- MODULE MCEvidence ----
(* Two server actions at a time on one evidence item.                      *)
EXTENDS Evidence, TLC

CONSTANTS c1, c2, k1

MCClients == {c1, c2}
MCControls == {k1}
MCSymmetry == Permutations(MCClients)
====
