---- MODULE MCCutover ----
(* Two projects and two runs of the tool, one of which may crash; a sample *)
(* of one project, so that there are projects outside of it.               *)
EXTENDS Cutover, TLC

CONSTANTS p1, p2

MCSymmetry == Permutations(Projects)

====
