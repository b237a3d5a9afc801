---- MODULE MCTeam ----
(* Two server actions at a time, a founder and two more users.              *)
EXTENDS Team, TLC

CONSTANTS c1, c2, u1, u2, u3

MCSymmetry == Permutations({c1, c2})

====
