---- MODULE MCProjectWorkspace ----
(***************************************************************************)
(* An editor session on a small instance: three documents, of which the      *)
(* server turns the third into the second (a name with a trailing blank).  *)
(***************************************************************************)
EXTENDS ProjectWorkspace, TLC

CONSTANTS s1, s2, d1, d2, d3, r1, r2

MCClients == Sessions \X {"save", "restore"}
MCNormalized == [d \in Docs |-> IF d = d3 THEN d2 ELSE d]
====
