---- MODULE MCDiscussion ----
(* Two server actions at a time, of a moderator and an author, on a thread. *)
EXTENDS Discussion, TLC

CONSTANTS c1, c2, u1, u2

MCRole == (u1 :> "project_manager") @@ (u2 :> "author")
MCBodies == {{}, {u1, u2}}
MCSymmetry == Permutations({c1, c2})

====
