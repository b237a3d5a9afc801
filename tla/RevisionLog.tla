---- MODULE RevisionLog ----
(***************************************************************************)
(* What a project's document store promises its callers: the project is a  *)
(* log of documents, its revision is the log's length, and a write that    *)
(* was made against revision e takes effect only as entry e + 1.           *)
(* ProjectStore shows that the repository's read, conditional UPDATE and   *)
(* read-back implement this; ProjectWorkspace runs browser sessions        *)
(* against it.                                                             *)
(***************************************************************************)
EXTENDS Naturals, Sequences

CONSTANTS Clients,      \* concurrent callers of the store
          Docs          \* documents a project may hold

VARIABLES log,          \* the documents committed, oldest first
          live,         \* FALSE once the project is deleted
          call          \* per client, the write it has in progress

logVars == <<log, live, call>>

NotCalling == [at |-> "idle"]
Outcomes == {"ok", "conflict", "not-found", "validation", "error"}

Calls ==
    {NotCalling}
      \cup [at : {"pending", "committed"}, base : Nat, doc : Docs]
      \cup [at : {"done"}, outcome : Outcomes, rev : Nat]

LogTypeOK ==
    /\ log \in Seq(Docs)
    /\ live \in BOOLEAN
    /\ call \in [Clients -> Calls]

LogInit ==
    /\ \E d \in Docs : log = <<d>>
    /\ live = TRUE
    /\ call = [c \in Clients |-> NotCalling]

Done(outcome, rev) == [at |-> "done", outcome |-> outcome, rev |-> rev]

(* A caller asks for d to replace the document of revision e.              *)
Begin(c, e, d) ==
    /\ e \in 1..Len(log)
    /\ call' = [call EXCEPT ![c] = [at |-> "pending", base |-> e, doc |-> d]]
    /\ UNCHANGED <<log, live>>

(* Not the code (see ProjectWorkspace): ConflictStopsTheSession and         *)
(* RevisionNeverGoesBack are broken by a write that ignores its base.       *)
FaultyCommit(c) ==
    /\ call[c].at = "pending"
    /\ live
    /\ log' = Append(log, call[c].doc)
    /\ call' = [call EXCEPT ![c].at = "committed"]
    /\ UNCHANGED live

(* The one step at which a write takes effect.                             *)
Commit(c) ==
    /\ call[c].at = "pending"
    /\ live
    /\ call[c].base = Len(log)
    /\ log' = Append(log, call[c].doc)
    /\ call' = [call EXCEPT ![c].at = "committed"]
    /\ UNCHANGED live

(* A write whose base is no longer the newest revision changes nothing, as *)
(* does one on a deleted project or one whose document is invalid.         *)
Refuse(c) ==
    /\ call[c].at = "pending"
    /\ \/ /\ call[c].base < Len(log) \/ ~ live
          /\ call' = [call EXCEPT ![c] = Done("conflict", 0)]
       \/ /\ ~ live
          /\ call' = [call EXCEPT ![c] = Done("not-found", 0)]
       \/ call' = [call EXCEPT ![c] = Done("validation", 0)]
    /\ UNCHANGED <<log, live>>

(* The answer to a committed write names a revision the store has held     *)
(* since the write: the write's own, or a later one of somebody else.      *)
Answer(c) ==
    /\ call[c].at = "committed"
    /\ \/ \E rev \in call[c].base + 1 .. Len(log) :
             call' = [call EXCEPT ![c] = Done("ok", rev)]
       \/ /\ ~ live
          /\ call' = [call EXCEPT ![c] = Done("not-found", 0)]
    /\ UNCHANGED <<log, live>>

(* The call is lost, before or after it took effect.                       *)
Lose(c) ==
    /\ call[c].at \in {"pending", "committed"}
    /\ call' = [call EXCEPT ![c] = Done("error", 0)]
    /\ UNCHANGED <<log, live>>

Return(c) ==
    /\ call[c].at = "done"
    /\ call' = [call EXCEPT ![c] = NotCalling]
    /\ UNCHANGED <<log, live>>

Delete ==
    /\ live
    /\ live' = FALSE
    /\ UNCHANGED <<log, call>>

LogNext ==
    \/ \E c \in Clients :
          \/ /\ call[c] = NotCalling
             /\ \E e \in 1..Len(log), d \in Docs : Begin(c, e, d)
          \/ Commit(c) \/ Refuse(c) \/ Answer(c) \/ Lose(c) \/ Return(c)
    \/ Delete

LogSpec == LogInit /\ [][LogNext]_logVars
====
