---- MODULE ProjectStore ----
(***************************************************************************)
(* The project repository on PostgreSQL: one project row with an           *)
(* optimistic-concurrency revision, and the snapshots kept beside it.      *)
(* The repository opens no transaction, so each SQL statement is a step of *)
(* its own and concurrent server actions interleave between any two.       *)
(*                                                                         *)
(* Abstractions.  A document is its name, its text (metadata and           *)
(* implementations) and its parameter records; the fingerprint of a        *)
(* document is the document, in the normal form the server gives it (names *)
(* trimmed; see ProjectWorkspace).  createdAt orders the snapshots as they *)
(* were inserted, so a snapshot's id stands for both.  The wall clock is   *)
(* the bit "cooling".  hist is a history variable: no statement reads it.  *)
(* The operators named Faulty... are not the code: each is a bug that could *)
(* be made in the definition after it, and names the property it breaks.   *)
(***************************************************************************)
EXTENDS Naturals, Sequences, FiniteSets

CONSTANTS Clients,      \* server actions that may be in flight at once
          Names, Texts, Params,
          Inputs,       \* documents that callers submit
          Unwritable,   \* those that fail validation (unknown controls, schema)
          None,
          AutoKeep,     \* AUTOMATIC_SNAPSHOT_RETENTION
          PreKeep,      \* PRE_RESTORE_SNAPSHOT_RETENTION
          MaxRevision, MaxSnapshots, MaxFailures   \* bounds of the model

Docs == [name : Names, text : Texts, params : Params]
Rows == [rev : Nat \ {0}, doc : Docs]     \* rows of table projects

VARIABLES row,          \* the row of table projects, or NoRow
          snapshots,    \* the rows of table project_snapshots
          stamp,        \* creation order handed out so far
          cooling,      \* the newest automatic snapshot is younger than
                        \* AUTOMATIC_SNAPSHOT_INTERVAL_MS
          req,          \* per client, the server action it has in flight
          failures,     \* requests that died half-way
          hist          \* every document committed, with who and how

vars == <<row, snapshots, stamp, cooling, req, failures, hist>>

NoRow == [rev |-> 0, doc |-> None]
SnapshotTypes == {"automatic", "named", "pre-restore"}
Snapshots == [id : Nat, type : SnapshotTypes, rev : Nat \ {0}, doc : Docs]

(* Writers reach saveProject.  "patch" is a save that leaves out           *)
(* parameterRecords; "snapshot" is "Snapshot now", "throttled" the         *)
(* repository's createAutomaticSnapshot.                                   *)
Writers == {"save", "patch", "rename", "restore"}
Kinds == Writers \cup {"version", "snapshot", "throttled"}
Steps == {"idle", "load", "fetch", "rows", "insert", "prune", "delete",
          "read", "cas", "after", "done"}
Outcomes == {"ok", "conflict", "not-found", "validation", "error"}

ASSUME StoreAssumption ==
    /\ Inputs \subseteq Docs /\ Unwritable \subseteq Inputs
    /\ None \notin Docs \cup Rows \cup Clients \cup Outcomes
    /\ AutoKeep \in Nat \ {0} /\ PreKeep \in Nat \ {0}
    /\ MaxRevision \in Nat /\ MaxSnapshots \in Nat /\ MaxFailures \in Nat

Requests ==
    [pc : Steps,
     kind : Kinds \cup {None},
     expected : Nat,                        \* expectedRevision
     target : Nat \cup Names \cup {None},   \* snapshot to restore, new name
     doc : Docs \cup {None},                \* document to write, once known
     seen : Rows \cup {None},               \* the row as last read
     doomed : SUBSET Nat,                   \* deleteIds of pruneSnapshots
     outcome : Outcomes \cup {None},
     answer : Rows \cup {None}]             \* the project sent back

Idle == [pc |-> "idle", kind |-> None, expected |-> 0, target |-> None,
         doc |-> None, seen |-> None, doomed |-> {}, outcome |-> None,
         answer |-> None]

TypeOK ==
    /\ row \in Rows \cup {NoRow}
    /\ snapshots \subseteq Snapshots
    /\ stamp \in Nat
    /\ cooling \in BOOLEAN
    /\ req \in [Clients -> Requests]
    /\ failures \in Nat
    /\ hist \in Seq([doc : Docs, by : Clients \cup {None},
                     kind : Writers \cup {"create"}])
----
(* Snapshot policy.                                                        *)

Newer(S, s) == {x \in S : x.type = s.type /\ x.id > s.id}

Retention(type) == IF type = "automatic" THEN AutoKeep ELSE PreKeep

(* RetentionHolds: > for >=.  PruningSparesNamedAndNewest: no type test.    *)
FaultyPruneOneTooFew(S) ==
    {s.id : s \in {x \in S : /\ x.type # "named"
                             /\ Cardinality(Newer(S, x)) > Retention(x.type)}}
FaultyPruneNamed(S) ==
    {s.id : s \in {x \in S : Cardinality(Newer(S, x)) >= Retention(x.type)}}

snapshotIdsToPrune(S) ==
    {s.id : s \in {x \in S : /\ x.type # "named"
                             /\ Cardinality(Newer(S, x)) >= Retention(x.type)}}

Automatic(S) == {s \in S : s.type = "automatic"}
Newest(S) == CHOOSE s \in S : \A x \in S : x.id <= s.id

(* An automatic snapshot is taken when there is none yet, or the content   *)
(* differs from the newest one's and, for the throttled call only, the     *)
(* interval has passed.                                                    *)
shouldCreateAutomaticSnapshot(doc, throttled) ==
    LET auto == Automatic(snapshots) IN
    \/ auto = {}
    \/ /\ Newest(auto).doc # doc
       /\ throttled => ~ cooling

SnapshotType(kind) ==
    CASE kind = "version" -> "named"
      [] kind = "restore" -> "pre-restore"
      [] OTHER            -> "automatic"
----
Init ==
    /\ \E d \in Inputs \ Unwritable :
          /\ row = [rev |-> 1, doc |-> d]
          /\ hist = <<[doc |-> d, by |-> None, kind |-> "create"]>>
    /\ snapshots = {}
    /\ stamp = 0
    /\ cooling = FALSE
    /\ req = [c \in Clients |-> Idle]
    /\ failures = 0

At(c, pc) == req[c].pc = pc
Set(c, r) == req' = [req EXCEPT ![c] = r]
GoTo(c, pc) == Set(c, [req[c] EXCEPT !.pc = pc])
End(c, outcome) == Set(c, [req[c] EXCEPT !.pc = "done", !.outcome = outcome,
                                         !.seen = None, !.doomed = {}])
Storage == <<row, snapshots, stamp, cooling, failures, hist>>

(* A request carries an expectedRevision the caller was given earlier,     *)
(* which may since have been overtaken.                                    *)
Start(c, pc, kind, e, target, doc) ==
    /\ At(c, "idle")
    /\ Len(hist) < MaxRevision /\ stamp < MaxSnapshots
    /\ Set(c, [Idle EXCEPT !.pc = pc, !.kind = kind, !.expected = e,
                           !.target = target, !.doc = doc])
    /\ UNCHANGED Storage

save(c) ==
    \E d \in Inputs, e \in 1..Len(hist), kind \in {"save", "patch"} :
        Start(c, "read", kind, e, None, d)

(* renameProject also fills in a blank system name; documents here have one. *)
rename(c) ==
    \E n \in Names : Start(c, "load", "rename", 0, n, None)

createNamedVersion(c) ==
    \E e \in 1..Len(hist) : Start(c, "load", "version", e, None, None)

createAutomaticSnapshot(c) ==
    \E kind \in {"snapshot", "throttled"} : Start(c, "load", kind, 0, None, None)

restoreSnapshot(c) ==
    \E e \in 1..Len(hist), s \in snapshots :
        Start(c, "load", "restore", e, s.id, None)

ExpectationFails(r, current) == r.expected # current.rev

(* What each caller of loadRow does with the project it returns.           *)
Loaded(r) ==
    LET found == [r EXCEPT !.seen = row] IN
    CASE r.kind = "version" -> [found EXCEPT !.pc = "insert"]
      [] r.kind = "restore" -> [found EXCEPT !.pc = "fetch"]
      [] r.kind = "rename"  ->
           [found EXCEPT !.pc = "read", !.expected = row.rev,
                         !.doc = [row.doc EXCEPT !.name = r.target]]
      [] OTHER              -> [found EXCEPT !.pc = "rows"]

(* A save that is over is answered ok even if its snapshot finds no project. *)
loadRow(c) ==
    LET r == req[c] IN
    /\ At(c, "load")
    /\ IF row = NoRow
       THEN End(c, IF r.kind \in {"save", "patch"} THEN "ok" ELSE "not-found")
       ELSE IF r.kind \in {"version", "restore"} /\ ExpectationFails(r, row)
       THEN End(c, "conflict")
       ELSE Set(c, Loaded(r))
    /\ UNCHANGED Storage

(* restoreSnapshot reads the snapshot, which may have been pruned by now.  *)
getSnapshot(c) ==
    /\ At(c, "fetch")
    /\ \/ \E s \in snapshots :
            /\ s.id = req[c].target
            /\ Set(c, [req[c] EXCEPT !.pc = "insert", !.doc = s.doc])
       \/ /\ \A s \in snapshots : s.id # req[c].target
          /\ End(c, "not-found")
    /\ UNCHANGED Storage

(* createAutomaticSnapshotInternal after its load: decide on the automatic *)
(* rows as they are now.                                                   *)
decideAutomatic(c) ==
    /\ At(c, "rows")
    /\ IF shouldCreateAutomaticSnapshot(req[c].seen.doc, req[c].kind = "throttled")
       THEN GoTo(c, "insert")
       ELSE End(c, "ok")
    /\ UNCHANGED Storage

(* SnapshotsAreFaithful: the document loaded, the revision of the row now.  *)
FaultySnapshotOf(r) ==
    [id |-> stamp + 1, type |-> SnapshotType(r.kind),
     rev |-> row.rev, doc |-> r.seen.doc]

SnapshotOf(r) ==
    [id |-> stamp + 1, type |-> SnapshotType(r.kind),
     rev |-> r.seen.rev, doc |-> r.seen.doc]

(* insertSnapshot's INSERT; the foreign key refuses it once the project is *)
(* gone, and the action throws.                                            *)
insertSnapshot(c) ==
    LET r == req[c] IN
    /\ At(c, "insert")
    /\ IF row = NoRow
       THEN /\ End(c, "error")
            /\ UNCHANGED <<snapshots, stamp, cooling>>
       ELSE /\ snapshots' = snapshots \cup {SnapshotOf(r)}
            /\ stamp' = stamp + 1
            /\ cooling' = (cooling \/ SnapshotType(r.kind) = "automatic")
            /\ GoTo(c, "prune")
    /\ UNCHANGED <<row, failures, hist>>

(* After the snapshot is in, a restore goes on to saveProject with the     *)
(* revision it loaded; the other requests are finished.                    *)
AfterPrune(c) ==
    IF req[c].kind = "restore"
    THEN Set(c, [req[c] EXCEPT !.pc = "read", !.seen = None, !.doomed = {}])
    ELSE End(c, "ok")

pruneSnapshots(c) ==
    LET ids == snapshotIdsToPrune(snapshots) IN
    /\ At(c, "prune")
    /\ IF ids = {} THEN AfterPrune(c)
                   ELSE Set(c, [req[c] EXCEPT !.pc = "delete", !.doomed = ids])
    /\ UNCHANGED Storage

(* pruneSnapshots deletes its list one statement at a time.                *)
deletePruned(c) ==
    /\ At(c, "delete")
    /\ \E id \in req[c].doomed :
          /\ snapshots' = {s \in snapshots : s.id # id}
          /\ IF req[c].doomed = {id}
             THEN AfterPrune(c)
             ELSE Set(c, [req[c] EXCEPT !.doomed = @ \ {id}])
    /\ UNCHANGED <<row, stamp, cooling, failures, hist>>

(* saveProject's early returns, in the order of the code.                  *)
saveRefusal(r) ==
    IF row = NoRow THEN "not-found"
    ELSE IF r.doc \in Unwritable THEN "validation"
    ELSE IF ExpectationFails(r, row) THEN "conflict"
    ELSE None

(* PartialWritesKeepTheRest: parameter records left out are not kept.       *)
FaultyDocumentToWrite(r) == r.doc

(* Parameter records the caller left out are those of the row just read.   *)
DocumentToWrite(r) ==
    IF r.kind = "patch" THEN [r.doc EXCEPT !.params = row.doc.params] ELSE r.doc

(* saveProject's SELECT and the checks on what it read.                    *)
readRow(c) ==
    LET r == req[c] IN
    /\ At(c, "read")
    /\ IF saveRefusal(r) = None
       THEN Set(c, [r EXCEPT !.pc = "cas", !.seen = row, !.doc = DocumentToWrite(r)])
       ELSE End(c, saveRefusal(r))
    /\ UNCHANGED Storage

(* AnswersAreTrue, RevisionCountsCommits, RestoreLeavesRecoveryPoint and   *)
(* ImplementsRevisionLog: the WHERE clause without the revision.           *)
FaultyUpdateById(r) == row # NoRow

(* The WHERE clause of the UPDATE: this project, at the expected revision. *)
UpdateMatches(r) == row # NoRow /\ row.rev = r.expected

(* UPDATE ... RETURNING.  No row returned is a conflict.                   *)
conditionalUpdate(c) ==
    LET r == req[c] IN
    /\ At(c, "cas")
    /\ IF UpdateMatches(r)
       THEN /\ row' = [rev |-> r.seen.rev + 1, doc |-> r.doc]
            /\ hist' = Append(hist, [doc |-> r.doc, by |-> c, kind |-> r.kind])
            /\ GoTo(c, "after")
       ELSE /\ End(c, "conflict")
            /\ UNCHANGED <<row, hist>>
    /\ UNCHANGED <<snapshots, stamp, cooling, failures>>

(* TypeOK: the row read back is taken to exist.                            *)
FaultyReadBack(c) ==
    /\ At(c, "after")
    /\ Set(c, [req[c] EXCEPT !.pc = IF req[c].kind \in {"save", "patch"}
                                    THEN "load" ELSE "done",
                             !.answer = row, !.outcome = "ok", !.seen = None])
    /\ UNCHANGED Storage

(* The row is read once more and that is what the caller is given.  The    *)
(* server action then takes an automatic snapshot after a save.            *)
readBack(c) ==
    LET r == [req[c] EXCEPT !.answer = row, !.outcome = "ok"] IN
    /\ At(c, "after")
    /\ CASE row = NoRow -> End(c, "not-found")
         [] row # NoRow /\ r.kind \in {"save", "patch"} ->
              Set(c, [r EXCEPT !.pc = "load", !.seen = None])
         [] OTHER -> Set(c, [r EXCEPT !.pc = "done", !.seen = None])
    /\ UNCHANGED Storage

(* The caller receives the outcome.                                        *)
respond(c) == At(c, "done") /\ Set(c, Idle) /\ UNCHANGED Storage

(* A statement throws or the process dies: nothing is rolled back.         *)
fail(c) ==
    /\ ~ At(c, "idle") /\ ~ At(c, "done")
    /\ failures < MaxFailures
    /\ failures' = failures + 1
    /\ End(c, "error")
    /\ UNCHANGED <<row, snapshots, stamp, cooling, hist>>

(* deleteProject: the snapshots go with the row (ON DELETE CASCADE).       *)
deleteProject ==
    /\ row # NoRow
    /\ row' = NoRow
    /\ snapshots' = {}
    /\ UNCHANGED <<stamp, cooling, req, failures, hist>>

intervalPasses ==
    /\ cooling
    /\ cooling' = FALSE
    /\ UNCHANGED <<row, snapshots, stamp, req, failures, hist>>

Next ==
    \/ \E c \in Clients :
          \/ save(c) \/ rename(c) \/ createNamedVersion(c)
          \/ createAutomaticSnapshot(c) \/ restoreSnapshot(c)
          \/ loadRow(c) \/ getSnapshot(c) \/ decideAutomatic(c)
          \/ insertSnapshot(c) \/ pruneSnapshots(c) \/ deletePruned(c)
          \/ readRow(c) \/ conditionalUpdate(c) \/ readBack(c)
          \/ respond(c) \/ fail(c)
    \/ deleteProject
    \/ intervalPasses

Spec == Init /\ [][Next]_vars
----
(* Properties.                                                             *)

(* A write that was answered ok is in the history, as the revision right   *)
(* after the one it expected, with its own document; the project sent back *)
(* is a revision the store really held from then on.  A write answered     *)
(* "conflict" had been overtaken, or its project deleted: saveProject      *)
(* cannot tell an UPDATE of no rows apart.                                 *)
AnswersAreTrue ==
    \A c \in Clients : LET r == req[c] IN
        /\ r.answer # None =>
             /\ r.expected + 1 <= r.answer.rev /\ r.answer.rev <= Len(hist)
             /\ r.answer.doc = hist[r.answer.rev].doc
             /\ hist[r.expected + 1] = [doc |-> r.doc, by |-> c, kind |-> r.kind]
        /\ r.outcome = "conflict" => r.expected < Len(hist) \/ row = NoRow

(* Whatever a write leaves alone is exactly what the revision it replaced  *)
(* held: a rename keeps text and parameters, a save without                *)
(* parameterRecords keeps the parameters, though both copy them from a row *)
(* read in an earlier step.                                                *)
PartialWritesKeepTheRest ==
    \A i \in 2..Len(hist) :
        /\ hist[i].kind = "rename" => hist[i].doc.text = hist[i-1].doc.text
        /\ hist[i].kind \in {"rename", "patch"} =>
             hist[i].doc.params = hist[i-1].doc.params

(* A snapshot holds the document its revision number names, whatever was   *)
(* committed between the load and the INSERT.                              *)
SnapshotsAreFaithful ==
    \A s \in snapshots : s.rev <= Len(hist) /\ s.doc = hist[s.rev].doc

(* "A restore is never a one-way door": when a restore overwrites the      *)
(* document, a pre-restore snapshot of that very document is in the table. *)
(* It can be pruned by PreKeep others, so PreKeep must exceed the restores *)
(* that can insert meanwhile.                                              *)
RestoreLeavesRecoveryPoint ==
    [][\A c \in Clients :
         (req[c].kind = "restore" /\ row' # row /\ hist' # hist /\ req'[c] # req[c]) =>
             \E s \in snapshots' : /\ s.type = "pre-restore"
                                   /\ s.rev = row.rev /\ s.doc = row.doc]_vars

(* While the project exists a named version is never removed, and a pruned *)
(* snapshot is always one with a full retention's worth of newer ones left *)
(* behind, even when the list of ids to delete is stale.                   *)
PruningSparesNamedAndNewest ==
    [][row' # NoRow =>
         \A s \in snapshots \ snapshots' :
             /\ s.type # "named"
             /\ Cardinality(Newer(snapshots', s)) >= Retention(s.type)]_vars

(* Each type stays within its retention, but for the snapshots whose       *)
(* pruning is still under way or died.                                     *)
RetentionHolds ==
    \A type \in {"automatic", "pre-restore"} :
        Cardinality({s \in snapshots : s.type = type})
          <= Retention(type) + failures
               + Cardinality({c \in Clients : req[c].pc \in {"prune", "delete"}})

(* The revision is the number of documents committed, and the row holds    *)
(* the last of them.                                                       *)
RevisionCountsCommits ==
    row # NoRow => row = [rev |-> Len(hist), doc |-> hist[Len(hist)].doc]

----
(* Refinement.                                                             *)

Begun(r) == r.kind \in Writers /\ r.doc # None

AbstractDoc(r) ==
    IF r.kind = "patch" THEN [r.doc EXCEPT !.params = hist[r.expected].doc.params]
                        ELSE r.doc

AbstractCall(r) ==
    IF ~ Begun(r) THEN [at |-> "idle"]
    ELSE IF r.pc = "done"
      THEN [at |-> "done", outcome |-> r.outcome,
            rev |-> IF r.outcome = "ok" THEN r.answer.rev ELSE 0]
    ELSE [at |-> IF r.pc = "after" \/ r.answer # None THEN "committed" ELSE "pending",
          base |-> r.expected, doc |-> AbstractDoc(r)]

Abstract ==
    INSTANCE RevisionLog
      WITH log  <- [i \in 1..Len(hist) |-> hist[i].doc],
           live <- row # NoRow,
           call <- [c \in Clients |-> AbstractCall(req[c])]

(* The repository's statements implement the log: every step is a step of  *)
(* RevisionLog or changes nothing that RevisionLog can see.                *)
ImplementsRevisionLog == Abstract!LogSpec
====
