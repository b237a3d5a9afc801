---- MODULE Cutover ----
(***************************************************************************)
(* The one-shot copy of the legacy SQLite store into PostgreSQL, next to   *)
(* the application that may be running on either.  The tool reads the four *)
(* source tables one after the other, inserts what is missing in one       *)
(* transaction of the target, and verifies the result in reads of its own. *)
(* It locks nothing in the source and does not know who else is writing.   *)
(*                                                                         *)
(* Abstractions.  What a write stores is known by the time of the write,   *)
(* which is also the id of a snapshot or an activity.  A project has one   *)
(* control; the id of its record says which database made it, since ids    *)
(* are random.  Only named snapshots are taken, which are never pruned.    *)
(* An application's request is the statement, or the transaction, that     *)
(* writes.  Chunks of ids are one statement.                               *)
(* Operators named Faulty... are not the code: see ProjectStore.           *)
(***************************************************************************)
EXTENDS Naturals, FiniteSets, FiniteSetsExt

CONSTANTS Projects,     \* ids that projects may get
          None,
          SampleSize,   \* REVISION_SAMPLE_SIZE
          MaxWrites, MaxRuns, MaxCrashes    \* bounds of the model

ASSUME CutoverAssumption ==
    /\ IsFiniteSet(Projects)
    /\ SampleSize \in Nat \ {0}
    /\ MaxWrites \in Nat /\ MaxRuns \in Nat /\ MaxCrashes \in Nat

Sites == {"sqlite", "postgres"}

VARIABLES db,           \* per site, its four tables
          running,      \* the site that the application uses, or None
          run,          \* the tool
          clock,        \* writes so far
          used,         \* ids that projects have got
          torn,         \* ghost: the application has written since the run began
          tainted,      \* ghost: a run was committed that was torn or had a warning
          runs, crashes

vars == <<db, running, run, clock, used, torn, tainted, runs, crashes>>
Bounds == <<runs, crashes>>

Times == 1..MaxWrites
ProjectRows == [id : Projects, revision : Times, at : Times]
SnapshotRows == [id : Times, project : Projects]
RecordIds == Projects \X Sites
RecordRows == [id : RecordIds, project : Projects, at : Times]
ActivityRows == [id : Times, project : Projects, record : RecordIds]
Databases == [projects : SUBSET ProjectRows, snapshots : SUBSET SnapshotRows,
              records : SUBSET RecordRows, activities : SUBSET ActivityRows]

Empty == [projects |-> {}, snapshots |-> {}, records |-> {}, activities |-> {}]

Runs == [pc : {"idle", "readProjects", "readSnapshots", "readRecords", "readActivities",
               "projects", "snapshots", "records", "activities", "commit",
               "listIds", "orphans", "revisions", "done"},
         dryRun : BOOLEAN, strict : BOOLEAN,
         source : Databases,            \* the rows read
         staged : Databases,            \* the rows inserted, not yet committed
         warned : BOOLEAN,              \* a conflict was found and skipped
         ids : [projects : SUBSET Projects, records : SUBSET RecordIds],
         orphans : BOOLEAN, mismatch : BOOLEAN]

NoRun == [pc |-> "idle", dryRun |-> FALSE, strict |-> FALSE, source |-> Empty,
          staged |-> Empty, warned |-> FALSE, ids |-> [projects |-> {}, records |-> {}],
          orphans |-> FALSE, mismatch |-> FALSE]

IdsOf(rows) == {row.id : row \in rows}

(* Primary, unique and foreign keys of schema.ts hold in both databases.   *)
KeysHold(d) ==
    /\ \A x, y \in d.projects : x.id = y.id => x = y
    /\ \A x, y \in d.records : x.project = y.project => x = y
    /\ \A x \in d.snapshots : x.project \in IdsOf(d.projects)
    /\ \A x \in d.records : x.project \in IdsOf(d.projects)
    /\ \A x \in d.activities : x.record \in IdsOf(d.records)

TypeOK ==
    /\ db \in [Sites -> Databases] /\ \A s \in Sites : KeysHold(db[s])
    /\ running \in Sites \cup {None}
    /\ run \in Runs
    /\ clock \in 0..MaxWrites /\ used \subseteq Projects
    /\ torn \in BOOLEAN /\ tainted \in BOOLEAN
    /\ runs \in 0..MaxRuns /\ crashes \in 0..MaxCrashes

Init ==
    /\ db = [s \in Sites |-> Empty]
    /\ running = "sqlite"
    /\ run = NoRun
    /\ clock = 0 /\ used = {} /\ torn = FALSE /\ tainted = FALSE
    /\ runs = 0 /\ crashes = 0
----
Now == clock + 1
Of(p, rows) == {row \in rows : row.project = p}

(* A write of the application to the database it runs on.                  *)
Write(s, d) ==
    /\ running = s /\ clock < MaxWrites
    /\ clock' = Now
    /\ db' = [db EXCEPT ![s] = d]
    /\ torn' = (run.pc # "idle")
    /\ UNCHANGED <<running, run, tainted, Bounds>>

create(s, p) ==
    /\ p \notin used
    /\ used' = used \cup {p}
    /\ Write(s, [db[s] EXCEPT !.projects = @ \cup {[id |-> p, revision |-> 1, at |-> Now]}])

saveProject(s, row) ==
    UNCHANGED used /\ Write(s, [db[s] EXCEPT !.projects =
                        (@ \ {row}) \cup {[row EXCEPT !.revision = @ + 1, !.at = Now]}])

createNamedVersion(s, row) ==
    UNCHANGED used /\ Write(s, [db[s] EXCEPT !.snapshots = @ \cup {[id |-> Now, project |-> row.id]}])

(* One transaction: the record is inserted or updated, with its activity.  *)
(* An insert waits for a row of the same key that the tool has not         *)
(* committed.                                                              *)
upsertWithActivity(s, row) ==
    LET found == Of(row.id, db[s].records)
        id == IF found = {} THEN <<row.id, s>> ELSE (CHOOSE r \in found : TRUE).id
        record == [id |-> id, project |-> row.id, at |-> Now]
        activity == [id |-> Now, project |-> row.id, record |-> id]
    IN  /\ s = "postgres" => Of(row.id, run.staged.records) = {}
        /\ UNCHANGED used
        /\ Write(s, [db[s] EXCEPT !.records = (@ \ found) \cup {record},
                                  !.activities = @ \cup {activity}])

(* The rows that refer to the project go with it; rows that the tool has   *)
(* inserted under it and not committed keep it locked.                     *)
delete(s, row) ==
    LET p == row.id
        d == db[s]
    IN  /\ s = "postgres" => /\ Of(p, run.staged.snapshots) = {}
                             /\ Of(p, run.staged.records) = {}
                             /\ Of(p, run.staged.activities) = {}
        /\ UNCHANGED used
        /\ Write(s, [projects |-> d.projects \ {row},
                     snapshots |-> d.snapshots \ Of(p, d.snapshots),
                     records |-> d.records \ Of(p, d.records),
                     activities |-> d.activities \ Of(p, d.activities)])

Application(s) ==
    \/ \E p \in Projects : create(s, p)
    \/ \E row \in db[s].projects :
          saveProject(s, row) \/ createNamedVersion(s, row)
            \/ upsertWithActivity(s, row) \/ delete(s, row)

(* The operator stops the application, or starts it on one of the stores.  *)
Operate ==
    /\ running' \in (Sites \cup {None}) \ {running}
    /\ running = None \/ running' = None
    /\ UNCHANGED <<db, run, clock, used, torn, tainted, Bounds>>
----
At(pc) == run.pc = pc
Step(r) ==
    /\ run' = r
    /\ UNCHANGED <<db, running, clock, used, torn, tainted, Bounds>>

(* The tool ends with an error; its transaction is rolled back.            *)
Throw == Step(NoRun)

migrateSqliteToPostgres ==
    /\ At("idle") \/ At("done")
    /\ runs < MaxRuns
    /\ runs' = runs + 1
    /\ \E dry, strict \in BOOLEAN :
          run' = [NoRun EXCEPT !.pc = "readProjects", !.dryRun = dry, !.strict = strict]
    /\ torn' = FALSE
    /\ UNCHANGED <<db, running, clock, used, tainted, crashes>>

readSource ==
    \/ At("readProjects")
       /\ Step([run EXCEPT !.pc = "readSnapshots", !.source.projects = db["sqlite"].projects])
    \/ At("readSnapshots")
       /\ Step([run EXCEPT !.pc = "readRecords", !.source.snapshots = db["sqlite"].snapshots])
    \/ At("readRecords")
       /\ Step([run EXCEPT !.pc = "readActivities", !.source.records = db["sqlite"].records])
    \/ At("readActivities")
       /\ Step([run EXCEPT !.pc = "projects", !.source.activities = db["sqlite"].activities])

(* A table of the target as the transaction sees it.                       *)
Target(table) == db["postgres"][table] \cup run.staged[table]

(* RunsOnlyAdd: rows that differ are taken for missing ones.               *)
FaultyMissing(rows, existing) == rows \ existing

(* partitionExisting: rows are looked up by id.                            *)
Missing(rows, existing) == {x \in rows : x.id \notin IdsOf(existing)}

(* AcceptedCopyIsFaithful: rows are not compared.                          *)
FaultyConflicts(rows, existing) == {}

(* Rows of the source whose row of the same id differs in the target.      *)
Conflicts(rows, existing) ==
    {x \in rows : \E y \in existing : y.id = x.id /\ y # x}

(* Insert the missing rows, unless a strict run has found a conflict or a  *)
(* key is broken.                                                          *)
Migrate(table, next, conflicts, missing, keys) ==
    /\ At(table)
    /\ \/ /\ (run.strict /\ conflicts # {}) \/ (~run.dryRun /\ ~keys)
          /\ Throw
       \/ /\ ~(run.strict /\ conflicts # {}) /\ (run.dryRun \/ keys)
          /\ Step([run EXCEPT !.pc = next, !.warned = @ \/ conflicts # {},
                              !.staged[table] = IF run.dryRun THEN {} ELSE missing])

migrateProjectsTable ==
    LET rows == run.source.projects
        existing == Target("projects")
    IN  Migrate("projects", "snapshots", Conflicts(rows, existing),
                Missing(rows, existing), TRUE)

(* A snapshot never changes, so that one of the same id is equal.          *)
migrateProjectSnapshotsTable ==
    LET missing == Missing(run.source.snapshots, Target("snapshots"))
    IN  Migrate("snapshots", "records", {}, missing,
                \A x \in missing : x.project \in IdsOf(Target("projects")))

(* The control's record in the target may have another id.                 *)
migrateControlRecordsTable ==
    LET rows == run.source.records
        existing == Target("records")
        missing == Missing(rows, existing)
    IN  Migrate("records", "activities", Conflicts(rows, existing), missing,
                \A x \in missing : /\ x.project \in IdsOf(Target("projects"))
                                   /\ Of(x.project, existing) = {})

migrateControlActivitiesTable ==
    LET missing == Missing(run.source.activities, Target("activities"))
    IN  Migrate("activities", IF run.dryRun THEN "listIds" ELSE "commit", {}, missing,
                \A x \in missing : x.record \in IdsOf(Target("records")))

Committed(d, staged) ==
    [projects |-> d.projects \cup staged.projects,
     snapshots |-> d.snapshots \cup staged.snapshots,
     records |-> d.records \cup staged.records,
     activities |-> d.activities \cup staged.activities]

commit ==
    /\ At("commit")
    /\ db' = [db EXCEPT !["postgres"] = Committed(@, run.staged)]
    /\ run' = [run EXCEPT !.pc = "listIds", !.staged = Empty]
    /\ tainted' = (tainted \/ torn \/ run.warned)
    /\ UNCHANGED <<running, clock, used, torn, Bounds>>

(* The ids are listed first, the rows that refer to them afterwards.       *)
listIds ==
    /\ At("listIds")
    /\ Step([run EXCEPT !.pc = "orphans",
               !.ids = [projects |-> IdsOf(db["postgres"].projects),
                        records |-> IdsOf(db["postgres"].records)]])

computeOrphanChecks ==
    /\ At("orphans")
    /\ LET d == db["postgres"]
       IN  Step([run EXCEPT !.pc = "revisions", !.orphans =
                   \/ \E x \in d.snapshots : x.project \notin run.ids.projects
                   \/ \E x \in d.records : x.project \notin run.ids.projects
                   \/ \E x \in d.activities : x.record \notin run.ids.records])

Samples(rows) ==
    IF Cardinality(rows) <= SampleSize THEN {rows} ELSE kSubset(SampleSize, rows)

(* Of the first projects of the source, only the revisions are compared.   *)
computeSampleProjectRevisionChecks ==
    /\ At("revisions")
    /\ \E sample \in Samples(run.source.projects) :
          Step([run EXCEPT !.pc = "done", !.mismatch =
                  \E x \in sample : ~\E y \in db["postgres"].projects :
                                        y.id = x.id /\ y.revision = x.revision])

crash ==
    /\ ~At("idle") /\ ~At("done") /\ crashes < MaxCrashes
    /\ crashes' = crashes + 1
    /\ run' = NoRun
    /\ UNCHANGED <<db, running, clock, used, torn, tainted, runs>>

Tool ==
    \/ migrateSqliteToPostgres \/ readSource
    \/ migrateProjectsTable \/ migrateProjectSnapshotsTable
    \/ migrateControlRecordsTable \/ migrateControlActivitiesTable
    \/ commit \/ listIds \/ computeOrphanChecks \/ computeSampleProjectRevisionChecks
    \/ crash

Next == Tool \/ Operate \/ \E s \in Sites : Application(s)

Spec == Init /\ [][Next]_vars
----
(* Rows keep their content, and no second one gets the id of one of them.  *)
Kept(rows, newRows) == \A x \in rows : {y \in newRows : y.id = x.id} = {x}
AllKept(old, new) ==
    /\ Kept(old.projects, new.projects)
    /\ Kept(old.snapshots, new.snapshots)
    /\ Kept(old.records, new.records)
    /\ Kept(old.activities, new.activities)

(* Whatever a run does, and however it ends, the rows that the target has  *)
(* are kept: what was written in PostgreSQL after a switch survives        *)
(* another run (sqlite-to-postgres.ts:133, 216).                           *)
RunsOnlyAdd == [][clock' = clock => AllKept(db["postgres"], db'["postgres"])]_vars

(* A run that ends with no error and no warning, while no application      *)
(* wrote, has left every row of the source in the target, whatever the     *)
(* target held before and whatever crashed before; and its verification    *)
(* finds nothing to complain about (sqlite-to-postgres.ts:207, 381, 684).  *)
AcceptedCopyIsFaithful ==
    At("done") /\ ~run.dryRun /\ ~run.warned /\ ~torn =>
        /\ db["sqlite"].projects \subseteq db["postgres"].projects
        /\ db["sqlite"].snapshots \subseteq db["postgres"].snapshots
        /\ db["sqlite"].records \subseteq db["postgres"].records
        /\ db["sqlite"].activities \subseteq db["postgres"].activities
        /\ ~run.orphans /\ ~run.mismatch

(* A control record is the one that its newest activity left, in either    *)
(* database, unless a run was committed that had warned or had read while  *)
(* the application wrote (sqlite-to-postgres.ts:381, 642).                 *)
TimelinesAgree ==
    ~tainted =>
        \A s \in Sites : \A r \in db[s].records :
            r.at = Max({x.id : x \in {y \in db[s].activities : y.record = r.id}})

====
