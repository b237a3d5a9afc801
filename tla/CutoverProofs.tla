---- MODULE CutoverProofs ----
(***************************************************************************)
(* Proofs about Cutover, for any set of projects and any bounds.           *)
(*                                                                         *)
(* The invariant speaks of three databases: the source, the target, and    *)
(* what the target will be when the run commits.  A write of the           *)
(* application to the target is the same write to the third, because what  *)
(* the tool has inserted is locked or of projects that the target has not; *)
(* a step of the tool adds to the third rows that its keys let in; and the *)
(* commit makes the target the third.  So one lemma per operation serves   *)
(* all of them, and a commit has nothing left to be proved but that the    *)
(* newest activity of a record came with it.                               *)
(***************************************************************************)
EXTENDS Cutover, FiniteSetTheorems, TLAPS

(* A database as its keys, its clock and its ids leave it: n writes were   *)
(* made, and projects have got the ids of U.  Each part is about the rows  *)
(* of one table, so that it holds of tables that were read at times of     *)
(* their own.                                                              *)
Rowwise(d, n, U) ==
    /\ d \in Databases
    /\ \A x, y \in d.projects : x.id = y.id => x = y
    /\ \A x, y \in d.snapshots : x.id = y.id => x = y
    /\ \A x, y \in d.records : x.project = y.project => x = y
    /\ \A x, y \in d.activities : x.id = y.id => x = y
    /\ \A x \in d.projects : x.id \in U /\ x.revision <= n
    /\ \A x \in d.snapshots : x.id <= n
    /\ \A x \in d.records : x.id[1] = x.project /\ x.at <= n
    /\ \A x \in d.activities : x.id <= n /\ x.record[1] = x.project

(* Its foreign keys.                                                       *)
Linked(d) ==
    /\ \A x \in d.snapshots : x.project \in IdsOf(d.projects)
    /\ \A x \in d.records : x.project \in IdsOf(d.projects)
    /\ \A x \in d.activities : x.record \in IdsOf(d.records)

Proper(d, n, U) == Rowwise(d, n, U) /\ Linked(d)

(* What never changes is the same wherever it was copied.                  *)
Same(d, e) ==
    /\ \A x \in d.snapshots, y \in e.snapshots : x.id = y.id => x = y
    /\ \A x \in d.activities, y \in e.activities : x.id = y.id => x = y

(* Every record is the one that the newest of its activities left.         *)
Agree(d) ==
    \A r \in d.records :
        /\ \E x \in d.activities : x.record = r.id /\ x.id = r.at
        /\ \A x \in d.activities : x.record = r.id => x.id <= r.at

(* The target with the rows that the tool has inserted.                    *)
Copied == Committed(db["postgres"], run.staged)

Tables == {"projects", "snapshots", "records", "activities"}

Verifying == {"listIds", "orphans", "revisions", "done"}

(* The places of a run at which it has read, and has inserted, a table.    *)
HasRead(t) ==
    run.pc \in CASE t = "projects" -> {"readSnapshots", "readRecords", "readActivities",
                    "projects", "snapshots", "records", "activities", "commit"} \cup Verifying
                 [] t = "snapshots" -> {"readRecords", "readActivities",
                    "projects", "snapshots", "records", "activities", "commit"} \cup Verifying
                 [] t = "records" -> {"readActivities",
                    "projects", "snapshots", "records", "activities", "commit"} \cup Verifying
                 [] t = "activities" ->
                    {"projects", "snapshots", "records", "activities", "commit"} \cup Verifying

HasStaged(t) ==
    run.pc \in CASE t = "projects" -> {"snapshots", "records", "activities", "commit"} \cup Verifying
                 [] t = "snapshots" -> {"records", "activities", "commit"} \cup Verifying
                 [] t = "records" -> {"activities", "commit"} \cup Verifying
                 [] t = "activities" -> {"commit"} \cup Verifying

(* A run inserts rows that it has read, each table in its turn.            *)
Staging ==
    /\ \A t \in Tables : run.staged[t] \subseteq run.source[t]
    /\ \A t \in Tables : ~HasStaged(t) => run.staged[t] = {}
    /\ run.dryRun \/ run.pc \in Verifying => run.staged = Empty
    /\ run.dryRun => ~At("commit")
    /\ \A x \in db["postgres"].projects, y \in run.staged.projects : x.id # y.id

(* What it has read and inserted so far, if no application has written.    *)
Copying ==
    ~torn => \A t \in Tables :
        /\ HasRead(t) => run.source[t] = db["sqlite"][t]
        /\ HasStaged(t) /\ ~run.warned /\ ~run.dryRun => run.source[t] \subseteq Copied[t]

(* What its verification has found so far.                                 *)
Verified ==
    ~torn =>
        /\ run.pc \in {"orphans", "revisions", "done"} =>
              run.ids = [projects |-> IdsOf(db["postgres"].projects),
                         records |-> IdsOf(db["postgres"].records)]
        /\ run.pc \in {"revisions", "done"} => ~run.orphans
        /\ At("done") /\ ~run.warned /\ ~run.dryRun => ~run.mismatch

Typed ==
    /\ db \in [Sites -> Databases]
    /\ running \in Sites \cup {None}
    /\ run \in Runs
    /\ clock \in 0..MaxWrites /\ used \subseteq Projects
    /\ torn \in BOOLEAN /\ tainted \in BOOLEAN
    /\ runs \in 0..MaxRuns /\ crashes \in 0..MaxCrashes

Stores ==
    /\ \A s \in Sites : Proper(db[s], clock, used)
    /\ Proper(Copied, clock, used)
    /\ Rowwise(run.source, clock, used)
    /\ Same(db["sqlite"], run.source) /\ Same(db["sqlite"], Copied) /\ Same(run.source, Copied)

CutoverInv ==
    /\ Typed /\ Stores
    /\ Staging /\ Copying /\ Verified
    /\ ~tainted => \A s \in Sites : Agree(db[s])

----
(* The writes of an application, as changes from a database d to e.        *)

Creates(d, e, p) ==
    /\ p \in Projects \ used /\ used' = used \cup {p}
    /\ e = [projects |-> d.projects \cup {[id |-> p, revision |-> 1, at |-> Now]},
            snapshots |-> d.snapshots, records |-> d.records, activities |-> d.activities]

Saves(d, e, row) ==
    /\ row \in d.projects /\ used' = used
    /\ e = [projects |-> (d.projects \ {row})
                           \cup {[id |-> row.id, revision |-> row.revision + 1, at |-> Now]},
            snapshots |-> d.snapshots, records |-> d.records, activities |-> d.activities]

Names(d, e, row) ==
    /\ row \in d.projects /\ used' = used
    /\ e = [projects |-> d.projects,
            snapshots |-> d.snapshots \cup {[id |-> Now, project |-> row.id]},
            records |-> d.records, activities |-> d.activities]

Records(d, e, row, id) ==
    /\ row \in d.projects /\ used' = used
    /\ \/ Of(row.id, d.records) = {} /\ id \in {<<row.id, s>> : s \in Sites}
       \/ \E r \in Of(row.id, d.records) : id = r.id
    /\ e = [projects |-> d.projects, snapshots |-> d.snapshots,
            records |-> (d.records \ Of(row.id, d.records))
                          \cup {[id |-> id, project |-> row.id, at |-> Now]},
            activities |-> d.activities
                             \cup {[id |-> Now, project |-> row.id, record |-> id]}]

Deletes(d, e, row) ==
    /\ row \in d.projects /\ used' = used
    /\ e = [projects |-> d.projects \ {row},
            snapshots |-> d.snapshots \ Of(row.id, d.snapshots),
            records |-> d.records \ Of(row.id, d.records),
            activities |-> d.activities \ Of(row.id, d.activities)]

Written(d, e) ==
    \/ \E p \in Projects : Creates(d, e, p)
    \/ \E row \in d.projects : \/ Saves(d, e, row) \/ Names(d, e, row) \/ Deletes(d, e, row)
                               \/ \E id \in RecordIds : Records(d, e, row, id)

(* What a write inserts in the tables that only grow is of its own time.   *)
Fresh(d, e) ==
    /\ \A x \in e.snapshots : x \in d.snapshots \/ x.id = Now
    /\ \A x \in e.activities : x \in d.activities \/ x.id = Now

LEMMA CreatesKeeps ==
    ASSUME MaxWrites \in Nat, clock \in Nat, clock < MaxWrites, used \subseteq Projects,
           NEW d, NEW e, NEW p, Creates(d, e, p), Proper(d, clock, used)
    PROVE  Proper(e, Now, used') /\ Fresh(d, e) /\ (Agree(d) => Agree(e))
  <1> DEFINE new == [id |-> p, revision |-> 1, at |-> Now]
  <1>0. Now \in Times /\ clock \in Nat /\ Now = clock + 1
    BY DEF Now, Times
  <1>1. /\ e.projects = d.projects \cup {new} /\ e.snapshots = d.snapshots
        /\ e.records = d.records /\ e.activities = d.activities
        /\ e = [projects |-> e.projects, snapshots |-> e.snapshots,
                records |-> e.records, activities |-> e.activities]
    BY DEF Creates
  <1>2. new \in ProjectRows /\ new.id = p /\ p \notin used /\ new.revision = 1
    BY <1>0 DEF Creates, ProjectRows, Times
  <1> HIDE DEF new, Now
  <1>3. Rowwise(d, clock, used) /\ Linked(d)
    BY DEF Proper
  <1>4. e \in Databases
    BY <1>1, <1>2, <1>3 DEF Rowwise, Databases
  <1>5. \A x, y \in e.projects : x.id = y.id => x = y
    BY <1>1, <1>2, <1>3 DEF Rowwise
  <1>6. \A x \in e.projects : x.id \in used' /\ x.revision <= Now
    BY <1>0, <1>1, <1>2, <1>3 DEF Rowwise, Creates, Databases, ProjectRows, Times
  <1>7. Rowwise(e, Now, used')
    <2>1. \A x \in e.snapshots : x.id <= Now
      BY <1>0, <1>1, <1>3 DEF Rowwise, Databases, SnapshotRows, Times
    <2>2. \A x \in e.records : x.id[1] = x.project /\ x.at <= Now
      BY <1>0, <1>1, <1>3 DEF Rowwise, Databases, RecordRows, Times
    <2>3. \A x \in e.activities : x.id <= Now /\ x.record[1] = x.project
      BY <1>0, <1>1, <1>3 DEF Rowwise, Databases, ActivityRows, Times
    <2>4. QED BY <1>1, <1>3, <1>4, <1>5, <1>6, <2>1, <2>2, <2>3 DEF Rowwise
  <1>8. Linked(e)
    BY <1>1, <1>3 DEF Linked, IdsOf
  <1>9. QED BY <1>1, <1>7, <1>8 DEF Proper, Fresh, Agree

LEMMA SavesKeeps ==
    ASSUME MaxWrites \in Nat, clock \in Nat, clock < MaxWrites,
           NEW d, NEW e, NEW row, Saves(d, e, row), Proper(d, clock, used)
    PROVE  Proper(e, Now, used') /\ Fresh(d, e) /\ (Agree(d) => Agree(e))
  <1> DEFINE new == [id |-> row.id, revision |-> row.revision + 1, at |-> Now]
  <1>0. Now \in Times /\ clock \in Nat /\ Now = clock + 1
    BY DEF Now, Times
  <1>1. /\ e.projects = (d.projects \ {row}) \cup {new} /\ e.snapshots = d.snapshots
        /\ e.records = d.records /\ e.activities = d.activities
        /\ e = [projects |-> e.projects, snapshots |-> e.snapshots,
                records |-> e.records, activities |-> e.activities]
    BY DEF Saves
  <1>a. row \in d.projects /\ row \in ProjectRows /\ row.revision <= clock /\ used' = used
    BY DEF Saves, Proper, Rowwise, Databases
  <1>2. new \in ProjectRows /\ new.id = row.id /\ new.revision <= Now
    <2>1. row.id \in Projects /\ row.revision + 1 \in Times /\ row.revision + 1 <= Now
      BY <1>0, <1>a DEF ProjectRows, Times
    <2> HIDE DEF Now
    <2>2. QED BY <1>0, <2>1 DEF ProjectRows
  <1> HIDE DEF new, Now
  <1>3. Rowwise(d, clock, used) /\ Linked(d)
    BY DEF Proper
  <1>4. e \in Databases
    BY <1>1, <1>2, <1>3 DEF Rowwise, Databases
  <1>5. \A x, y \in e.projects : x.id = y.id => x = y
    BY <1>1, <1>2, <1>3, <1>a DEF Rowwise
  <1>6. \A x \in e.projects : x.id \in used' /\ x.revision <= Now
    BY <1>0, <1>1, <1>2, <1>3, <1>a DEF Rowwise, Databases, ProjectRows, Times
  <1>7. Rowwise(e, Now, used')
    <2>1. \A x \in e.snapshots : x.id <= Now
      BY <1>0, <1>1, <1>3 DEF Rowwise, Databases, SnapshotRows, Times
    <2>2. \A x \in e.records : x.id[1] = x.project /\ x.at <= Now
      BY <1>0, <1>1, <1>3 DEF Rowwise, Databases, RecordRows, Times
    <2>3. \A x \in e.activities : x.id <= Now /\ x.record[1] = x.project
      BY <1>0, <1>1, <1>3 DEF Rowwise, Databases, ActivityRows, Times
    <2>4. QED BY <1>1, <1>3, <1>4, <1>5, <1>6, <2>1, <2>2, <2>3 DEF Rowwise
  <1>b. \A x \in d.projects : \E y \in e.projects : y.id = x.id
    BY <1>1, <1>2, <1>a
  <1>8. Linked(e)
    BY <1>1, <1>3, <1>b DEF Linked, IdsOf
  <1>9. QED BY <1>1, <1>7, <1>8 DEF Proper, Fresh, Agree

LEMMA NamesKeeps ==
    ASSUME MaxWrites \in Nat, clock \in Nat, clock < MaxWrites,
           NEW d, NEW e, NEW row, Names(d, e, row), Proper(d, clock, used)
    PROVE  Proper(e, Now, used') /\ Fresh(d, e) /\ (Agree(d) => Agree(e))
  <1> DEFINE new == [id |-> Now, project |-> row.id]
  <1>0. Now \in Times /\ clock \in Nat /\ Now = clock + 1
    BY DEF Now, Times
  <1>1. /\ e.projects = d.projects /\ e.snapshots = d.snapshots \cup {new}
        /\ e.records = d.records /\ e.activities = d.activities
        /\ e = [projects |-> e.projects, snapshots |-> e.snapshots,
                records |-> e.records, activities |-> e.activities]
    BY DEF Names
  <1>a. row \in d.projects /\ row \in ProjectRows /\ used' = used
    BY DEF Names, Proper, Rowwise, Databases
  <1>2. new \in SnapshotRows /\ new.id = Now /\ new.project = row.id
    BY <1>0, <1>a DEF ProjectRows, SnapshotRows
  <1> HIDE DEF new, Now
  <1>3. Rowwise(d, clock, used) /\ Linked(d)
    BY DEF Proper
  <1>4. e \in Databases
    BY <1>1, <1>2, <1>3 DEF Rowwise, Databases
  <1>c. \A x \in d.snapshots : x.id # Now /\ x.id <= Now
    BY <1>0, <1>3 DEF Rowwise, Databases, SnapshotRows, Times
  <1>5. \A x, y \in e.snapshots : x.id = y.id => x = y
    BY <1>1, <1>2, <1>3, <1>c DEF Rowwise
  <1>6. \A x \in e.projects : x.id \in used' /\ x.revision <= Now
    BY <1>0, <1>1, <1>3, <1>a DEF Rowwise, Databases, ProjectRows, Times
  <1>7. Rowwise(e, Now, used')
    <2>1. \A x \in e.snapshots : x.id <= Now
      BY <1>0, <1>1, <1>2, <1>c DEF Times
    <2>2. \A x \in e.records : x.id[1] = x.project /\ x.at <= Now
      BY <1>0, <1>1, <1>3 DEF Rowwise, Databases, RecordRows, Times
    <2>3. \A x \in e.activities : x.id <= Now /\ x.record[1] = x.project
      BY <1>0, <1>1, <1>3 DEF Rowwise, Databases, ActivityRows, Times
    <2>4. QED BY <1>1, <1>3, <1>4, <1>5, <1>6, <2>1, <2>2, <2>3 DEF Rowwise
  <1>8. Linked(e)
    BY <1>1, <1>2, <1>3, <1>a DEF Linked, IdsOf
  <1>9. QED BY <1>1, <1>2, <1>7, <1>8 DEF Proper, Fresh, Agree

LEMMA RecordsKeeps ==
    ASSUME MaxWrites \in Nat, clock \in Nat, clock < MaxWrites,
           NEW d, NEW e, NEW row, NEW id, Records(d, e, row, id), Proper(d, clock, used)
    PROVE  Proper(e, Now, used') /\ Fresh(d, e) /\ (Agree(d) => Agree(e))
  <1> DEFINE p == row.id
             record == [id |-> id, project |-> p, at |-> Now]
             activity == [id |-> Now, project |-> p, record |-> id]
  <1>0. Now \in Times /\ clock \in Nat /\ Now = clock + 1
    BY DEF Now, Times
  <1>1. /\ e.projects = d.projects /\ e.snapshots = d.snapshots
        /\ e.records = (d.records \ Of(p, d.records)) \cup {record}
        /\ e.activities = d.activities \cup {activity}
        /\ e = [projects |-> e.projects, snapshots |-> e.snapshots,
                records |-> e.records, activities |-> e.activities]
    BY DEF Records
  <1>2. row \in d.projects /\ p \in Projects /\ used' = used
    BY DEF Records, Proper, Rowwise, Databases, ProjectRows
  <1>3. Rowwise(d, clock, used) /\ Linked(d)
    BY DEF Proper
  <1>4. id \in RecordIds /\ id[1] = p
    <2>1. CASE \E r \in Of(p, d.records) : id = r.id
      BY <1>2, <1>3, <2>1 DEF Of, Rowwise, Databases, RecordRows
    <2>2. CASE id \in {<<p, s>> : s \in Sites}
      BY <1>2, <2>2 DEF RecordIds
    <2>3. QED BY <2>1, <2>2 DEF Records
  <1>5. \A r \in d.records : r.id = id => r.project = p
    BY <1>3, <1>4 DEF Rowwise
  <1>6. \A r \in d.records : r.project = p => r.id = id
    BY <1>3 DEF Records, Of, Rowwise
  <1>7. record \in RecordRows /\ activity \in ActivityRows
    BY <1>0, <1>2, <1>4 DEF RecordRows, ActivityRows
  <1>8. /\ record.id = id /\ record.project = p /\ record.at = Now
        /\ activity.id = Now /\ activity.project = p /\ activity.record = id
    OBVIOUS
  <1>9. \A r \in e.records : r = record \/ (r \in d.records /\ r.project # p)
    BY <1>1 DEF Of
  <1>10. \A x \in d.activities : x \in ActivityRows /\ x.id \in Nat /\ x.id <= clock
    BY <1>3 DEF Rowwise, Databases, ActivityRows, Times
  <1> HIDE DEF record, activity, p, Now
  <1>11. e \in Databases
    BY <1>1, <1>3, <1>7, <1>10 DEF Rowwise, Databases
  <1>12. Rowwise(e, Now, used')
    <2>1. \A x, y \in e.records : x.project = y.project => x = y
      BY <1>3, <1>8, <1>9 DEF Rowwise
    <2>2. \A x, y \in e.activities : x.id = y.id => x = y
      BY <1>0, <1>1, <1>3, <1>8, <1>10 DEF Rowwise
    <2>3. \A x \in e.projects : x.id \in used' /\ x.revision <= Now
      BY <1>0, <1>1, <1>2, <1>3 DEF Rowwise, Databases, ProjectRows, Times
    <2>4. \A x \in e.snapshots : x.id <= Now
      BY <1>0, <1>1, <1>3 DEF Rowwise, Databases, SnapshotRows, Times
    <2>5. \A x \in e.records : x.id[1] = x.project /\ x.at <= Now
      BY <1>0, <1>3, <1>4, <1>8, <1>9 DEF Rowwise, Databases, RecordRows, Times
    <2>6. \A x \in e.activities : x.id <= Now /\ x.record[1] = x.project
      BY <1>0, <1>1, <1>3, <1>4, <1>8, <1>10 DEF Rowwise, Times
    <2>7. QED BY <1>1, <1>3, <1>11, <2>1, <2>2, <2>3, <2>4, <2>5, <2>6 DEF Rowwise
  <1>13. Linked(e)
    <2>1. \A x \in e.records : x.project \in IdsOf(e.projects)
      BY <1>1, <1>2, <1>3, <1>8, <1>9 DEF Linked, IdsOf, p
    <2>2. \A r \in d.records : \E s \in e.records : s.id = r.id
      <3> TAKE r \in d.records
      <3>1. CASE r.project = p
        BY <1>1, <1>6, <1>8, <3>1
      <3>2. CASE r.project # p
        BY <1>1, <3>2 DEF Of
      <3>3. QED BY <3>1, <3>2
    <2>3. \A x \in e.activities : x.record \in IdsOf(e.records)
      BY <1>1, <1>3, <1>8, <2>2 DEF Linked, IdsOf
    <2>4. QED BY <1>1, <1>3, <2>1, <2>3 DEF Linked
  <1>14. ASSUME Agree(d) PROVE Agree(e)
    <2> SUFFICES ASSUME NEW r \in e.records
                 PROVE  /\ \E x \in e.activities : x.record = r.id /\ x.id = r.at
                        /\ \A x \in e.activities : x.record = r.id => x.id <= r.at
      BY DEF Agree
    <2>1. CASE r = record
      BY <1>0, <1>1, <1>8, <1>10, <2>1
    <2>2. CASE r \in d.records /\ r.project # p
      <3>1. r.id # id
        BY <1>5, <2>2
      <3>2. QED BY <1>1, <1>8, <1>14, <2>2, <3>1 DEF Agree
    <2>3. QED BY <1>9, <2>1, <2>2
  <1>15. Fresh(d, e)
    BY <1>1, <1>8 DEF Fresh
  <1>16. QED BY <1>12, <1>13, <1>14, <1>15 DEF Proper

LEMMA DeletesKeeps ==
    ASSUME MaxWrites \in Nat, clock \in Nat, clock < MaxWrites,
           NEW d, NEW e, NEW row, Deletes(d, e, row), Proper(d, clock, used)
    PROVE  Proper(e, Now, used') /\ Fresh(d, e) /\ (Agree(d) => Agree(e))
  <1> DEFINE p == row.id
  <1>0. Now \in Times /\ clock \in Nat /\ Now = clock + 1
    BY DEF Now, Times
  <1>1. /\ e.projects = d.projects \ {row} /\ e.snapshots = d.snapshots \ Of(p, d.snapshots)
        /\ e.records = d.records \ Of(p, d.records)
        /\ e.activities = d.activities \ Of(p, d.activities)
        /\ e = [projects |-> e.projects, snapshots |-> e.snapshots,
                records |-> e.records, activities |-> e.activities]
    BY DEF Deletes
  <1>2. row \in d.projects /\ used' = used
    BY DEF Deletes
  <1>3. Rowwise(d, clock, used) /\ Linked(d)
    BY DEF Proper
  <1>4. /\ \A x \in d.projects : x.id # p => x \in e.projects
        /\ \A x \in d.snapshots : x \in e.snapshots <=> x.project # p
        /\ \A x \in d.records : x \in e.records <=> x.project # p
        /\ \A x \in d.activities : x \in e.activities <=> x.project # p
    BY <1>1 DEF Of
  <1>5. /\ e.projects \subseteq d.projects /\ e.snapshots \subseteq d.snapshots
        /\ e.records \subseteq d.records /\ e.activities \subseteq d.activities
    BY <1>1
  <1> HIDE DEF p, Now
  <1>6. e \in Databases
    BY <1>1, <1>3, <1>5 DEF Rowwise, Databases
  <1>7. Rowwise(e, Now, used')
    <2>1. \A x \in e.projects : x.id \in used' /\ x.revision <= Now
      BY <1>0, <1>5, <1>2, <1>3 DEF Rowwise, Databases, ProjectRows, Times
    <2>2. \A x \in e.snapshots : x.id <= Now
      BY <1>0, <1>5, <1>3 DEF Rowwise, Databases, SnapshotRows, Times
    <2>3. \A x \in e.records : x.id[1] = x.project /\ x.at <= Now
      BY <1>0, <1>5, <1>3 DEF Rowwise, Databases, RecordRows, Times
    <2>4. \A x \in e.activities : x.id <= Now /\ x.record[1] = x.project
      BY <1>0, <1>5, <1>3 DEF Rowwise, Databases, ActivityRows, Times
    <2>5. QED BY <1>5, <1>3, <1>6, <2>1, <2>2, <2>3, <2>4 DEF Rowwise
  <1>8. Linked(e)
    <2>1. \A x \in e.snapshots : x.project \in IdsOf(e.projects)
      BY <1>3, <1>4, <1>5 DEF Linked, IdsOf
    <2>2. \A x \in e.records : x.project \in IdsOf(e.projects)
      BY <1>3, <1>4, <1>5 DEF Linked, IdsOf
    <2>3. \A x \in e.activities : x.record \in IdsOf(e.records)
      <3> TAKE x \in e.activities
      <3>1. PICK r \in d.records : r.id = x.record
        BY <1>3, <1>5 DEF Linked, IdsOf
      <3>2. r.project = x.project /\ x.project # p
        BY <1>3, <1>4, <1>5, <3>1 DEF Rowwise
      <3>3. QED BY <1>4, <3>1, <3>2 DEF IdsOf
    <2>4. QED BY <2>1, <2>2, <2>3 DEF Linked
  <1>9. ASSUME Agree(d) PROVE Agree(e)
    <2> SUFFICES ASSUME NEW r \in e.records
                 PROVE  /\ \E x \in e.activities : x.record = r.id /\ x.id = r.at
                        /\ \A x \in e.activities : x.record = r.id => x.id <= r.at
      BY DEF Agree
    <2>1. r \in d.records /\ r.project # p
      BY <1>4, <1>5
    <2>2. PICK x \in d.activities : x.record = r.id /\ x.id = r.at
      BY <1>9, <2>1 DEF Agree
    <2>3. x.project = r.project
      BY <1>3, <2>1, <2>2 DEF Rowwise
    <2>4. x \in e.activities
      BY <1>4, <2>1, <2>2, <2>3
    <2>5. QED BY <1>5, <1>9, <2>1, <2>2, <2>4 DEF Agree
  <1>10. Fresh(d, e)
    BY <1>5 DEF Fresh
  <1>11. QED BY <1>7, <1>8, <1>9, <1>10 DEF Proper

LEMMA WrittenKeeps ==
    ASSUME MaxWrites \in Nat, clock \in Nat, clock < MaxWrites, used \subseteq Projects,
           NEW d, NEW e, Written(d, e), Proper(d, clock, used)
    PROVE  Proper(e, Now, used') /\ Fresh(d, e) /\ (Agree(d) => Agree(e))
  <1>1. CASE \E p \in Projects : Creates(d, e, p)
    BY <1>1, CreatesKeeps
  <1>2. CASE \E row \in d.projects : Saves(d, e, row)
    BY <1>2, SavesKeeps
  <1>3. CASE \E row \in d.projects : Names(d, e, row)
    BY <1>3, NamesKeeps
  <1>4. CASE \E row \in d.projects : Deletes(d, e, row)
    BY <1>4, DeletesKeeps
  <1>5. CASE \E row \in d.projects : \E id \in RecordIds : Records(d, e, row, id)
    BY <1>5, RecordsKeeps
  <1>6. QED BY <1>1, <1>2, <1>3, <1>4, <1>5 DEF Written

(* An unwritten database is as proper as it was, a moment later.           *)
LEMMA LaterRowwise ==
    ASSUME NEW d, NEW n \in Nat, NEW m \in Nat, n <= m, NEW U, NEW W, U \subseteq W,
           MaxWrites \in Nat, Rowwise(d, n, U)
    PROVE  Rowwise(d, m, W)
  <1>1. \A x \in d.projects : x.id \in W /\ x.revision <= m
    BY DEF Rowwise, Databases, ProjectRows, Times
  <1>2. \A x \in d.snapshots : x.id <= m
    BY DEF Rowwise, Databases, SnapshotRows, Times
  <1>3. \A x \in d.records : x.id[1] = x.project /\ x.at <= m
    BY DEF Rowwise, Databases, RecordRows, Times
  <1>4. \A x \in d.activities : x.id <= m /\ x.record[1] = x.project
    BY DEF Rowwise, Databases, ActivityRows, Times
  <1>5. QED BY <1>1, <1>2, <1>3, <1>4 DEF Rowwise

(* What a write adds has an id that no other database has.                 *)
LEMMA WrittenSame ==
    ASSUME MaxWrites \in Nat, clock \in Nat, NEW d, NEW e, NEW f, Fresh(d, e),
           Rowwise(f, clock, used), Same(d, f)
    PROVE  Same(e, f) /\ Same(f, e)
  <1>1. \A x \in f.snapshots \cup f.activities : x.id # Now
    BY DEF Rowwise, Databases, SnapshotRows, ActivityRows, Times, Now
  <1>2. QED BY <1>1 DEF Same, Fresh

(* The projects of a write are those there were and one that is new.       *)
LEMMA WrittenProjects ==
    ASSUME NEW d, NEW e, Written(d, e)
    PROVE  /\ \A x \in e.projects : x.id \in IdsOf(d.projects) \/ x.id \notin used
           /\ used \subseteq Projects => used \subseteq used' /\ used' \subseteq Projects
  BY DEF Written, Creates, Saves, Names, Records, Deletes, IdsOf
----
(* The application.                                                        *)

LEMMA CommittedTables ==
    ASSUME NEW d, NEW s
    PROVE  /\ Committed(d, s).projects = d.projects \cup s.projects
           /\ Committed(d, s).snapshots = d.snapshots \cup s.snapshots
           /\ Committed(d, s).records = d.records \cup s.records
           /\ Committed(d, s).activities = d.activities \cup s.activities
  BY DEF Committed

(* A write of the application to the site s, which gets e for what it has: *)
(* to the target it goes past the rows that the tool has inserted.         *)
Locked(s, rows, row) == s = "postgres" /\ Of(row.id, rows) # {}

Applied(s, e) ==
    \/ \E p \in Projects : Creates(db[s], e, p)
    \/ \E row \in db[s].projects :
          \/ Saves(db[s], e, row)
          \/ Names(db[s], e, row)
          \/ /\ Deletes(db[s], e, row)
             /\ ~Locked(s, run.staged.snapshots, row)
             /\ ~Locked(s, run.staged.records, row)
             /\ ~Locked(s, run.staged.activities, row)
          \/ \E id \in RecordIds : /\ Records(db[s], e, row, id)
                                   /\ ~Locked(s, run.staged.records, row)

(* A write to the target is the same write to what the commit will leave:  *)
(* the rows that the tool has inserted are locked or of other projects.    *)
LEMMA TargetWritten ==
    ASSUME CutoverInv, NEW e, Applied("postgres", e)
    PROVE  Written(Copied, Committed(e, run.staged))
  <1> DEFINE d == db["postgres"]
             s == run.staged
             c == Committed(e, s)
  <1>1. /\ Copied.projects = d.projects \cup s.projects
        /\ Copied.snapshots = d.snapshots \cup s.snapshots
        /\ Copied.records = d.records \cup s.records
        /\ Copied.activities = d.activities \cup s.activities
        /\ c = [projects |-> e.projects \cup s.projects,
                snapshots |-> e.snapshots \cup s.snapshots,
                records |-> e.records \cup s.records,
                activities |-> e.activities \cup s.activities]
    BY CommittedTables DEF Copied, Committed
  <1>a. \A x \in d.projects : x \notin s.projects
    BY DEF CutoverInv, Staging
  <1> HIDE DEF d, s, c
  <1>2. ASSUME NEW p \in Projects, Creates(d, e, p) PROVE Creates(Copied, c, p)
    <2> DEFINE new == [id |-> p, revision |-> 1, at |-> Now]
    <2> HIDE DEF new
    <2>1. /\ e.projects = d.projects \cup {new} /\ e.snapshots = d.snapshots
          /\ e.records = d.records /\ e.activities = d.activities
      BY <1>2 DEF Creates, new
    <2>2. c = [projects |-> Copied.projects \cup {new}, snapshots |-> Copied.snapshots,
               records |-> Copied.records, activities |-> Copied.activities]
      BY <1>1, <2>1
    <2>3. QED BY <1>2, <2>2 DEF Creates, new
  <1>3. ASSUME NEW row \in d.projects, Saves(d, e, row) PROVE Saves(Copied, c, row)
    <2> DEFINE new == [id |-> row.id, revision |-> row.revision + 1, at |-> Now]
    <2> HIDE DEF new
    <2>1. /\ e.projects = (d.projects \ {row}) \cup {new} /\ e.snapshots = d.snapshots
          /\ e.records = d.records /\ e.activities = d.activities
      BY <1>3 DEF Saves, new
    <2>2. c.projects = (Copied.projects \ {row}) \cup {new}
      BY <1>1, <1>a, <2>1
    <2>3. c = [projects |-> (Copied.projects \ {row}) \cup {new},
               snapshots |-> Copied.snapshots,
               records |-> Copied.records, activities |-> Copied.activities]
      BY <1>1, <2>1, <2>2
    <2>4. QED BY <1>1, <1>3, <2>3 DEF Saves, new
  <1>4. ASSUME NEW row \in d.projects, Names(d, e, row) PROVE Names(Copied, c, row)
    <2> DEFINE new == [id |-> Now, project |-> row.id]
    <2> HIDE DEF new
    <2>1. /\ e.projects = d.projects /\ e.snapshots = d.snapshots \cup {new}
          /\ e.records = d.records /\ e.activities = d.activities
      BY <1>4 DEF Names, new
    <2>2. c = [projects |-> Copied.projects, snapshots |-> Copied.snapshots \cup {new},
               records |-> Copied.records, activities |-> Copied.activities]
      BY <1>1, <2>1
    <2>3. QED BY <1>1, <1>4, <2>2 DEF Names, new
  <1>5. ASSUME NEW row \in d.projects, Deletes(d, e, row),
               Of(row.id, s.snapshots) = {}, Of(row.id, s.records) = {},
               Of(row.id, s.activities) = {}
        PROVE  Deletes(Copied, c, row)
    <2> DEFINE p == row.id
    <2>1. /\ e.projects = d.projects \ {row} /\ e.snapshots = d.snapshots \ Of(p, d.snapshots)
          /\ e.records = d.records \ Of(p, d.records)
          /\ e.activities = d.activities \ Of(p, d.activities)
      BY <1>5 DEF Deletes
    <2> HIDE DEF p
    <2>2. /\ c.projects = Copied.projects \ {row}
          /\ c.snapshots = Copied.snapshots \ Of(p, Copied.snapshots)
          /\ c.records = Copied.records \ Of(p, Copied.records)
          /\ c.activities = Copied.activities \ Of(p, Copied.activities)
      BY <1>1, <1>5, <1>a, <2>1 DEF Of, p
    <2>3. QED BY <1>1, <1>5, <2>2 DEF Deletes, p
  <1>6. ASSUME NEW row \in d.projects, NEW id \in RecordIds, Records(d, e, row, id),
               Of(row.id, s.records) = {}
        PROVE  Records(Copied, c, row, id)
    <2> DEFINE p == row.id
               record == [id |-> id, project |-> row.id, at |-> Now]
               activity == [id |-> Now, project |-> row.id, record |-> id]
    <2> HIDE DEF p, record, activity
    <2>1. /\ e.projects = d.projects /\ e.snapshots = d.snapshots
          /\ e.records = (d.records \ Of(p, d.records)) \cup {record}
          /\ e.activities = d.activities \cup {activity}
      BY <1>6 DEF Records, p, record, activity
    <2>2. Of(p, Copied.records) = Of(p, d.records)
      BY <1>1, <1>6 DEF Of, p
    <2>3. c.records = (Copied.records \ Of(p, Copied.records)) \cup {record}
      BY <1>1, <1>6, <2>1, <2>2 DEF Of, p
    <2>4. c = [projects |-> Copied.projects, snapshots |-> Copied.snapshots,
               records |-> (Copied.records \ Of(p, Copied.records)) \cup {record},
               activities |-> Copied.activities \cup {activity}]
      BY <1>1, <2>1, <2>3
    <2>5. row \in Copied.projects /\ used' = used
      BY <1>1, <1>6 DEF Records
    <2>6. \/ Of(row.id, Copied.records) = {} /\ id \in {<<row.id, t>> : t \in Sites}
          \/ \E r \in Of(row.id, Copied.records) : id = r.id
      BY <1>6, <2>2 DEF Records, p
    <2>7. QED BY <2>4, <2>5, <2>6 DEF Records, p, record, activity
  <1>7. CASE \E p \in Projects : Creates(d, e, p)
    BY <1>2, <1>7 DEF Written, c, s
  <1>8. CASE \E row \in d.projects : Saves(d, e, row)
    BY <1>1, <1>3, <1>8 DEF Written, c, s
  <1>9. CASE \E row \in d.projects : Names(d, e, row)
    BY <1>1, <1>4, <1>9 DEF Written, c, s
  <1>10. CASE \E row \in d.projects : /\ Deletes(d, e, row)
                                      /\ Of(row.id, s.snapshots) = {}
                                      /\ Of(row.id, s.records) = {}
                                      /\ Of(row.id, s.activities) = {}
    BY <1>1, <1>5, <1>10 DEF Written, c, s
  <1>11. CASE \E row \in d.projects : \E id \in RecordIds :
                  Records(d, e, row, id) /\ Of(row.id, s.records) = {}
    BY <1>1, <1>6, <1>11 DEF Written, c, s
  <1>12. QED BY <1>7, <1>8, <1>9, <1>10, <1>11 DEF Applied, Locked, d, s

LEMMA AppliedIsWritten ==
    ASSUME NEW s, NEW e, Applied(s, e)
    PROVE  Written(db[s], e)
  BY DEF Applied, Written

LEMMA RowUpdated ==
    ASSUME NEW row \in ProjectRows, NEW x, NEW y,
           NEW new, new = [row EXCEPT !.revision = x, !.at = y]
    PROVE  new = [id |-> row.id, revision |-> x, at |-> y]
  <1>1. new \in [id : {row.id}, revision : {x}, at : {y}]
    BY DEF ProjectRows
  <1>2. QED BY <1>1

LEMMA TablesUpdated ==
    ASSUME NEW d \in Databases, NEW x, NEW y, NEW e
    PROVE  /\ e = [d EXCEPT !.projects = x] =>
                e = [projects |-> x, snapshots |-> d.snapshots,
                     records |-> d.records, activities |-> d.activities]
           /\ e = [d EXCEPT !.snapshots = x] =>
                e = [projects |-> d.projects, snapshots |-> x,
                     records |-> d.records, activities |-> d.activities]
           /\ e = [d EXCEPT !.records = x, !.activities = y] =>
                e = [projects |-> d.projects, snapshots |-> d.snapshots,
                     records |-> x, activities |-> y]
  BY DEF Databases

LEMMA ApplicationWrites ==
    ASSUME CutoverInv, NEW s \in Sites, Application(s)
    PROVE  \E e : Applied(s, e) /\ Write(s, e)
  <1> DEFINE d == db[s]
  <1>1. d \in Databases /\ d.projects \subseteq ProjectRows
    BY DEF CutoverInv, Stores, Proper, Rowwise, Databases
  <1>2. ASSUME NEW p \in Projects, create(s, p) PROVE \E e : Applied(s, e) /\ Write(s, e)
    <2>1. PICK e : e = [d EXCEPT !.projects = @ \cup {[id |-> p, revision |-> 1, at |-> Now]}]
      OBVIOUS
    <2>2. Write(s, e)
      BY <1>2, <2>1, Zenon DEF create
    <2>3. Creates(d, e, p)
      BY <1>1, <1>2, <2>1, TablesUpdated DEF create, Creates
    <2>4. QED BY <2>2, <2>3 DEF Applied
  <1>3. ASSUME NEW row \in d.projects, saveProject(s, row)
        PROVE \E e : Applied(s, e) /\ Write(s, e)
    <2>1. PICK new : new = [row EXCEPT !.revision = @ + 1, !.at = Now]
      OBVIOUS
    <2>2. PICK e : e = [d EXCEPT !.projects = (@ \ {row}) \cup {new}]
      OBVIOUS
    <2>3. Write(s, e) /\ used' = used
      BY <1>3, <2>1, <2>2, Zenon DEF saveProject
    <2>4. new = [id |-> row.id, revision |-> row.revision + 1, at |-> Now]
      BY <1>1, <2>1, RowUpdated
    <2>5. Saves(d, e, row)
      BY <1>1, <2>2, <2>3, <2>4, TablesUpdated DEF Saves
    <2>6. QED BY <2>3, <2>5 DEF Applied
  <1>4. ASSUME NEW row \in d.projects, createNamedVersion(s, row)
        PROVE \E e : Applied(s, e) /\ Write(s, e)
    <2>1. PICK e : e = [d EXCEPT !.snapshots = @ \cup {[id |-> Now, project |-> row.id]}]
      OBVIOUS
    <2>2. Write(s, e) /\ used' = used
      BY <1>4, <2>1, Zenon DEF createNamedVersion
    <2>3. Names(d, e, row)
      BY <1>1, <2>1, <2>2, TablesUpdated DEF Names
    <2>4. QED BY <2>2, <2>3 DEF Applied
  <1>5. ASSUME NEW row \in d.projects, upsertWithActivity(s, row)
        PROVE \E e : Applied(s, e) /\ Write(s, e)
    <2> DEFINE found == Of(row.id, d.records)
    <2>1. PICK id : id = IF found = {} THEN <<row.id, s>> ELSE (CHOOSE r \in found : TRUE).id
      OBVIOUS
    <2>x. PICK rs : rs = (d.records \ found) \cup {[id |-> id, project |-> row.id, at |-> Now]}
      OBVIOUS
    <2>y. PICK as : as = d.activities \cup {[id |-> Now, project |-> row.id, record |-> id]}
      OBVIOUS
    <2>2. PICK e : e = [d EXCEPT !.records = rs, !.activities = as]
      OBVIOUS
    <2>3. Write(s, e) /\ used' = used /\ ~Locked(s, run.staged.records, row)
      BY <1>5, <2>1, <2>x, <2>y, <2>2, Zenon DEF upsertWithActivity, Locked
    <2>4. /\ \/ found = {} /\ id \in {<<row.id, t>> : t \in Sites}
             \/ \E r \in found : id = r.id
          /\ id \in RecordIds
      BY <1>1, <2>1 DEF RecordIds, ProjectRows, Of, Databases, RecordRows
    <2>5. e = [projects |-> d.projects, snapshots |-> d.snapshots,
               records |-> rs, activities |-> as]
      <3> HIDE DEF d, found
      <3>1. QED BY <1>1, <2>2 DEF Databases
    <2>6. Records(d, e, row, id)
      BY <2>x, <2>y, <2>3, <2>4, <2>5 DEF Records
    <2>7. QED BY <2>3, <2>4, <2>6 DEF Applied
  <1>6. ASSUME NEW row \in d.projects, delete(s, row)
        PROVE \E e : Applied(s, e) /\ Write(s, e)
    <2>1. PICK e : e = [projects |-> d.projects \ {row},
                        snapshots |-> d.snapshots \ Of(row.id, d.snapshots),
                        records |-> d.records \ Of(row.id, d.records),
                        activities |-> d.activities \ Of(row.id, d.activities)]
      OBVIOUS
    <2>2. /\ Write(s, e) /\ used' = used
          /\ ~Locked(s, run.staged.snapshots, row)
          /\ ~Locked(s, run.staged.records, row)
          /\ ~Locked(s, run.staged.activities, row)
      BY <1>6, <2>1, Zenon DEF delete, Locked
    <2>3. Deletes(d, e, row)
      BY <2>1, <2>2 DEF Deletes
    <2>4. QED BY <2>2, <2>3 DEF Applied
  <1>7. QED BY <1>2, <1>3, <1>4, <1>5, <1>6 DEF Application

LEMMA RowwiseTyped ==
    ASSUME NEW d, NEW n, NEW U, Rowwise(d, n, U)
    PROVE  d \in Databases
  BY DEF Rowwise

LEMMA SitesFacts == "sqlite" \in Sites /\ "postgres" \in Sites /\ "sqlite" # "postgres"
                    /\ Sites = {"sqlite", "postgres"}
  BY DEF Sites

LEMMA IdleFacts ==
    run.pc = "idle" => \A t \in Tables : ~HasRead(t) /\ ~HasStaged(t)
  BY DEF HasRead, HasStaged, Tables, Verifying

LEMMA ApplicationKeepsStores ==
    ASSUME MaxWrites \in Nat, CutoverInv, NEW s \in Sites, NEW e, Applied(s, e), Write(s, e)
    PROVE  Stores' /\ (Agree(db[s]) => Agree(e)) /\ e \in Databases
  <1>0. /\ clock \in Nat /\ clock < MaxWrites /\ clock' = Now /\ Now \in Nat /\ clock <= Now
        /\ run' = run /\ db \in [Sites -> Databases] /\ db' = [db EXCEPT ![s] = e]
        /\ used \subseteq Projects
    BY DEF Write, CutoverInv, Typed, Now
  <1>1. Written(db[s], e)
    BY AppliedIsWritten
  <1>2. Proper(e, Now, used') /\ Fresh(db[s], e) /\ (Agree(db[s]) => Agree(e))
    BY <1>0, <1>1, WrittenKeeps DEF CutoverInv, Stores
  <1>3. used \subseteq used'
    BY <1>0, <1>1, WrittenProjects
  <1>4. \A t \in Sites : db'[t] = IF t = s THEN e ELSE db[t]
    BY <1>0
  <1>5. /\ \A t \in Sites : Proper(db[t], clock, used)
        /\ Proper(Copied, clock, used)
        /\ Rowwise(run.source, clock, used)
        /\ Same(db["sqlite"], run.source) /\ Same(db["sqlite"], Copied)
        /\ Same(run.source, Copied)
    BY DEF CutoverInv, Stores
  <1>6. /\ Proper(db["sqlite"], clock, used) /\ Proper(db["postgres"], clock, used)
        /\ Rowwise(db["sqlite"], clock, used) /\ Rowwise(Copied, clock, used)
    BY <1>5, SitesFacts DEF Proper
  <1> HIDE DEF Now
  <1>7. ASSUME NEW d, Proper(d, clock, used) PROVE Proper(d, Now, used')
    BY <1>0, <1>3, <1>7, LaterRowwise DEF Proper
  <1>8. Rowwise(run.source, Now, used')
    BY <1>0, <1>3, <1>5, LaterRowwise
  <1>9. \A t \in Sites : Proper(db'[t], Now, used')
    BY <1>2, <1>4, <1>5, <1>7
  <1>10. \A d, f : Same(d, f) => Same(f, d)
    BY DEF Same
  <1>11. CASE s = "sqlite"
    <2>1. db'["sqlite"] = e /\ Copied' = Copied
      BY <1>0, <1>4, <1>11, SitesFacts DEF Copied
    <2>2. Proper(Copied, Now, used')
      BY <1>5, <1>7
    <2>3. Same(e, run.source) /\ Same(e, Copied)
      BY <1>0, <1>2, <1>5, <1>6, <1>11, WrittenSame
    <2>4. QED BY <1>0, <1>2, <1>5, <1>8, <1>9, <2>1, <2>2, <2>3, RowwiseTyped DEF Stores, Proper
  <1>12. CASE s = "postgres"
    <2> DEFINE c == Committed(e, run.staged)
    <2>1. db'["sqlite"] = db["sqlite"] /\ Copied' = c
      BY <1>0, <1>4, <1>12, SitesFacts DEF Copied
    <2>2. Written(Copied, c)
      BY <1>12, TargetWritten
    <2> HIDE DEF c
    <2>3. Proper(c, Now, used') /\ Fresh(Copied, c)
      BY <1>0, <1>5, <2>2, WrittenKeeps
    <2>4. Same(run.source, c) /\ Same(db["sqlite"], c)
      BY <1>0, <1>5, <1>6, <1>10, <2>3, WrittenSame
    <2>5. QED BY <1>0, <1>2, <1>5, <1>8, <1>9, <2>1, <2>3, <2>4, RowwiseTyped DEF Stores, Proper
  <1>13. QED BY <1>11, <1>12, SitesFacts

LEMMA ApplicationKeeps ==
    ASSUME MaxWrites \in Nat, CutoverInv, NEW s \in Sites, Application(s)
    PROVE  CutoverInv'
  <1>1. PICK e : Applied(s, e) /\ Write(s, e)
    BY ApplicationWrites
  <1>2. Stores' /\ (Agree(db[s]) => Agree(e)) /\ e \in Databases
    BY <1>1, ApplicationKeepsStores
  <1>3. /\ clock \in Nat /\ clock < MaxWrites /\ clock' = clock + 1
        /\ run' = run /\ running' = running /\ tainted' = tainted
        /\ runs' = runs /\ crashes' = crashes
        /\ torn' = (run.pc # "idle")
        /\ db \in [Sites -> Databases] /\ db' = [db EXCEPT ![s] = e]
        /\ used \subseteq Projects
    BY <1>1 DEF Write, CutoverInv, Typed, Now, Bounds
  <1>4. Written(db[s], e)
    BY <1>1, AppliedIsWritten
  <1>5. Typed'
    BY <1>2, <1>3, <1>4, WrittenProjects DEF CutoverInv, Typed
  <1>6. \A t \in Sites : db'[t] = IF t = s THEN e ELSE db[t]
    BY <1>3
  <1>7. Staging'
    <2>1. /\ \A t \in Tables : run.staged[t] \subseteq run.source[t]
          /\ \A t \in Tables : ~HasStaged(t) => run.staged[t] = {}
          /\ run.dryRun \/ run.pc \in Verifying => run.staged = Empty
          /\ run.dryRun => ~At("commit")
          /\ \A x \in db["postgres"].projects, y \in run.staged.projects : x.id # y.id
      BY DEF CutoverInv, Staging
    <2>2. \A y \in run.staged.projects : y.id \in used
      BY <2>1 DEF CutoverInv, Stores, Rowwise, Tables
    <2>3. \A x \in db'["postgres"].projects, y \in run.staged.projects : x.id # y.id
      <3>1. CASE s = "sqlite"
        BY <1>6, <2>1, <3>1, SitesFacts
      <3>2. CASE s = "postgres"
        <4>1. db'["postgres"] = e /\ Written(db["postgres"], e)
          BY <1>4, <1>6, <3>2
        <4>2. QED BY <2>1, <2>2, <4>1, WrittenProjects DEF IdsOf
      <3>3. QED BY <3>1, <3>2, SitesFacts
    <2>4. QED BY <1>3, <2>1, <2>3 DEF Staging, HasStaged, At
  <1>8. Copying' /\ Verified'
    <2>1. CASE run.pc = "idle"
      BY <1>3, <2>1, IdleFacts DEF Copying, Verified, HasRead, HasStaged, At
    <2>2. CASE run.pc # "idle"
      BY <1>3, <2>2 DEF Copying, Verified
    <2>3. QED BY <2>1, <2>2
  <1>9. ~tainted' => \A t \in Sites : Agree(db'[t])
    BY <1>2, <1>3, <1>6 DEF CutoverInv
  <1>10. QED BY <1>2, <1>5, <1>7, <1>8, <1>9 DEF CutoverInv, Agree
----
(* The tool.                                                               *)

LEMMA CommittedNothing ==
    ASSUME NEW d \in Databases
    PROVE  Committed(d, Empty) = d
  <1>1. PICK c : c = Committed(d, Empty)
    OBVIOUS
  <1>2. /\ c = [projects |-> c.projects, snapshots |-> c.snapshots,
                records |-> c.records, activities |-> c.activities]
        /\ c.projects = d.projects /\ c.snapshots = d.snapshots
        /\ c.records = d.records /\ c.activities = d.activities
    BY <1>1 DEF Committed, Empty
  <1>3. d = [projects |-> d.projects, snapshots |-> d.snapshots,
             records |-> d.records, activities |-> d.activities]
    BY DEF Databases
  <1>4. QED BY <1>1, <1>2, <1>3

(* What a run leaves that starts, throws or crashes.                       *)
LEMMA NothingStaged ==
    ASSUME CutoverInv, UNCHANGED <<db, clock, used, tainted>>, Typed',
           run'.staged = Empty, run'.source = Empty, run'.pc \in {"idle", "readProjects"}
    PROVE  CutoverInv'
  <1> DEFINE d == db["postgres"]
  <1>1. /\ Proper(d, clock, used) /\ Proper(Copied, clock, used)
        /\ Same(db["sqlite"], Copied)
    BY SitesFacts DEF CutoverInv, Stores
  <1>2. d \in Databases
    BY <1>1 DEF Proper, Rowwise
  <1>3. Copied' = d
    BY <1>2, CommittedNothing DEF Copied
  <1>4. /\ Empty.projects = {} /\ Empty.snapshots = {}
        /\ Empty.records = {} /\ Empty.activities = {}
        /\ Empty \in Databases
    BY DEF Empty, Databases
  <1>5. Rowwise(Empty, clock, used)
    BY <1>4 DEF Rowwise
  <1>6. Same(db["sqlite"], Empty) /\ Same(Empty, d)
    BY <1>4 DEF Same
  <1>7. Same(db["sqlite"], d)
    BY <1>1, CommittedTables DEF Same, Copied
  <1>8. Stores'
    BY <1>1, <1>3, <1>5, <1>6, <1>7 DEF Stores, CutoverInv
  <1>9. \A t \in Tables : Empty[t] = {}
    BY DEF Empty, Tables
  <1>10. Staging'
    BY <1>4, <1>9 DEF Staging, At, Verifying
  <1>11. Copying'
    BY DEF Copying, HasRead, HasStaged, Tables, Verifying
  <1>12. Verified'
    BY DEF Verified, At
  <1>13. QED BY <1>8, <1>10, <1>11, <1>12 DEF CutoverInv

LEMMA NoRunTyped ==
    /\ NoRun \in Runs
    /\ NoRun.pc = "idle" /\ NoRun.staged = Empty /\ NoRun.source = Empty
  BY DEF NoRun, Runs, Empty, Databases

LEMMA StartKeeps ==
    ASSUME CutoverInv, migrateSqliteToPostgres
    PROVE  CutoverInv'
  <1>1. PICK dry, strict \in BOOLEAN :
            run' = [NoRun EXCEPT !.pc = "readProjects", !.dryRun = dry, !.strict = strict]
    BY DEF migrateSqliteToPostgres
  <1>2. run' \in Runs /\ run'.pc = "readProjects" /\ run'.staged = Empty /\ run'.source = Empty
    BY <1>1, NoRunTyped DEF Runs
  <1>3. runs' \in 0..MaxRuns
    BY CutoverAssumption DEF migrateSqliteToPostgres, CutoverInv, Typed
  <1>4. UNCHANGED <<db, running, clock, used, tainted, crashes>> /\ torn' = FALSE
    BY DEF migrateSqliteToPostgres
  <1>5. Typed'
    BY <1>2, <1>3, <1>4 DEF CutoverInv, Typed
  <1>6. QED BY <1>2, <1>4, <1>5, NothingStaged

LEMMA ThrowKeeps ==
    ASSUME CutoverInv, Throw
    PROVE  CutoverInv'
  <1>1. /\ UNCHANGED <<db, running, clock, used, torn, tainted, runs, crashes>>
        /\ run' = NoRun
    BY DEF Throw, Step, Bounds
  <1>2. Typed'
    BY <1>1, NoRunTyped DEF CutoverInv, Typed
  <1>3. QED BY <1>1, <1>2, NoRunTyped, NothingStaged

LEMMA CrashKeeps ==
    ASSUME CutoverInv, crash
    PROVE  CutoverInv'
  <1>1. /\ UNCHANGED <<db, running, clock, used, torn, tainted, runs>>
        /\ run' = NoRun /\ crashes' \in 0..MaxCrashes
    BY CutoverAssumption DEF crash, CutoverInv, Typed
  <1>2. Typed'
    BY <1>1, NoRunTyped DEF CutoverInv, Typed
  <1>3. QED BY <1>1, <1>2, NoRunTyped, NothingStaged

(* A step that reads a table of the source.                                *)
LEMMA ReadKeeps ==
    ASSUME CutoverInv, NEW r, Step(r), NEW t \in Tables,
           \A u \in Tables : r.source[u] = IF u = t THEN db["sqlite"][u] ELSE run.source[u],
           r \in Runs, r.staged = run.staged, r.warned = run.warned, r.dryRun = run.dryRun,
           \A u \in Tables : HasRead(u)' <=> HasRead(u) \/ u = t,
           \A u \in Tables : ~HasStaged(u) /\ ~HasStaged(u)',
           r.pc \in {"readSnapshots", "readRecords", "readActivities", "projects"}
    PROVE  CutoverInv'
  <1>1. /\ UNCHANGED <<db, running, clock, used, torn, tainted, runs, crashes>>
        /\ run' = r
    BY DEF Step, Bounds
  <1>2. Copied' = Copied
    BY <1>1 DEF Copied
  <1> DEFINE s == db["sqlite"]
  <1>3. /\ Proper(s, clock, used) /\ Rowwise(run.source, clock, used)
        /\ Same(s, run.source) /\ Same(s, Copied) /\ Same(run.source, Copied)
    BY SitesFacts DEF CutoverInv, Stores
  <1>4. r.source \in Databases
    BY DEF Runs
  <1>5. /\ r.source.projects \in {s.projects, run.source.projects}
        /\ r.source.snapshots \in {s.snapshots, run.source.snapshots}
        /\ r.source.records \in {s.records, run.source.records}
        /\ r.source.activities \in {s.activities, run.source.activities}
    BY DEF Tables
  <1> HIDE DEF s
  <1>6. Rowwise(r.source, clock, used)
    <2>1. Rowwise(s, clock, used)
      BY <1>3 DEF Proper
    <2>2. QED BY <1>3, <1>4, <1>5, <2>1 DEF Rowwise
  <1>7. Same(r.source, Copied)
    BY <1>3, <1>5 DEF Same
  <1>8. Same(s, r.source)
    BY <1>3, <1>5 DEF Same, Proper, Rowwise
  <1>9. Stores'
    BY <1>1, <1>2, <1>6, <1>7, <1>8 DEF Stores, CutoverInv, s
  <1>10. \A u \in Tables : run.staged[u] = {}
    BY DEF CutoverInv, Staging
  <1>11. Staging'
    BY <1>1, <1>10 DEF CutoverInv, Staging, At, Tables, Verifying
  <1>12. Copying'
    BY <1>1 DEF Copying, CutoverInv
  <1>13. Verified'
    BY <1>1 DEF Verified, At
  <1>14. Typed'
    BY <1>1 DEF CutoverInv, Typed
  <1>15. QED BY <1>1, <1>9, <1>11, <1>12, <1>13, <1>14 DEF CutoverInv

LEMMA ReadSourceKeeps ==
    ASSUME CutoverInv, readSource
    PROVE  CutoverInv'
  <1>1. run \in Runs /\ db["sqlite"] \in Databases
    BY SitesFacts DEF CutoverInv, Typed
  <1>2. CASE At("readProjects") /\ Step([run EXCEPT !.pc = "readSnapshots",
                                            !.source.projects = db["sqlite"].projects])
    <2>1. PICK r : r = [run EXCEPT !.pc = "readSnapshots",
                                   !.source.projects = db["sqlite"].projects]
      OBVIOUS
    <2>2. /\ r \in Runs /\ r.staged = run.staged /\ r.warned = run.warned
          /\ r.dryRun = run.dryRun /\ r.pc = "readSnapshots"
          /\ \A u \in Tables : r.source[u] = IF u = "projects" THEN db["sqlite"][u]
                                                               ELSE run.source[u]
      BY <1>1, <2>1 DEF Runs, Databases, Tables
    <2>3. run' = r /\ Step(r)
      BY <1>2, <2>1 DEF Step
    <2>4. \A u \in Tables : /\ HasRead(u)' <=> HasRead(u) \/ u = "projects"
                            /\ ~HasStaged(u) /\ ~HasStaged(u)'
      BY <1>2, <2>2, <2>3 DEF HasRead, HasStaged, Tables, Verifying, At
    <2>5. QED BY <2>2, <2>3, <2>4, ReadKeeps DEF Tables
  <1>3. CASE At("readSnapshots") /\ Step([run EXCEPT !.pc = "readRecords",
                                             !.source.snapshots = db["sqlite"].snapshots])
    <2>1. PICK r : r = [run EXCEPT !.pc = "readRecords",
                                   !.source.snapshots = db["sqlite"].snapshots]
      OBVIOUS
    <2>2. /\ r \in Runs /\ r.staged = run.staged /\ r.warned = run.warned
          /\ r.dryRun = run.dryRun /\ r.pc = "readRecords"
          /\ \A u \in Tables : r.source[u] = IF u = "snapshots" THEN db["sqlite"][u]
                                                               ELSE run.source[u]
      BY <1>1, <2>1 DEF Runs, Databases, Tables
    <2>3. run' = r /\ Step(r)
      BY <1>3, <2>1 DEF Step
    <2>4. \A u \in Tables : /\ HasRead(u)' <=> HasRead(u) \/ u = "snapshots"
                            /\ ~HasStaged(u) /\ ~HasStaged(u)'
      BY <1>3, <2>2, <2>3 DEF HasRead, HasStaged, Tables, Verifying, At
    <2>5. QED BY <2>2, <2>3, <2>4, ReadKeeps DEF Tables
  <1>4. CASE At("readRecords") /\ Step([run EXCEPT !.pc = "readActivities",
                                           !.source.records = db["sqlite"].records])
    <2>1. PICK r : r = [run EXCEPT !.pc = "readActivities",
                                   !.source.records = db["sqlite"].records]
      OBVIOUS
    <2>2. /\ r \in Runs /\ r.staged = run.staged /\ r.warned = run.warned
          /\ r.dryRun = run.dryRun /\ r.pc = "readActivities"
          /\ \A u \in Tables : r.source[u] = IF u = "records" THEN db["sqlite"][u]
                                                               ELSE run.source[u]
      BY <1>1, <2>1 DEF Runs, Databases, Tables
    <2>3. run' = r /\ Step(r)
      BY <1>4, <2>1 DEF Step
    <2>4. \A u \in Tables : /\ HasRead(u)' <=> HasRead(u) \/ u = "records"
                            /\ ~HasStaged(u) /\ ~HasStaged(u)'
      BY <1>4, <2>2, <2>3 DEF HasRead, HasStaged, Tables, Verifying, At
    <2>5. QED BY <2>2, <2>3, <2>4, ReadKeeps DEF Tables
  <1>5. CASE At("readActivities") /\ Step([run EXCEPT !.pc = "projects",
                                              !.source.activities = db["sqlite"].activities])
    <2>1. PICK r : r = [run EXCEPT !.pc = "projects",
                                   !.source.activities = db["sqlite"].activities]
      OBVIOUS
    <2>2. /\ r \in Runs /\ r.staged = run.staged /\ r.warned = run.warned
          /\ r.dryRun = run.dryRun /\ r.pc = "projects"
          /\ \A u \in Tables : r.source[u] = IF u = "activities" THEN db["sqlite"][u]
                                                               ELSE run.source[u]
      BY <1>1, <2>1 DEF Runs, Databases, Tables
    <2>3. run' = r /\ Step(r)
      BY <1>5, <2>1 DEF Step
    <2>4. \A u \in Tables : /\ HasRead(u)' <=> HasRead(u) \/ u = "activities"
                            /\ ~HasStaged(u) /\ ~HasStaged(u)'
      BY <1>5, <2>2, <2>3 DEF HasRead, HasStaged, Tables, Verifying, At
    <2>5. QED BY <2>2, <2>3, <2>4, ReadKeeps DEF Tables
  <1>6. QED BY <1>2, <1>3, <1>4, <1>5 DEF readSource

(* The database e is c with rows of f that the keys let in.                *)
Adds(c, f, e) ==
    /\ e = [projects |-> e.projects, snapshots |-> e.snapshots,
            records |-> e.records, activities |-> e.activities]
    /\ \A t \in Tables : c[t] \subseteq e[t] /\ e[t] \subseteq c[t] \cup f[t]
    /\ \A t \in Tables \ {"records"} : \A x \in e[t] \ c[t] : x.id \notin IdsOf(c[t])
    /\ \A x \in e.records \ c.records : Of(x.project, c.records) = {}
    /\ \A t \in {"snapshots", "records"} :
          \A x \in e[t] \ c[t] : x.project \in IdsOf(e.projects)
    /\ \A x \in e.activities \ c.activities : x.record \in IdsOf(e.records)

(* Such rows leave the target proper, and equal to the source where an id  *)
(* is in both.                                                             *)
LEMMA AddsKeeps ==
    ASSUME NEW c, NEW f, NEW e, Adds(c, f, e),
           NEW n, NEW U, Proper(c, n, U), Rowwise(f, n, U)
    PROVE  /\ Proper(e, n, U)
           /\ \A d : Same(d, c) /\ Same(d, f) => Same(d, e)
  <1>1. /\ c.projects \subseteq e.projects /\ e.projects \subseteq c.projects \cup f.projects
        /\ c.snapshots \subseteq e.snapshots /\ e.snapshots \subseteq c.snapshots \cup f.snapshots
        /\ c.records \subseteq e.records /\ e.records \subseteq c.records \cup f.records
        /\ c.activities \subseteq e.activities
        /\ e.activities \subseteq c.activities \cup f.activities
        /\ \A x \in e.projects \ c.projects : x.id \notin IdsOf(c.projects)
        /\ \A x \in e.snapshots \ c.snapshots : x.id \notin IdsOf(c.snapshots)
        /\ \A x \in e.records \ c.records : Of(x.project, c.records) = {}
        /\ \A x \in e.activities \ c.activities : x.id \notin IdsOf(c.activities)
        /\ \A x \in e.snapshots \ c.snapshots : x.project \in IdsOf(e.projects)
        /\ \A x \in e.records \ c.records : x.project \in IdsOf(e.projects)
        /\ \A x \in e.activities \ c.activities : x.record \in IdsOf(e.records)
    BY DEF Adds, Tables
  <1>2. Rowwise(c, n, U) /\ Linked(c)
    BY DEF Proper
  <1>3. e \in Databases
    <2>1. e = [projects |-> e.projects, snapshots |-> e.snapshots,
               records |-> e.records, activities |-> e.activities]
      BY DEF Adds
    <2>2. QED BY <1>1, <1>2, <2>1 DEF Rowwise, Databases
  <1>4. \A x, y \in e.projects : x.id = y.id => x = y
    BY <1>1, <1>2 DEF Rowwise, IdsOf
  <1>5. \A x, y \in e.snapshots : x.id = y.id => x = y
    BY <1>1, <1>2 DEF Rowwise, IdsOf
  <1>6. \A x, y \in e.records : x.project = y.project => x = y
    BY <1>1, <1>2 DEF Rowwise, Of
  <1>7. \A x, y \in e.activities : x.id = y.id => x = y
    BY <1>1, <1>2 DEF Rowwise, IdsOf
  <1>8. Rowwise(e, n, U)
    BY <1>1, <1>2, <1>3, <1>4, <1>5, <1>6, <1>7 DEF Rowwise
  <1>9. Linked(e)
    BY <1>1, <1>2 DEF Linked, IdsOf
  <1>10. \A d : Same(d, c) /\ Same(d, f) => Same(d, e)
    BY <1>1 DEF Same
  <1>11. QED BY <1>8, <1>9, <1>10 DEF Proper

LEMMA AllInserted ==
    ASSUME NEW rows, NEW existing, Conflicts(rows, existing) = {}
    PROVE  rows \subseteq existing \cup Missing(rows, existing)
  BY DEF Conflicts, Missing, IdsOf

LEMMA TargetIsCopied ==
    \A t \in Tables : Target(t) = Copied[t]
  BY DEF Target, Copied, Committed, Tables

(* What follows the insertion of a table.                                  *)
After(t) ==
    CASE t = "projects" -> "snapshots"
      [] t = "snapshots" -> "records"
      [] t = "records" -> "activities"
      [] t = "activities" -> IF run.dryRun THEN "listIds" ELSE "commit"

(* The run r has the rows of t inserted; w: a conflict was met.             *)
Staged(r, w, t, rows) ==
    /\ r \in Runs /\ r.pc = After(t) /\ r.warned = w /\ r.source = run.source
    /\ r.dryRun = run.dryRun
    /\ \A u \in Tables : r.staged[u] = IF u = t THEN rows ELSE run.staged[u]

LEMMA StageFields ==
    ASSUME run \in Runs, NEW t \in Tables, NEW w, w \in BOOLEAN, NEW rows,
           rows \subseteq run.source[t], NEW pc, pc = After(t),
           NEW r, r = [run EXCEPT !.pc = pc, !.warned = w, !.staged[t] = rows]
    PROVE  Staged(r, w, t, rows)
  <1>1. pc \in {"snapshots", "records", "activities", "commit", "listIds"}
    BY DEF After, Tables
  <1>2. /\ r \in Runs /\ r.pc = pc /\ r.warned = w /\ r.source = run.source
        /\ r.dryRun = run.dryRun
        /\ \A u \in Tables : r.staged[u] = IF u = t THEN rows ELSE run.staged[u]
    BY <1>1 DEF Runs, Databases, Tables
  <1>3. QED BY <1>2 DEF Staged

(* A step that inserts the missing rows of a table, if it is not dry.      *)
LEMMA StageKeeps ==
    ASSUME CutoverInv, NEW t \in Tables, At(t), NEW w \in BOOLEAN, NEW rows, NEW r,
           Staged(r, w, t, rows), Step(r),
           rows = IF run.dryRun THEN {} ELSE Missing(run.source[t], Copied[t]),
           w = FALSE => Conflicts(run.source[t], Copied[t]) = {} /\ ~run.warned,
           \A x \in rows : t = "records" => Of(x.project, Copied.records) = {},
           \A x \in rows : t \in {"snapshots", "records"} => x.project \in IdsOf(Copied.projects),
           \A x \in rows : t = "activities" => x.record \in IdsOf(Copied.records)
    PROVE  CutoverInv'
  <1>1. /\ UNCHANGED <<db, running, clock, used, torn, tainted, runs, crashes>>
        /\ run' = r
    BY DEF Step, Bounds
  <1>2. rows \subseteq run.source[t] /\ \A x \in rows : x.id \notin IdsOf(Copied[t])
    BY DEF Missing
  <1>3. run \in Runs /\ run.pc = t
    BY DEF CutoverInv, Typed, At
  <1>5. /\ r \in Runs /\ r.pc = After(t) /\ r.warned = w /\ r.source = run.source
        /\ r.dryRun = run.dryRun
        /\ \A u \in Tables : r.staged[u] = IF u = t THEN rows ELSE run.staged[u]
    BY DEF Staged
  <1>6. \A u \in Tables : /\ HasRead(u) /\ HasRead(u)'
                          /\ HasStaged(u)' <=> HasStaged(u) \/ u = t
                          /\ ~HasStaged(t)
    BY <1>1, <1>3, <1>5 DEF After, HasRead, HasStaged, Tables, Verifying
  <1>7. run.staged[t] = {} /\ \A u \in Tables : run.staged[u] \subseteq run.source[u]
    BY <1>6 DEF CutoverInv, Staging
  <1> DEFINE new == [u \in Tables |-> IF u = t THEN rows ELSE {}]
  <1>8. \A u \in Tables : r.staged[u] = run.staged[u] \cup new[u]
    BY <1>5, <1>7
  <1>9. Copied' = [projects |-> Copied.projects \cup new["projects"],
                   snapshots |-> Copied.snapshots \cup new["snapshots"],
                   records |-> Copied.records \cup new["records"],
                   activities |-> Copied.activities \cup new["activities"]]
    <2>1. Copied' = [projects |-> db["postgres"].projects \cup r.staged.projects,
                     snapshots |-> db["postgres"].snapshots \cup r.staged.snapshots,
                     records |-> db["postgres"].records \cup r.staged.records,
                     activities |-> db["postgres"].activities \cup r.staged.activities]
      BY <1>1 DEF Copied, Committed
    <2>2. /\ db["postgres"].projects \cup r.staged.projects
               = Copied.projects \cup new["projects"]
          /\ db["postgres"].snapshots \cup r.staged.snapshots
               = Copied.snapshots \cup new["snapshots"]
          /\ db["postgres"].records \cup r.staged.records
               = Copied.records \cup new["records"]
          /\ db["postgres"].activities \cup r.staged.activities
               = Copied.activities \cup new["activities"]
      <3> HIDE DEF new
      <3>1. QED BY <1>8, CommittedTables DEF Copied, Tables
    <2>3. QED BY <2>1, <2>2
  <1>10. /\ Proper(Copied, clock, used) /\ Rowwise(run.source, clock, used)
         /\ Same(db["sqlite"], run.source) /\ Same(db["sqlite"], Copied)
         /\ Same(run.source, Copied) /\ Same(run.source, run.source)
    BY DEF CutoverInv, Stores, Rowwise, Same
  <1>11. PICK c : c = Copied
    OBVIOUS
  <1>12. PICK e : e = [projects |-> c.projects \cup new["projects"],
                       snapshots |-> c.snapshots \cup new["snapshots"],
                       records |-> c.records \cup new["records"],
                       activities |-> c.activities \cup new["activities"]]
    OBVIOUS
  <1>13. Copied' = e
    BY <1>9, <1>11, <1>12
  <1>14. Proper(e, clock, used) /\ \A d : Same(d, c) /\ Same(d, run.source) => Same(d, e)
    <2>1. /\ e = [projects |-> e.projects, snapshots |-> e.snapshots,
                  records |-> e.records, activities |-> e.activities]
          /\ \A u \in Tables : e[u] = c[u] \cup new[u]
      BY <1>12 DEF Tables
    <2>2. \A u \in Tables : \A x \in e[u] \ c[u] : u = t /\ x \in rows
      BY <2>1
    <2>3. \A u \in Tables : c[u] \subseteq e[u] /\ e[u] \subseteq c[u] \cup run.source[u]
      BY <1>2, <2>1, <2>2
    <2>4. \A u \in Tables : \A x \in e[u] \ c[u] : x.id \notin IdsOf(c[u])
      BY <1>2, <1>11, <2>2
    <2>5. \A x \in e.records \ c.records : Of(x.project, c.records) = {}
      BY <1>11, <2>2 DEF Tables
    <2>6. IdsOf(c.projects) \subseteq IdsOf(e.projects) /\ IdsOf(c.records) \subseteq IdsOf(e.records)
      BY <2>3 DEF IdsOf, Tables
    <2>7. \A u \in {"snapshots", "records"} :
             \A x \in e[u] \ c[u] : x.project \in IdsOf(e.projects)
      BY <1>11, <2>2, <2>6 DEF Tables
    <2>8. \A x \in e.activities \ c.activities : x.record \in IdsOf(e.records)
      BY <1>11, <2>2, <2>6 DEF Tables
    <2> HIDE DEF new
    <2>9. Adds(c, run.source, e)
      BY <2>1, <2>3, <2>4, <2>5, <2>7, <2>8 DEF Adds
    <2>10. QED BY <1>10, <1>11, <2>9, AddsKeeps
  <1>15. Stores'
    <2>1. Proper(e, clock, used) /\ Same(db["sqlite"], e) /\ Same(run.source, e)
      BY <1>10, <1>11, <1>14
    <2>2. QED BY <1>1, <1>5, <1>10, <1>13, <2>1 DEF Stores, CutoverInv
  <1>16. Staging'
    <2>1. /\ \A u \in Tables : r.staged[u] \subseteq r.source[u]
          /\ \A u \in Tables : ~HasStaged(u)' => r.staged[u] = {}
      BY <1>2, <1>5, <1>6, <1>7 DEF CutoverInv, Staging
    <2>2. r.pc \in Verifying => r.dryRun
      BY <1>5 DEF After, Verifying, Tables
    <2>3. r.dryRun => r.pc # "commit"
      BY <1>5 DEF After, Tables
    <2>4. r.dryRun => r.staged = Empty
      <3> SUFFICES ASSUME r.dryRun PROVE r.staged = Empty
        OBVIOUS
      <3>1. \A u \in Tables : r.staged[u] = {}
        BY <1>5 DEF CutoverInv, Staging, Empty, Tables
      <3>2. r.staged \in Databases
        BY <1>5 DEF Runs
      <3>3. QED BY <3>1, <3>2 DEF Databases, Empty, Tables
    <2>5. \A x \in db["postgres"].projects, y \in r.staged.projects : x.id # y.id
      <3>1. \A x \in db["postgres"].projects, y \in run.staged.projects : x.id # y.id
        BY DEF CutoverInv, Staging
      <3>2. \A y \in new["projects"] : y.id \notin IdsOf(Copied.projects)
        BY <1>2 DEF Tables
      <3>3. db["postgres"].projects \subseteq Copied.projects
        BY CommittedTables DEF Copied
      <3>4. r.staged.projects = run.staged.projects \cup new["projects"]
        BY <1>8 DEF Tables
      <3> HIDE DEF new
      <3>5. QED BY <3>1, <3>2, <3>3, <3>4 DEF IdsOf
    <2>6. QED BY <1>1, <2>1, <2>2, <2>3, <2>4, <2>5 DEF Staging, At
  <1>17. Copying'
    <2> SUFFICES ASSUME ~torn, NEW u \in Tables
                 PROVE  /\ run.source[u] = db["sqlite"][u]
                        /\ HasStaged(u)' /\ w = FALSE /\ ~run.dryRun => run.source[u] \subseteq e[u]
      BY <1>1, <1>5, <1>6, <1>13 DEF Copying
    <2>1. run.source[u] = db["sqlite"][u]
      BY <1>6 DEF CutoverInv, Copying
    <2>2. e[u] = Copied[u] \cup new[u]
      BY <1>11, <1>12 DEF Tables
    <2>3. ASSUME u = t, w = FALSE, ~run.dryRun PROVE run.source[u] \subseteq e[u]
      BY <2>2, <2>3, AllInserted
    <2>4. ASSUME u # t, HasStaged(u)', w = FALSE, ~run.dryRun PROVE run.source[u] \subseteq e[u]
      BY <1>6, <2>2, <2>4 DEF CutoverInv, Copying
    <2>5. QED BY <2>1, <2>3, <2>4
  <1>18. Verified'
    BY <1>1, <1>5 DEF Verified, At, After, Tables
  <1>19. Typed'
    BY <1>1, <1>5 DEF CutoverInv, Typed
  <1>20. QED BY <1>1, <1>15, <1>16, <1>17, <1>18, <1>19 DEF CutoverInv

LEMMA MigrateKeeps ==
    ASSUME CutoverInv, NEW t \in Tables, NEW conflicts, NEW missing, NEW keys,
           Migrate(t, After(t), conflicts, missing, keys),
           missing = Missing(run.source[t], Target(t)),
           conflicts = {} => Conflicts(run.source[t], Target(t)) = {},
           keys => \A x \in missing : t = "records" => Of(x.project, Target("records")) = {},
           keys => \A x \in missing : t \in {"snapshots", "records"} =>
                                         x.project \in IdsOf(Target("projects")),
           keys => \A x \in missing : t = "activities" => x.record \in IdsOf(Target("records"))
    PROVE  CutoverInv'
  <1>1. CASE Throw
    BY <1>1, ThrowKeeps
  <1>2. ASSUME run.dryRun \/ keys,
               Step([run EXCEPT !.pc = After(t), !.warned = @ \/ conflicts # {},
                                !.staged[t] = IF run.dryRun THEN {} ELSE missing])
        PROVE  CutoverInv'
    <2>1. PICK w : w = (run.warned \/ conflicts # {})
      OBVIOUS
    <2>2. PICK rows : rows = IF run.dryRun THEN {} ELSE missing
      OBVIOUS
    <2>p. PICK pc : pc = After(t)
      OBVIOUS
    <2>3. PICK r : r = [run EXCEPT !.pc = pc, !.warned = w, !.staged[t] = rows]
      OBVIOUS
    <2>4. Step(r)
      BY <1>2, <2>1, <2>2, <2>p, <2>3, Zenon
    <2>5. Staged(r, w, t, rows)
      <3>1. run \in Runs /\ rows \subseteq run.source[t]
        BY <2>2 DEF CutoverInv, Typed, Missing
      <3>2. w \in BOOLEAN
        BY <2>1 DEF CutoverInv, Typed, Runs
      <3>3. QED BY <2>p, <2>3, <3>1, <3>2, StageFields
    <2>6. run.warned \in BOOLEAN /\ w \in BOOLEAN /\ At(t)
      BY <2>1 DEF CutoverInv, Typed, Runs, Migrate
    <2>7. \A u \in Tables : Target(u) = Copied[u]
      BY TargetIsCopied
    <2>8. rows = IF run.dryRun THEN {} ELSE Missing(run.source[t], Copied[t])
      BY <2>2, <2>7
    <2>9. w = FALSE => Conflicts(run.source[t], Copied[t]) = {} /\ ~run.warned
      BY <2>1, <2>6, <2>7
    <2>10. \A x \in rows : x \in missing /\ keys
      BY <1>2, <2>2
    <2>11. /\ \A x \in rows : t = "records" => Of(x.project, Copied.records) = {}
           /\ \A x \in rows : t \in {"snapshots", "records"} => x.project \in IdsOf(Copied.projects)
           /\ \A x \in rows : t = "activities" => x.record \in IdsOf(Copied.records)
      BY <2>7, <2>10 DEF Tables
    <2>12. QED BY <2>4, <2>5, <2>6, <2>8, <2>9, <2>11, StageKeeps
  <1>3. QED BY <1>1, <1>2 DEF Migrate

LEMMA MigrateProjectsKeeps ==
    ASSUME CutoverInv, migrateProjectsTable
    PROVE  CutoverInv'
  <1>1. PICK missing, conflicts : /\ missing = Missing(run.source.projects, Target("projects"))
                                  /\ conflicts = Conflicts(run.source.projects, Target("projects"))
    OBVIOUS
  <1>2. Migrate("projects", After("projects"), conflicts, missing, TRUE)
    BY <1>1 DEF migrateProjectsTable, After
  <1>3. QED BY <1>1, <1>2, MigrateKeeps DEF Tables

(* Rows that never change do not conflict.                                 *)
LEMMA NoConflicts ==
    ASSUME CutoverInv
    PROVE  /\ Conflicts(run.source.snapshots, Target("snapshots")) = {}
           /\ Conflicts(run.source.activities, Target("activities")) = {}
  BY TargetIsCopied DEF CutoverInv, Stores, Same, Conflicts, Tables

LEMMA MigrateSnapshotsKeeps ==
    ASSUME CutoverInv, migrateProjectSnapshotsTable
    PROVE  CutoverInv'
  <1>1. PICK missing : missing = Missing(run.source.snapshots, Target("snapshots"))
    OBVIOUS
  <1>2. PICK keys : keys = \A x \in missing : x.project \in IdsOf(Target("projects"))
    OBVIOUS
  <1>3. Migrate("snapshots", After("snapshots"), {}, missing, keys)
    BY <1>1, <1>2 DEF migrateProjectSnapshotsTable, After
  <1>4. QED BY <1>1, <1>2, <1>3, MigrateKeeps, NoConflicts DEF Tables

LEMMA MigrateRecordsKeeps ==
    ASSUME CutoverInv, migrateControlRecordsTable
    PROVE  CutoverInv'
  <1>1. PICK missing, conflicts : /\ missing = Missing(run.source.records, Target("records"))
                                  /\ conflicts = Conflicts(run.source.records, Target("records"))
    OBVIOUS
  <1>2. PICK keys : keys = \A x \in missing : /\ x.project \in IdsOf(Target("projects"))
                                              /\ Of(x.project, Target("records")) = {}
    OBVIOUS
  <1>3. Migrate("records", After("records"), conflicts, missing, keys)
    BY <1>1, <1>2 DEF migrateControlRecordsTable, After
  <1>4. QED BY <1>1, <1>2, <1>3, MigrateKeeps DEF Tables

LEMMA MigrateActivitiesKeeps ==
    ASSUME CutoverInv, migrateControlActivitiesTable
    PROVE  CutoverInv'
  <1>1. PICK missing : missing = Missing(run.source.activities, Target("activities"))
    OBVIOUS
  <1>2. PICK keys : keys = \A x \in missing : x.record \in IdsOf(Target("records"))
    OBVIOUS
  <1>3. Migrate("activities", After("activities"), {}, missing, keys)
    BY <1>1, <1>2 DEF migrateControlActivitiesTable, After
  <1>4. QED BY <1>1, <1>2, <1>3, MigrateKeeps, NoConflicts DEF Tables

(* The commit changes nothing of what it was about to leave.               *)
LEMMA CommitKeeps ==
    ASSUME CutoverInv, commit
    PROVE  CutoverInv'
  <1> DEFINE s == db["sqlite"]
             d == db["postgres"]
  <1>1. /\ UNCHANGED <<running, clock, used, torn, runs, crashes>>
        /\ db' = [db EXCEPT !["postgres"] = Copied]
        /\ run' = [run EXCEPT !.pc = "listIds", !.staged = Empty]
        /\ tainted' = (tainted \/ torn \/ run.warned)
        /\ run.pc = "commit"
    BY DEF commit, Bounds, Copied, At
  <1>2. /\ db \in [Sites -> Databases] /\ run \in Runs
    BY DEF CutoverInv, Typed
  <1>3. /\ db'["sqlite"] = s /\ db'["postgres"] = Copied
        /\ \A t \in Sites : db'[t] = IF t = "postgres" THEN Copied ELSE db[t]
    BY <1>1, <1>2, SitesFacts
  <1>4. /\ Proper(s, clock, used) /\ Proper(d, clock, used) /\ Proper(Copied, clock, used)
        /\ Rowwise(run.source, clock, used)
        /\ Same(s, run.source) /\ Same(s, Copied) /\ Same(run.source, Copied)
    BY SitesFacts DEF CutoverInv, Stores
  <1>5. Copied \in Databases /\ Empty \in Databases
    BY <1>4 DEF Proper, Rowwise, Empty, Databases
  <1>6. /\ run' \in Runs /\ run'.pc = "listIds" /\ run'.staged = Empty
        /\ run'.source = run.source /\ run'.warned = run.warned /\ run'.dryRun = run.dryRun
    BY <1>1, <1>2, <1>5 DEF Runs
  <1>7. PICK c : c = Copied
    OBVIOUS
  <1>8. Copied' = c
    <2>1. Copied' = Committed(Copied, Empty)
      BY <1>3, <1>6 DEF Copied
    <2>2. QED BY <1>5, <1>7, <2>1, CommittedNothing
  <1>9. Stores'
    BY <1>1, <1>3, <1>4, <1>6, <1>7, <1>8, SitesFacts DEF Stores
  <1>10. \A t \in Tables : HasRead(t) /\ HasRead(t)' /\ HasStaged(t) /\ HasStaged(t)'
    BY <1>1, <1>6 DEF HasRead, HasStaged, Tables, Verifying
  <1>11. Staging'
    <2>1. \A t \in Tables : Empty[t] = {}
      BY DEF Empty, Tables
    <2>2. Empty.projects = {}
      BY DEF Empty
    <2>3. QED BY <1>6, <1>10, <2>1, <2>2 DEF Staging, At
  <1>12. Copying'
    <2>1. \A t \in Tables : s[t] = db'["sqlite"][t]
      BY <1>3
    <2>2. QED BY <1>1, <1>6, <1>7, <1>8, <1>10, <2>1 DEF Copying, CutoverInv
  <1>13. Verified'
    BY <1>6 DEF Verified, At
  <1>14. ~tainted' => \A t \in Sites : Agree(db'[t])
    <2> SUFFICES ASSUME ~tainted' PROVE Agree(Copied) /\ Agree(s)
      BY <1>3, SitesFacts
    <2>1. ~tainted /\ ~torn /\ ~run.warned
      BY <1>1
    <2>2. Agree(s) /\ Agree(d)
      BY <2>1, SitesFacts DEF CutoverInv
    <2>3. ~run.dryRun
      BY <1>1 DEF CutoverInv, Staging, At
    <2>4. /\ run.source.records = s.records /\ run.source.activities = s.activities
          /\ s.records \subseteq Copied.records /\ s.activities \subseteq Copied.activities
      BY <1>10, <2>1, <2>3 DEF CutoverInv, Copying, Tables
    <2>5. /\ run.staged.records \subseteq s.records
          /\ run.staged.activities \subseteq s.activities
      BY <2>4 DEF CutoverInv, Staging, Tables
    <2>6. /\ Copied.records = d.records \cup run.staged.records
          /\ Copied.activities = d.activities \cup run.staged.activities
      BY CommittedTables DEF Copied
    <2>7. /\ \A x, y \in Copied.records : x.project = y.project => x = y
          /\ \A x \in Copied.records : x.id[1] = x.project
      BY <1>4 DEF Proper, Rowwise
    <2>8. /\ \A x \in s.activities : \E r \in s.records : r.id = x.record
          /\ \A x \in d.activities : \E r \in d.records : r.id = x.record
      BY <1>4 DEF Proper, Linked, IdsOf
    <2> HIDE DEF s, d
    <2>9. \A x, y \in Copied.records : x.id = y.id => x = y
      BY <2>7
    <2>10. ASSUME NEW r \in Copied.records
           PROVE  /\ \E x \in Copied.activities : x.record = r.id /\ x.id = r.at
                  /\ \A x \in Copied.activities : x.record = r.id => x.id <= r.at
      <3>1. \A x \in s.activities : x.record = r.id => r \in s.records
        BY <2>4, <2>8, <2>9
      <3>2. \A x \in d.activities : x.record = r.id => r \in d.records
        BY <2>6, <2>8, <2>9
      <3>3. \E x \in Copied.activities : x.record = r.id /\ x.id = r.at
        BY <2>2, <2>4, <2>5, <2>6 DEF Agree
      <3>4. \A x \in Copied.activities : x.record = r.id => x.id <= r.at
        BY <2>2, <2>5, <2>6, <3>1, <3>2 DEF Agree
      <3>5. QED BY <3>3, <3>4
    <2>11. QED BY <2>2, <2>10 DEF Agree
  <1>15. Typed'
    <2>1. db' \in [Sites -> Databases]
      BY <1>1, <1>2, <1>5
    <2>2. tainted' \in BOOLEAN
      BY <1>1
    <2>3. QED BY <1>1, <1>6, <2>1, <2>2 DEF CutoverInv, Typed
  <1>16. QED BY <1>9, <1>11, <1>12, <1>13, <1>14, <1>15 DEF CutoverInv

(* A step of the verification changes nothing else.                        *)
LEMMA VerifyKeeps ==
    ASSUME CutoverInv, NEW r, Step(r), r \in Runs, run.pc \in Verifying,
           r.staged = run.staged, r.source = run.source, r.pc \in Verifying,
           r.warned = run.warned, r.dryRun = run.dryRun, Verified'
    PROVE  CutoverInv'
  <1>1. /\ UNCHANGED <<db, running, clock, used, torn, tainted, runs, crashes>>
        /\ run' = r
    BY DEF Step, Bounds
  <1>2. Copied' = Copied
    BY <1>1 DEF Copied
  <1>3. Stores'
    BY <1>1, <1>2 DEF CutoverInv, Stores
  <1>4. \A t \in Tables : HasRead(t) /\ HasRead(t)' /\ HasStaged(t) /\ HasStaged(t)'
    BY <1>1 DEF HasRead, HasStaged, Tables, Verifying
  <1>5. Staging'
    BY <1>1, <1>4 DEF CutoverInv, Staging, At, Verifying
  <1>6. Copying'
    BY <1>1, <1>2, <1>4 DEF CutoverInv, Copying
  <1>7. Typed'
    BY <1>1 DEF CutoverInv, Typed
  <1>8. QED BY <1>1, <1>3, <1>5, <1>6, <1>7 DEF CutoverInv

LEMMA ListIdsKeeps ==
    ASSUME CutoverInv, listIds
    PROVE  CutoverInv'
  <1> DEFINE ids == [projects |-> IdsOf(db["postgres"].projects),
                     records |-> IdsOf(db["postgres"].records)]
  <1>1. PICK r : r = [run EXCEPT !.pc = "orphans", !.ids = ids]
    OBVIOUS
  <1>2. Step(r) /\ run.pc = "listIds"
    BY <1>1, Zenon DEF listIds, At
  <1>3. run \in Runs /\ db["postgres"] \in Databases
    BY SitesFacts DEF CutoverInv, Typed
  <1>4. ids \in [projects : SUBSET Projects, records : SUBSET RecordIds]
    BY <1>3 DEF Databases, IdsOf, ProjectRows, RecordRows
  <1> HIDE DEF ids
  <1>5. /\ r \in Runs /\ r.pc = "orphans" /\ r.ids = ids /\ r.staged = run.staged
        /\ r.source = run.source /\ r.warned = run.warned /\ r.dryRun = run.dryRun
    BY <1>1, <1>3, <1>4 DEF Runs
  <1>6. UNCHANGED db /\ run' = r
    BY <1>2 DEF Step
  <1>7. Verified'
    BY <1>5, <1>6 DEF Verified, At, ids
  <1>8. QED BY <1>2, <1>5, <1>7, VerifyKeeps DEF Verifying

LEMMA OrphansKeeps ==
    ASSUME CutoverInv, computeOrphanChecks
    PROVE  CutoverInv'
  <1> DEFINE d == db["postgres"]
  <1>1. PICK o : o = (\/ \E x \in d.snapshots : x.project \notin run.ids.projects
                      \/ \E x \in d.records : x.project \notin run.ids.projects
                      \/ \E x \in d.activities : x.record \notin run.ids.records)
    OBVIOUS
  <1>2. PICK r : r = [run EXCEPT !.pc = "revisions", !.orphans = o]
    OBVIOUS
  <1>3. Step(r) /\ run.pc = "orphans"
    BY <1>1, <1>2, Zenon DEF computeOrphanChecks, At
  <1>4. run \in Runs /\ o \in BOOLEAN
    BY <1>1 DEF CutoverInv, Typed
  <1>5. /\ r \in Runs /\ r.pc = "revisions" /\ r.ids = run.ids /\ r.orphans = o
        /\ r.staged = run.staged /\ r.source = run.source /\ r.warned = run.warned
        /\ r.dryRun = run.dryRun
    BY <1>2, <1>4 DEF Runs
  <1>6. UNCHANGED <<db, torn>> /\ run' = r
    BY <1>3 DEF Step
  <1>7. ASSUME ~torn PROVE ~o
    <2>1. run.ids.projects = IdsOf(d.projects) /\ run.ids.records = IdsOf(d.records)
      BY <1>3, <1>7 DEF CutoverInv, Verified
    <2>2. Linked(d)
      BY SitesFacts DEF CutoverInv, Stores, Proper
    <2>3. QED BY <1>1, <2>1, <2>2 DEF Linked
  <1>8. Verified'
    <2>1. ~torn => run.ids = [projects |-> IdsOf(d.projects), records |-> IdsOf(d.records)]
      BY <1>3 DEF CutoverInv, Verified
    <2>2. QED BY <1>5, <1>6, <1>7, <2>1 DEF Verified, At
  <1>9. QED BY <1>3, <1>5, <1>8, VerifyKeeps DEF Verifying

LEMMA SampledFromRows ==
    ASSUME NEW rows, NEW sample \in Samples(rows)
    PROVE  sample \subseteq rows
  BY DEF Samples, kSubset

LEMMA RevisionsKeeps ==
    ASSUME CutoverInv, computeSampleProjectRevisionChecks
    PROVE  CutoverInv'
  <1> DEFINE d == db["postgres"]
  <1>1. PICK sample \in Samples(run.source.projects) :
            Step([run EXCEPT !.pc = "done", !.mismatch =
                    \E x \in sample : ~\E y \in d.projects : y.id = x.id /\ y.revision = x.revision])
    BY DEF computeSampleProjectRevisionChecks
  <1>2. PICK m : m = \E x \in sample : ~\E y \in d.projects : y.id = x.id /\ y.revision = x.revision
    OBVIOUS
  <1>3. PICK r : r = [run EXCEPT !.pc = "done", !.mismatch = m]
    OBVIOUS
  <1>4. Step(r) /\ run.pc = "revisions"
    BY <1>1, <1>2, <1>3, Zenon DEF computeSampleProjectRevisionChecks, At
  <1>5. run \in Runs /\ m \in BOOLEAN
    BY <1>2 DEF CutoverInv, Typed
  <1>6. /\ r \in Runs /\ r.pc = "done" /\ r.ids = run.ids /\ r.orphans = run.orphans
        /\ r.mismatch = m
        /\ r.staged = run.staged /\ r.source = run.source /\ r.warned = run.warned
        /\ r.dryRun = run.dryRun
    BY <1>3, <1>5 DEF Runs
  <1>7. UNCHANGED <<db, torn>> /\ run' = r
    BY <1>4 DEF Step
  <1>8. ASSUME ~torn, ~run.warned, ~run.dryRun PROVE ~m
    <2>1. run.staged = Empty
      BY <1>4 DEF CutoverInv, Staging, Verifying
    <2>2. Copied = d
      <3>1. d \in Databases
        BY SitesFacts DEF CutoverInv, Typed
      <3>2. QED BY <2>1, <3>1, CommittedNothing DEF Copied
    <2>3. run.source.projects \subseteq d.projects
      <3>1. HasStaged("projects") /\ "projects" \in Tables
        BY <1>4 DEF HasStaged, Verifying, Tables
      <3>2. run.source["projects"] \subseteq Copied["projects"]
        BY <1>8, <3>1 DEF CutoverInv, Copying
      <3>3. QED BY <2>2, <3>2
    <2>4. QED BY <1>2, <2>3, SampledFromRows
  <1>9. Verified'
    BY <1>4, <1>6, <1>7, <1>8 DEF CutoverInv, Verified, At
  <1>10. QED BY <1>4, <1>6, <1>9, VerifyKeeps DEF Verifying
----
LEMMA OperateKeeps ==
    ASSUME CutoverInv, Operate
    PROVE  CutoverInv'
  <1>1. /\ UNCHANGED <<db, run, clock, used, torn, tainted, runs, crashes>>
        /\ running' \in Sites \cup {None}
    BY DEF Operate, Bounds
  <1>2. Copied' = Copied
    BY <1>1 DEF Copied
  <1>3. Typed' /\ Stores'
    BY <1>1, <1>2 DEF CutoverInv, Typed, Stores
  <1>4. Staging' /\ Copying' /\ Verified'
    BY <1>1, <1>2 DEF CutoverInv, Staging, Copying, Verified, HasRead, HasStaged, At
  <1>5. QED BY <1>1, <1>3, <1>4 DEF CutoverInv, Agree

LEMMA StutterKeeps ==
    ASSUME CutoverInv, UNCHANGED vars
    PROVE  CutoverInv'
  <1>1. UNCHANGED <<db, running, run, clock, used, torn, tainted, runs, crashes>>
    BY DEF vars
  <1>2. Copied' = Copied
    BY <1>1 DEF Copied
  <1>3. Typed' /\ Stores'
    BY <1>1, <1>2 DEF CutoverInv, Typed, Stores
  <1>4. Staging' /\ Copying' /\ Verified'
    BY <1>1, <1>2 DEF CutoverInv, Staging, Copying, Verified, HasRead, HasStaged, At
  <1>5. QED BY <1>1, <1>3, <1>4 DEF CutoverInv, Agree

LEMMA CutoverInvHoldsInitially ==
    ASSUME Init
    PROVE  CutoverInv
  <1>1. /\ Empty.projects = {} /\ Empty.snapshots = {}
        /\ Empty.records = {} /\ Empty.activities = {}
        /\ Empty \in Databases
        /\ \A t \in Tables : Empty[t] = {}
    BY DEF Empty, Databases, Tables
  <1>2. /\ Proper(Empty, 0, {}) /\ Rowwise(Empty, 0, {}) /\ Same(Empty, Empty) /\ Agree(Empty)
    BY <1>1 DEF Proper, Rowwise, Linked, Same, Agree
  <1>3. /\ run = NoRun /\ clock = 0 /\ used = {} /\ tainted = FALSE /\ torn = FALSE
        /\ \A s \in Sites : db[s] = Empty
        /\ db["sqlite"] = Empty /\ db["postgres"] = Empty
    BY SitesFacts DEF Init
  <1>4. Copied = Empty
    BY <1>1, <1>3, NoRunTyped, CommittedNothing DEF Copied
  <1>5. Typed
    <2>1. db \in [Sites -> Databases] /\ running \in Sites
      BY <1>1, SitesFacts DEF Init
    <2>2. clock \in 0..MaxWrites /\ runs \in 0..MaxRuns /\ crashes \in 0..MaxCrashes
      BY CutoverAssumption, SMT DEF Init
    <2>3. torn \in BOOLEAN /\ tainted \in BOOLEAN
      BY Zenon DEF Init
    <2>4. QED BY <1>3, <2>1, <2>2, <2>3, NoRunTyped DEF Typed
  <1>6. Stores
    BY <1>2, <1>3, <1>4, NoRunTyped DEF Stores
  <1>7. Staging
    BY <1>1, <1>3, NoRunTyped DEF Staging, At
  <1>8. Copying /\ Verified
    BY <1>3, NoRunTyped DEF Copying, Verified, HasRead, HasStaged, Tables, Verifying, At
  <1>9. QED BY <1>2, <1>3, <1>5, <1>6, <1>7, <1>8 DEF CutoverInv

LEMMA NextKeeps ==
    ASSUME CutoverInv, [Next]_vars
    PROVE  CutoverInv'
  <1>1. CASE migrateSqliteToPostgres
    BY <1>1, StartKeeps
  <1>2. CASE readSource
    BY <1>2, ReadSourceKeeps
  <1>3. CASE migrateProjectsTable
    BY <1>3, MigrateProjectsKeeps
  <1>4. CASE migrateProjectSnapshotsTable
    BY <1>4, MigrateSnapshotsKeeps
  <1>5. CASE migrateControlRecordsTable
    BY <1>5, MigrateRecordsKeeps
  <1>6. CASE migrateControlActivitiesTable
    BY <1>6, MigrateActivitiesKeeps
  <1>7. CASE commit
    BY <1>7, CommitKeeps
  <1>8. CASE listIds
    BY <1>8, ListIdsKeeps
  <1>9. CASE computeOrphanChecks
    BY <1>9, OrphansKeeps
  <1>10. CASE computeSampleProjectRevisionChecks
    BY <1>10, RevisionsKeeps
  <1>11. CASE crash
    BY <1>11, CrashKeeps
  <1>12. CASE Operate
    BY <1>12, OperateKeeps
  <1>13. CASE \E s \in Sites : Application(s)
    BY <1>13, ApplicationKeeps, CutoverAssumption
  <1>14. CASE UNCHANGED vars
    BY <1>14, StutterKeeps
  <1>15. QED BY <1>1, <1>2, <1>3, <1>4, <1>5, <1>6, <1>7, <1>8, <1>9, <1>10, <1>11,
                <1>12, <1>13, <1>14 DEF Next, Tool

LEMMA CutoverInvariant ==
    Spec => []CutoverInv
  <1>1. Init => CutoverInv
    BY CutoverInvHoldsInitially
  <1>2. CutoverInv /\ [Next]_vars => CutoverInv'
    BY NextKeeps
  <1>3. QED BY <1>1, <1>2, PTL DEF Spec
----
(* Rows keep their content, whoever inserts others by their keys.          *)
LEMMA InsertionsKeep ==
    ASSUME NEW d, NEW c, NEW n, NEW U, Rowwise(c, n, U),
           d.projects \subseteq c.projects, d.snapshots \subseteq c.snapshots,
           d.records \subseteq c.records, d.activities \subseteq c.activities
    PROVE  AllKept(d, c)
  <1>1. \A x, y \in c.records : x.id = y.id => x = y
    BY DEF Rowwise
  <1>2. Kept(d.records, c.records)
    BY <1>1 DEF Kept
  <1>3. Kept(d.projects, c.projects) /\ Kept(d.snapshots, c.snapshots)
    BY DEF Kept, Rowwise
  <1>4. Kept(d.activities, c.activities)
    BY DEF Kept, Rowwise
  <1>5. QED BY <1>2, <1>3, <1>4 DEF AllKept

LEMMA StepsOnlyAdd ==
    ASSUME CutoverInv, [Next]_vars, clock' = clock
    PROVE  AllKept(db["postgres"], db'["postgres"])
  <1> DEFINE d == db["postgres"]
  <1>1. Rowwise(d, clock, used) /\ Rowwise(Copied, clock, used)
    BY SitesFacts DEF CutoverInv, Stores, Proper
  <1>2. CASE db' = db
    BY <1>1, <1>2, InsertionsKeep
  <1>3. CASE commit
    <2>1. db'["postgres"] = Copied
      BY <1>3, SitesFacts DEF commit, Copied, CutoverInv, Typed
    <2>2. /\ d.projects \subseteq Copied.projects /\ d.snapshots \subseteq Copied.snapshots
          /\ d.records \subseteq Copied.records /\ d.activities \subseteq Copied.activities
      BY CommittedTables DEF Copied
    <2>3. QED BY <1>1, <2>1, <2>2, InsertionsKeep
  <1>4. CASE \E s \in Sites : Application(s)
    <2>1. clock' = clock + 1 /\ clock \in Nat
      BY <1>4, ApplicationWrites DEF Write, Now, CutoverInv, Typed
    <2>2. QED BY <2>1
  <1>5. Next /\ ~commit /\ ~(\E s \in Sites : Application(s)) => db' = db
    <2>1. migrateSqliteToPostgres \/ readSource \/ listIds \/ computeOrphanChecks
            \/ computeSampleProjectRevisionChecks \/ crash \/ Operate => db' = db
      BY DEF migrateSqliteToPostgres, readSource, listIds, computeOrphanChecks,
             computeSampleProjectRevisionChecks, crash, Operate, Step
    <2>2. migrateProjectsTable \/ migrateProjectSnapshotsTable \/ migrateControlRecordsTable
            \/ migrateControlActivitiesTable => db' = db
      BY DEF migrateProjectsTable, migrateProjectSnapshotsTable, migrateControlRecordsTable,
             migrateControlActivitiesTable, Migrate, Throw, Step
    <2>3. QED BY <2>1, <2>2 DEF Next, Tool
  <1>6. QED BY <1>2, <1>3, <1>4, <1>5 DEF vars

LEMMA NewestIsMax ==
    ASSUME NEW d, Agree(d), NEW n, NEW U, Rowwise(d, n, U), MaxWrites \in Nat, NEW r \in d.records
    PROVE  r.at = Max({x.id : x \in {y \in d.activities : y.record = r.id}})
  <1> DEFINE S == {x.id : x \in {y \in d.activities : y.record = r.id}}
  <1>1. r.at \in S /\ \A y \in S : y <= r.at
    BY DEF Agree
  <1>2. S \subseteq Nat
    BY DEF Rowwise, Databases, ActivityRows, Times
  <1> HIDE DEF S
  <1>3. \A x \in S : (\A y \in S : x >= y) => x = r.at
    <2> SUFFICES ASSUME NEW x \in S, x >= r.at PROVE x = r.at
      BY <1>1
    <2>1. x <= r.at /\ x \in Nat /\ r.at \in Nat
      BY <1>1, <1>2
    <2>2. QED BY <2>1
  <1>4. \A y \in S : r.at >= y
    BY <1>1, <1>2
  <1>5. (CHOOSE x \in S : \A y \in S : x >= y) = r.at
    BY <1>1, <1>3, <1>4
  <1>6. QED BY <1>5 DEF Max, S
----
(* In every state the databases hold rows with their keys, and the tool is *)
(* at one of its places (sqlite-to-postgres.ts, schema.ts).                *)
THEOREM TypeCorrect ==
    Spec => []TypeOK
  <1>1. CutoverInv => TypeOK
    BY DEF CutoverInv, Typed, Stores, Proper, Rowwise, Linked, KeysHold, TypeOK
  <1>2. QED BY <1>1, CutoverInvariant, PTL

(* A run adds rows to the target and changes none, however it ends and     *)
(* whatever the application wrote on either side before                    *)
(* (sqlite-to-postgres.ts:133, 216).                                       *)
THEOREM RunsAddRows ==
    Spec => RunsOnlyAdd
  <1>1. CutoverInv /\ [Next]_vars
          => [clock' = clock => AllKept(db["postgres"], db'["postgres"])]_vars
    BY StepsOnlyAdd
  <1>2. QED BY <1>1, CutoverInvariant, PTL DEF Spec, RunsOnlyAdd

(* What a run reports is what it did: with no write beside it, no warning  *)
(* and no error, every row of the source is in the target and the          *)
(* verification finds nothing (sqlite-to-postgres.ts:207, 381, 684).       *)
THEOREM AcceptedCopiesAreFaithful ==
    Spec => []AcceptedCopyIsFaithful
  <1>1. CutoverInv => AcceptedCopyIsFaithful
    <2> SUFFICES ASSUME CutoverInv, At("done"), ~run.dryRun, ~run.warned, ~torn
                 PROVE  /\ \A t \in Tables : db["sqlite"][t] \subseteq db["postgres"][t]
                        /\ ~run.orphans /\ ~run.mismatch
      BY DEF AcceptedCopyIsFaithful, Tables
    <2>1. \A t \in Tables : HasRead(t) /\ HasStaged(t)
      BY DEF HasRead, HasStaged, Tables, Verifying, At
    <2>2. run.staged = Empty /\ db["postgres"] \in Databases
      BY SitesFacts DEF CutoverInv, Staging, Typed, Verifying, At
    <2>3. Copied = db["postgres"]
      BY <2>2, CommittedNothing DEF Copied
    <2>4. \A t \in Tables : db["sqlite"][t] \subseteq db["postgres"][t]
      BY <2>1, <2>3 DEF CutoverInv, Copying
    <2>5. ~run.orphans /\ ~run.mismatch
      BY DEF CutoverInv, Verified, At
    <2>6. QED BY <2>4, <2>5
  <1>2. QED BY <1>1, CutoverInvariant, PTL

(* In both databases a control record is the one that its newest activity  *)
(* left, until a run is committed that had warned or that had read while   *)
(* the application wrote (sqlite-to-postgres.ts:381, 642).                 *)
THEOREM TimelinesAgreeThroughRuns ==
    Spec => []TimelinesAgree
  <1>1. CutoverInv => TimelinesAgree
    BY NewestIsMax, CutoverAssumption DEF CutoverInv, Stores, Proper, TimelinesAgree
  <1>2. QED BY <1>1, CutoverInvariant, PTL
====
