---- MODULE Evidence ----
(***************************************************************************)
(* One evidence item of a living project: its row, its uploaded versions,  *)
(* the files they point to in the storage provider, its links to controls  *)
(* and the activity the links leave on the control timelines.  The         *)
(* database and the storage cannot commit together, and the services open  *)
(* a transaction in two places only (create, insertVersionAndSetCurrent),  *)
(* so server actions interleave and die between statements.                *)
(*                                                                         *)
(* Abstractions.  A version's id, its storage key and its file are one     *)
(* number, drawn from "uploads".  getById's two SELECTs are one step, and  *)
(* so is a transaction whose effects nobody sees before its COMMIT.  Of an *)
(* item's fields only the status is kept; the others travel with it.  The  *)
(* timeline of a control is the set of kinds of activity on it.            *)
(* Operators named Faulty... are not the code: see ProjectStore.           *)
(***************************************************************************)
EXTENDS Naturals, FiniteSets, FiniteSetsExt

CONSTANTS Clients,      \* server actions that may be in flight at once
          Controls,     \* controls of the project's framework
          None,
          MaxUploads, MaxFailures   \* bounds of the model

VARIABLES item,         \* the row of table evidence
          versions,     \* the rows of table evidence_versions
          links,        \* evidence_controls: the controls linked
          files,        \* keys present in object storage
          uploads,      \* version ids drawn so far
          records,      \* controls that have a row in control_records
          noted,        \* per control, the kinds of link activity recorded
          req,          \* per client, the server action it has in flight
          failures,     \* crashes, and calls of storage or database that threw
          beaten        \* controls left without their activity by a request
                        \* that lost the race for a control record (history)

vars == <<item, versions, links, files, uploads, records, noted, req, failures,
          beaten>>

Statuses == {"draft", "active", "archived"}
Items == [status : Statuses \cup {"unborn", "deleted"}, current : Nat]
Exists == item.status \in Statuses

Versions == [number : Nat \ {0}, file : Nat \ {0}]
Highest == IF versions = {} THEN 0 ELSE Max({v.number : v \in versions})

Kinds == {"create", "upload", "update", "delete", "link", "unlink"}
Steps == {"idle", "insert", "find", "put", "number", "publish", "reread", "clean",
          "keys", "clear", "erase", "remove", "sweep", "check", "write", "reget",
          "record", "newRecord", "note", "done"}
Outcomes == {"ok", "not-found", "not-deletable", "archived", "storage", "error"}

ASSUME EvidenceAssumption ==
    /\ MaxUploads \in Nat /\ MaxFailures \in Nat
    /\ IsFiniteSet(Controls)
    /\ None \notin Controls \cup Kinds \cup Outcomes \cup Statuses

Requests ==
    [pc : Steps, kind : Kinds \cup {None},
     file : Nat, number : Nat,            \* the version being uploaded
     keys : SUBSET Nat,                   \* storageKeys of deleteDraft
     status : Statuses \cup {None},       \* the status to write
     control : Controls \cup {None},
     todo : SUBSET Controls,              \* controls still to be noted
     note : {"added", "removed", None},
     outcome : Outcomes \cup {None}]

Idle == [pc |-> "idle", kind |-> None, file |-> 0, number |-> 0, keys |-> {},
         status |-> None, control |-> None, todo |-> {}, note |-> None,
         outcome |-> None]

TypeOK ==
    /\ item \in Items
    /\ versions \subseteq Versions
    /\ links \subseteq Controls /\ records \subseteq Controls /\ beaten \subseteq Controls
    /\ files \subseteq 1..uploads /\ uploads \in Nat /\ failures \in Nat
    /\ noted \in [Controls -> SUBSET {"added", "removed"}]
    /\ req \in [Clients -> Requests]
----
Init ==
    /\ item = [status |-> "unborn", current |-> 0]
    /\ versions = {} /\ links = {} /\ files = {} /\ uploads = 0
    /\ records = {}
    /\ noted = [k \in Controls |-> {}]
    /\ req = [c \in Clients |-> Idle]
    /\ failures = 0
    /\ beaten = {}

At(c, kind, pc) == req[c].kind = kind /\ req[c].pc = pc
Busy(c) == req[c].pc \notin {"idle", "done"}
Set(c, r) == req' = [req EXCEPT ![c] = r]
GoTo(c, pc) == Set(c, [req[c] EXCEPT !.pc = pc])
End(c, outcome) ==
    LET r == req[c] IN
    Set(c, [Idle EXCEPT !.pc = "done", !.kind = r.kind, !.file = r.file,
                        !.number = r.number, !.outcome = outcome])
Tables == <<item, versions, links, records, noted, beaten>>

Start(c, r) ==
    /\ req[c].pc = "idle"
    /\ Set(c, r)
    /\ UNCHANGED <<Tables, files, uploads, failures>>

Call(c, kind) == Start(c, [Idle EXCEPT !.pc = "find", !.kind = kind])

(* The model follows one item, so one create at a time.                    *)
create(c) ==
    /\ item.status = "unborn" /\ \A d \in Clients : req[d].kind # "create"
    /\ \E status \in {"draft", "active"}, ks \in SUBSET Controls :
          Start(c, [Idle EXCEPT !.pc = "insert", !.kind = "create", !.todo = ks,
                                !.status = status, !.note = "added"])

(* The others come from pages that list the item, perhaps stale by now.    *)
uploadVersion(c) == item.status # "unborn" /\ Call(c, "upload")

(* A status may be given or left out: archive gives "archived".            *)
update(c) ==
    /\ item.status # "unborn"
    /\ \E status \in Statuses \cup {None} :
          Start(c, [Idle EXCEPT !.pc = "find", !.kind = "update", !.status = status])

deleteDraft(c) == item.status # "unborn" /\ Call(c, "delete")

associate(c) ==
    /\ item.status # "unborn"
    /\ \E k \in Controls :
          Start(c, [Idle EXCEPT !.pc = "find", !.kind = "link", !.control = k,
                                !.todo = {k}, !.note = "added"])

dissociate(c) ==
    /\ item.status # "unborn"
    /\ \E k \in Controls :
          Start(c, [Idle EXCEPT !.pc = "find", !.kind = "unlink", !.control = k,
                                !.todo = {k}, !.note = "removed"])

(* The repository's create is one transaction: the row and its links.      *)
insertItem(c) ==
    LET r == req[c] IN
    /\ At(c, "create", "insert")
    /\ item.status = "unborn"
    /\ item' = [status |-> r.status, current |-> 0]
    /\ links' = r.todo
    /\ IF r.todo = {} THEN End(c, "ok") ELSE GoTo(c, "record")
    /\ UNCHANGED <<versions, files, uploads, records, noted, failures, beaten>>

(* What each service does with the item that getById returned.  update     *)
(* will write back the status it read unless it was given one.             *)
Found(c) ==
    LET r == req[c] IN
    CASE r.kind = "upload" -> GoTo(c, "put")
      [] r.kind = "update" ->
           Set(c, [r EXCEPT !.pc = "write",
                            !.status = IF @ = None THEN item.status ELSE @])
      [] r.kind = "delete" ->
           IF item.status # "draft" \/ links # {}
           THEN End(c, "not-deletable") ELSE GoTo(c, "keys")
      [] r.kind = "link" ->
           IF r.control \in links THEN End(c, "ok")
           ELSE IF item.status = "archived" THEN End(c, "archived")
           ELSE GoTo(c, "check")
      [] r.kind = "unlink" ->
           IF r.control \in links THEN GoTo(c, "check") ELSE End(c, "ok")

getById(c) ==
    /\ req[c].pc = "find"
    /\ IF Exists THEN Found(c) ELSE End(c, "not-found")
    /\ UNCHANGED <<Tables, files, uploads, failures>>
----
(* Upload: the file first, then the row and the pointer in a transaction.  *)

put(c) ==
    /\ At(c, "upload", "put")
    /\ uploads < MaxUploads
    /\ uploads' = uploads + 1
    /\ files' = files \cup {uploads'}
    /\ Set(c, [req[c] EXCEPT !.pc = "number", !.file = uploads'])
    /\ UNCHANGED <<Tables, failures>>

NextNumber == Highest + 1

(* The transaction reads the parent and the highest number.                *)
readNumber(c) ==
    /\ At(c, "upload", "number")
    /\ IF Exists
       THEN Set(c, [req[c] EXCEPT !.pc = "publish", !.number = NextNumber])
       ELSE GoTo(c, "clean")
    /\ UNCHANGED <<Tables, files, uploads, failures>>

(* The foreign key to evidence, and UNIQUE (evidence_id, version_number):  *)
(* an INSERT that meets an uncommitted one of the same number waits for it. *)
InsertFails(r) == ~ Exists \/ \E v \in versions : v.number = r.number

(* VersionsAreConsistent: the pointer is set by the first version only.          *)
FaultyPublished(r) ==
    /\ versions' = versions \cup {[number |-> r.number, file |-> r.file]}
    /\ item' = [item EXCEPT !.current = IF @ = 0 THEN r.file ELSE @]

Published(r) ==
    /\ versions' = versions \cup {[number |-> r.number, file |-> r.file]}
    /\ item' = [item EXCEPT !.current = r.file]

(* UploadAnswersAreTrue: a refused INSERT goes the way of an accepted one. *)
FaultyAfterRefusal == "reread"
AfterRefusal == "clean"

publish(c) ==
    /\ At(c, "upload", "publish")
    /\ IF InsertFails(req[c])
       THEN GoTo(c, AfterRefusal) /\ UNCHANGED <<item, versions>>
       ELSE GoTo(c, "reread") /\ Published(req[c])
    /\ UNCHANGED <<links, records, noted, files, uploads, failures, beaten>>

reread(c) ==
    /\ At(c, "upload", "reread")
    /\ End(c, IF Exists THEN "ok" ELSE "not-found")
    /\ UNCHANGED <<Tables, files, uploads, failures>>

(* FilesMatchVersions: nothing is discarded.                               *)
FaultyDiscardNothing(r) == {}

(* The files the catch block deletes.                                      *)
Discarded(r) == {r.file}

clean(c) ==
    /\ At(c, "upload", "clean")
    /\ files' = files \ Discarded(req[c])
    /\ End(c, "storage")
    /\ UNCHANGED <<Tables, uploads, failures>>
----
(* Deletion of a draft: keys, pointer, row (versions and links cascade),   *)
(* then the files one by one.                                              *)

listStorageKeys(c) ==
    /\ At(c, "delete", "keys")
    /\ Set(c, [req[c] EXCEPT !.pc = "clear", !.keys = {v.file : v \in versions}])
    /\ UNCHANGED <<Tables, files, uploads, failures>>

clearCurrent(c) ==
    /\ At(c, "delete", "clear")
    /\ item' = [item EXCEPT !.current = 0]    \* finding no row is no error
    /\ GoTo(c, "erase")
    /\ UNCHANGED <<versions, links, records, noted, files, uploads, failures, beaten>>

(* The repository's delete: read the item once more, then DELETE by id.    *)
eraseItem(c) ==
    /\ At(c, "delete", "erase")
    /\ IF Exists THEN GoTo(c, "remove") ELSE End(c, "not-found")
    /\ UNCHANGED <<Tables, files, uploads, failures>>

removeItem(c) ==
    /\ At(c, "delete", "remove")
    /\ item' = [status |-> "deleted", current |-> 0]
    /\ versions' = {} /\ links' = {}
    /\ IF req[c].keys = {} THEN End(c, "ok") ELSE GoTo(c, "sweep")
    /\ UNCHANGED <<records, noted, files, uploads, failures, beaten>>

Swept(c, key) ==
    IF req[c].keys = {key} THEN End(c, "ok")
                           ELSE Set(c, [req[c] EXCEPT !.keys = @ \ {key}])

cleanupStorageForEvidence(c) ==
    /\ At(c, "delete", "sweep")
    /\ \E key \in req[c].keys : files' = files \ {key} /\ Swept(c, key)
    /\ UNCHANGED <<Tables, uploads, failures>>
----
(* Metadata and links.                                                     *)

(* An UPDATE by id alone: one that finds no row is answered ok as well.    *)
writeUpdate(c) ==
    /\ At(c, "update", "write")
    /\ item' = IF Exists THEN [item EXCEPT !.status = req[c].status] ELSE item
    /\ End(c, "ok")
    /\ UNCHANGED <<versions, links, records, noted, files, uploads, failures, beaten>>

(* The repository's associate and dissociate read the item a second time.  *)
(* The service does not look at what dissociate returns.                   *)
checkAgain(c) ==
    LET linked == Exists /\ req[c].control \in links IN
    /\ req[c].pc = "check"
    /\ IF req[c].kind = "unlink" THEN GoTo(c, IF linked THEN "write" ELSE "record")
       ELSE IF ~ Exists THEN End(c, "not-found")
       ELSE GoTo(c, IF linked THEN "reget" ELSE "write")
    /\ UNCHANGED <<Tables, files, uploads, failures>>

insertLink(c) ==
    LET r == req[c] IN
    /\ At(c, "link", "write")
    /\ IF ~ Exists \/ r.control \in links
       THEN End(c, "error") /\ UNCHANGED links
       ELSE links' = links \cup {r.control} /\ GoTo(c, "reget")
    /\ UNCHANGED <<item, versions, records, noted, files, uploads, failures, beaten>>

deleteLink(c) ==
    /\ At(c, "unlink", "write")
    /\ links' = links \ {req[c].control}
    /\ GoTo(c, "record")
    /\ UNCHANGED <<item, versions, records, noted, files, uploads, failures, beaten>>

(* LinksAreAudited: associate is done once it has read the link back.      *)
FaultyGetAgain(c) ==
    /\ At(c, "link", "reget")
    /\ End(c, IF Exists THEN "ok" ELSE "not-found")
    /\ UNCHANGED <<Tables, files, uploads, failures>>

getAgain(c) ==
    /\ At(c, "link", "reget")
    /\ IF Exists THEN GoTo(c, "record") ELSE End(c, "not-found")
    /\ UNCHANGED <<Tables, files, uploads, failures>>

(* ensureControlRecord: SELECT, and INSERT if there was none.              *)
findRecord(c) ==
    /\ req[c].pc = "record"
    /\ \E k \in req[c].todo :
          Set(c, [req[c] EXCEPT !.control = k,
                                !.pc = IF k \in records THEN "note" ELSE "newRecord"])
    /\ UNCHANGED <<Tables, files, uploads, failures>>

(* UNIQUE (project_id, control_id) throws when another one came first.     *)
insertRecord(c) ==
    /\ req[c].pc = "newRecord"
    /\ IF req[c].control \in records
       THEN End(c, "error") /\ UNCHANGED records /\ beaten' = beaten \cup req[c].todo
       ELSE records' = records \cup {req[c].control} /\ GoTo(c, "note") /\ UNCHANGED beaten
    /\ UNCHANGED <<item, versions, links, noted, files, uploads, failures>>

appendLinkActivities(c) ==
    LET r == req[c] IN
    /\ r.pc = "note"
    /\ noted' = [noted EXCEPT ![r.control] = @ \cup {r.note}]
    /\ IF r.todo = {r.control} THEN End(c, "ok")
       ELSE Set(c, [r EXCEPT !.pc = "record", !.todo = @ \ {r.control}])
    /\ UNCHANGED <<item, versions, links, records, files, uploads, failures, beaten>>

(* The workspace's autosave inserts control records as well.               *)
recordElsewhere ==
    /\ \E k \in Controls \ records : records' = records \cup {k}
    /\ UNCHANGED <<item, versions, links, noted, files, uploads, req, failures, beaten>>
----
respond(c) ==
    /\ req[c].pc = "done" /\ Set(c, Idle)
    /\ UNCHANGED <<Tables, files, uploads, failures>>

Fails == failures < MaxFailures /\ failures' = failures + 1

(* The process dies, or a statement throws where nothing catches it.       *)
crash(c) ==
    /\ Busy(c) /\ Fails
    /\ End(c, "error")
    /\ UNCHANGED <<Tables, files, uploads>>

(* storage.put throws; the bytes may be there all the same.                *)
putFails(c) ==
    /\ At(c, "upload", "put") /\ uploads < MaxUploads /\ Fails
    /\ uploads' = uploads + 1
    /\ files' \in {files, files \cup {uploads'}}
    /\ End(c, "storage")
    /\ UNCHANGED Tables

(* The database throws inside uploadVersion's second try.  A COMMIT whose  *)
(* acknowledgement is lost has taken place.                                *)
databaseFails(c) ==
    /\ req[c].pc \in {"number", "publish", "reread"} /\ Fails
    /\ GoTo(c, "clean")
    /\ \/ UNCHANGED <<item, versions>>
       \/ At(c, "upload", "publish") /\ ~ InsertFails(req[c]) /\ Published(req[c])
    /\ UNCHANGED <<links, records, noted, files, uploads, beaten>>

(* storage.delete throws: logged, and otherwise ignored.                   *)
deleteFails(c) ==
    /\ Fails
    /\ \/ At(c, "upload", "clean") /\ End(c, "storage")
       \/ At(c, "delete", "sweep") /\ \E key \in req[c].keys : Swept(c, key)
    /\ UNCHANGED <<Tables, files, uploads>>

Next ==
    \/ \E c \in Clients :
          \/ create(c) \/ uploadVersion(c) \/ update(c) \/ deleteDraft(c)
          \/ associate(c) \/ dissociate(c) \/ insertItem(c) \/ getById(c)
          \/ put(c) \/ readNumber(c) \/ publish(c) \/ reread(c) \/ clean(c)
          \/ listStorageKeys(c) \/ clearCurrent(c) \/ eraseItem(c) \/ removeItem(c)
          \/ cleanupStorageForEvidence(c) \/ writeUpdate(c) \/ checkAgain(c)
          \/ insertLink(c) \/ deleteLink(c) \/ getAgain(c) \/ findRecord(c)
          \/ insertRecord(c) \/ appendLinkActivities(c) \/ respond(c)
          \/ crash(c) \/ putFails(c) \/ databaseFails(c) \/ deleteFails(c)
    \/ recordElsewhere

Spec == Init /\ [][Next]_vars
----
(* Properties.                                                             *)

(* Versions are numbered 1, 2, 3 ... without a gap or a repetition.        *)
VersionsAreNumbered ==
    /\ {v.number : v \in versions} = 1..Cardinality(versions)
    /\ \A v, w \in versions : v.file = w.file => v = w

(* The current version is the highest one.  Only a deletion under way, or  *)
(* one that died, leaves versions without a current one.                   *)
CurrentIsNewest ==
    Exists /\ versions # {} =>
        \/ [number |-> Highest, file |-> item.current] \in versions
        \/ item.current = 0
             /\ \/ failures > 0
                \/ \E c \in Clients :
                      At(c, "delete", "erase") \/ At(c, "delete", "remove")

(* The versions of an item are numbered and the current one is the newest, *)
(* though concurrent uploads read the same maximum, failed ones roll back, *)
(* and a deletion clears the pointer first (evidence-version-repository.ts:123, *)
(* evidence-service.ts:233).                                               *)
VersionsAreConsistent == TypeOK /\ VersionsAreNumbered /\ CurrentIsNewest

InUse(f) ==
    \/ \E v \in versions : v.file = f
    \/ \E c \in Clients : req[c].file = f /\ Busy(c)

(* Files and versions disagree by failures only, one for each.  A version  *)
(* can lose its file to a failure, and then no other version loses its     *)
(* own: neither a deletion nor another upload's cleanup ever takes the     *)
(* file of a version that is still listed.  While the item lives, a file   *)
(* nobody refers to is the trace of a failure: an upload that loses the    *)
(* race for its number removes its file (evidence-version-service.ts:111). *)
FilesMatchVersions ==
    /\ Cardinality({v \in versions : v.file \notin files}) <= failures
    /\ Exists => Cardinality({f \in files : ~ InUse(f)}) <= failures

(* An upload answered ok is listed as long as the item lives; one answered *)
(* "storage" without a failure left neither a version nor a file.          *)
UploadAnswersAreTrue ==
    \A c \in Clients : LET r == req[c] IN
        /\ At(c, "upload", "done") /\ r.outcome = "ok" /\ Exists =>
             [number |-> r.number, file |-> r.file] \in versions
        /\ At(c, "upload", "done") /\ r.outcome = "storage" /\ failures = 0 =>
             r.file \notin files /\ \A v \in versions : v.file # r.file

(* A link that is on nobody's timeline, nor about to be put there, is the  *)
(* work of a failure or of the race in ensureControlRecord: its SELECT and *)
(* INSERT are two statements, and the link is in before they run.          *)
LinksAreAudited ==
    failures = 0 =>
        \A k \in links :
            \/ "added" \in noted[k]
            \/ k \in beaten
            \/ \E c \in Clients : req[c].note = "added" /\ k \in req[c].todo /\ Busy(c)
====
