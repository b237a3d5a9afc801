---- MODULE ControlReview ----
(***************************************************************************)
(* Control records of one project: metadata that the workspace autosaves   *)
(* in batches, a review status that moves along a fixed table, and the     *)
(* activity timeline.  Upserts and transitions run in a transaction under  *)
(* READ COMMITTED: a SELECT sees what is committed and locks nothing, an   *)
(* UPDATE or INSERT locks its row or key until the end, and its effect is  *)
(* seen after COMMIT.  Evidence, discussions and assignments create the    *)
(* records they need outside any transaction (ensureControlRecord).        *)
(*                                                                         *)
(* Abstractions.  The activities of one update, one per changed field, are *)
(* one entry that maps those fields to their new values; the activity of a *)
(* creation, which names no value, keeps those it was created with.  A     *)
(* timeline is in the order of the commits, which createdAt approximates.  *)
(* Operators named Faulty... are not the code: see ProjectStore.           *)
(***************************************************************************)
EXTENDS Naturals, Sequences, FiniteSets

CONSTANTS Clients,      \* server actions that may be in flight at once
          Controls,
          Fields,       \* owner, coOwner, businessUnit, ...
          Values,
          Default,      \* DEFAULT_CONTROL_RECORD_FIELDS
          None,
          MaxRequests,  \* bounds the controls that all requests name
          MaxFailures   \* bounds the failures

Statuses == {"not_reviewed", "ready_for_review", "under_review",
             "changes_requested", "approved"}

(* CONTROL_REVIEW_TRANSITIONS                                              *)
Transitions ==
    {[action |-> "submit",   from |-> "not_reviewed",      to |-> "ready_for_review"],
     [action |-> "start",    from |-> "ready_for_review",  to |-> "under_review"],
     [action |-> "approve",  from |-> "under_review",      to |-> "approved"],
     [action |-> "request",  from |-> "under_review",      to |-> "changes_requested"],
     [action |-> "resubmit", from |-> "changes_requested", to |-> "ready_for_review"],
     [action |-> "reopen",   from |-> "approved",          to |-> "ready_for_review"]}
Actions == {t.action : t \in Transitions}

Metadata == [Fields -> Values]                      \* ControlRecordFields
Records == [meta : Metadata, review : Statuses]
Entries == [type : {"created"}, newValue : Metadata]
             \cup [type : {"fields"}, newValue : UNION {[F -> Values] : F \in SUBSET Fields}]
             \cup [type : {"review"}, newValue : Statuses]
Inputs == [control : Controls, meta : Metadata]     \* UpsertControlRecordInput

ASSUME ReviewAssumption ==
    /\ Default \in Metadata
    /\ None \notin Controls \cup Clients \cup Records \cup Metadata \cup Statuses
    /\ IsFiniteSet(Controls)
    /\ MaxRequests \in Nat /\ MaxFailures \in Nat

VARIABLES records,      \* table control_records: a record per control, or None
          timeline,     \* table control_activities: per control, its entries
          lock,         \* the transaction that holds a control's row or key
          setBack,      \* history: per control, the fields set back in silence
          req,          \* per client, the server action it has in flight
          requests, failures

vars == <<records, timeline, lock, setBack, req, requests, failures>>

(* A statement on a control's record: None leaves columns alone, "read" is *)
(* the metadata that the activities were made from.                        *)
Writes == [insert : BOOLEAN, meta : Metadata \cup {None}, read : Metadata \cup {None},
           review : Statuses \cup {None}, entries : Seq(Entries)]
NoWrite == [insert |-> FALSE, meta |-> None, read |-> None, review |-> None,
            entries |-> <<>>]

Requests ==
    [pc : {"idle", "select", "write", "commit", "append", "done"},
     kind : {"upsert", "transition", "ensure", None},
     inputs : Seq(Inputs),                \* still to be upserted, in order
     control : Controls \cup {None},
     action : Actions \cup {None},
     expected : Statuses \cup {None},     \* expectedCurrentStatus
     write : Writes,                      \* the next statement
     pending : [Controls -> Writes],      \* executed and not yet committed
     outcome : {"ok", "conflict", "invalid-transition", "error", None}]

Idle == [pc |-> "idle", kind |-> None, inputs |-> <<>>, control |-> None,
         action |-> None, expected |-> None, write |-> NoWrite,
         pending |-> [k \in Controls |-> NoWrite], outcome |-> None]

TypeOK ==
    /\ records \in [Controls -> Records \cup {None}]
    /\ timeline \in [Controls -> Seq(Entries)]
    /\ lock \in [Controls -> Clients \cup {None}]
    /\ setBack \in [Controls -> SUBSET Fields]
    /\ req \in [Clients -> Requests]
    /\ requests \in Nat /\ failures \in Nat

Init ==
    /\ records = [k \in Controls |-> None]
    /\ timeline = [k \in Controls |-> <<>>]
    /\ lock = [k \in Controls |-> None]
    /\ setBack = [k \in Controls |-> {}]
    /\ req = [c \in Clients |-> Idle]
    /\ requests = 0 /\ failures = 0
----
At(c, pc) == req[c].pc = pc
Set(c, r) == req' = [req EXCEPT ![c] = r]
Tables == <<records, timeline, setBack>>

(* COMMIT and ROLLBACK release what the transaction locked.                *)
End(c, outcome) ==
    /\ Set(c, [Idle EXCEPT !.pc = "done", !.kind = req[c].kind, !.outcome = outcome])
    /\ lock' = [k \in Controls |-> IF lock[k] = c THEN None ELSE lock[k]]

(* A request that names n controls comes in.                               *)
Start(c, n, r) ==
    /\ At(c, "idle") /\ requests + n <= MaxRequests
    /\ requests' = requests + n
    /\ Set(c, [r EXCEPT !.pc = "select"])
    /\ UNCHANGED <<Tables, lock, failures>>

(* A batch names each control once, in the order of the page.              *)
upsertManyWithActivity(c) ==
    \E n \in 1..Cardinality(Controls) : \E batch \in [1..n -> Inputs] :
        /\ \A i, j \in 1..n : batch[i].control = batch[j].control => i = j
        /\ Start(c, n, [Idle EXCEPT !.kind = "upsert", !.inputs = batch])

StatusesOf(entries) ==
    {"not_reviewed"} \cup {entries[i].newValue : i \in {j \in DOMAIN entries :
                                                    entries[j].type = "review"}}

(* The caller saw a status that the control has had; which actions fit it  *)
(* is left to the service to check.                                        *)
transitionReviewStatus(c) ==
    \E k \in Controls, a \in Actions : \E e \in StatusesOf(timeline[k]) :
        Start(c, 1, [Idle EXCEPT !.kind = "transition", !.control = k,
                                 !.action = a, !.expected = e])

ensureControlRecord(c) ==
    \E k \in Controls : Start(c, 1, [Idle EXCEPT !.kind = "ensure", !.control = k])

Insert(meta, review, entries) ==
    [insert |-> TRUE, meta |-> meta, read |-> None, review |-> review,
     entries |-> <<[type |-> "created", newValue |-> meta]>> \o entries]
Review(to) == <<[type |-> "review", newValue |-> to]>>

(* The fields that differ, with their new values.                          *)
FieldChanges(previous, next) ==
    [f \in {g \in Fields : previous[g] # next[g]} |-> next[f]]

(* All fields are SET, those that differ get an activity.                  *)
Update(previous, next) ==
    [NoWrite EXCEPT !.meta = next, !.read = previous,
        !.entries = <<[type |-> "fields", newValue |-> FieldChanges(previous, next)]>>]

(* RecordsFollowActivity: the whole record that was read is written back.  *)
FaultyUpsertWrite(old, new) ==
    IF old = None THEN Insert(new, "not_reviewed", <<>>)
    ELSE IF old.meta = new THEN NoWrite
    ELSE [Update(old.meta, new) EXCEPT !.review = old.review]

(* What upsertOneInTransaction writes, given the record it has read.       *)
UpsertWrite(old, new) ==
    IF old = None THEN Insert(new, "not_reviewed", <<>>)
    ELSE IF old.meta = new THEN NoWrite
    ELSE Update(old.meta, new)

(* What transitionReviewInTransaction writes to reach status "to".         *)
TransitionWrite(old, to) ==
    IF old = None THEN Insert(Default, to, Review(to))
    ELSE [NoWrite EXCEPT !.review = to, !.entries = Review(to)]

Reviewed(old) == IF old = None THEN "not_reviewed" ELSE old.review

Legal(from, action) == {t \in Transitions : t.from = from /\ t.action = action}
----
(* A transaction goes on to its next input, or to its COMMIT.              *)
Advanced(r) ==
    IF r.kind = "upsert" /\ Len(r.inputs) > 1
    THEN [r EXCEPT !.pc = "select", !.inputs = Tail(@), !.write = NoWrite]
    ELSE [r EXCEPT !.pc = "commit", !.inputs = <<>>, !.write = NoWrite]

selectForUpsert(c) ==
    LET r == req[c]
        k == Head(r.inputs).control
        w == UpsertWrite(records[k], Head(r.inputs).meta) IN
    /\ At(c, "select") /\ r.kind = "upsert"
    /\ Set(c, IF w = NoWrite THEN Advanced(r)
              ELSE [r EXCEPT !.pc = "write", !.control = k, !.write = w])
    /\ UNCHANGED <<Tables, lock, requests, failures>>

selectForTransition(c) ==
    LET r == req[c]
        old == records[r.control]
        legal == Legal(Reviewed(old), r.action) IN
    /\ At(c, "select") /\ r.kind = "transition"
    /\ \/ /\ r.expected # Reviewed(old)
          /\ End(c, "conflict")
       \/ /\ r.expected = Reviewed(old) /\ legal = {}
          /\ End(c, "invalid-transition")
       \/ /\ r.expected = Reviewed(old)
          /\ \E t \in legal :
                Set(c, [r EXCEPT !.pc = "write",
                                 !.write = TransitionWrite(old, t.to)])
          /\ UNCHANGED lock
    /\ UNCHANGED <<Tables, requests, failures>>

selectForEnsure(c) ==
    LET r == req[c] IN
    /\ At(c, "select") /\ r.kind = "ensure"
    /\ \/ /\ records[r.control] # None
          /\ End(c, "ok")
       \/ /\ records[r.control] = None
          /\ Set(c, [r EXCEPT !.pc = "write"])
          /\ UNCHANGED lock
    /\ UNCHANGED <<Tables, requests, failures>>

(* OneCreation: a table without UNIQUE (project_id, control_id) would take *)
(* a second row; here it replaces the first.                               *)
FaultyRefused(r) == FALSE

(* UNIQUE (project_id, control_id) refuses the INSERT of a second record.  *)
Refused(r) == r.write.insert /\ records[r.control] # None

(* The statement waits while another transaction holds the row or key.  An *)
(* UPDATE then finds the row by its id, whatever its status is by now.     *)
writeRecord(c) ==
    LET r == req[c]
        k == r.control IN
    /\ At(c, "write") /\ r.kind # "ensure"
    /\ lock[k] \in {None, c}
    /\ IF Refused(r) THEN End(c, "error")
       ELSE /\ lock' = [lock EXCEPT ![k] = c]
            /\ Set(c, Advanced([r EXCEPT !.pending[k] = r.write]))
    /\ UNCHANGED <<Tables, requests, failures>>

Applied(old, w) ==
    IF w = NoWrite THEN old
    ELSE [meta   |-> IF w.meta = None THEN old.meta ELSE w.meta,
          review |-> IF w.review = None THEN old.review ELSE w.review]

(* Where entries of a type stand, where a field is mentioned, and the      *)
(* fields that are.                                                        *)
Positions(entries, type) == {i \in DOMAIN entries : entries[i].type = type}
Mentions(entries, f) == {i \in Positions(entries, "fields") : f \in DOMAIN entries[i].newValue}
Announced(entries) == {f \in Fields : Mentions(entries, f) # {}}

(* History, which no action looks at: the fields that batches have set     *)
(* back. A batch writes what it has read of a field that it does not       *)
(* change, although somebody else may have changed it since.               *)
SetBack(old, w, fields) ==
    IF w.read = None THEN fields
    ELSE (fields \cup {f \in Fields : old.meta[f] # w.read[f]}) \ Announced(w.entries)

commit(c) ==
    LET p == req[c].pending IN
    /\ At(c, "commit")
    /\ setBack' = [k \in Controls |-> SetBack(records[k], p[k], setBack[k])]
    /\ records' = [k \in Controls |-> Applied(records[k], p[k])]
    /\ timeline' = [k \in Controls |-> timeline[k] \o p[k].entries]
    /\ End(c, "ok")
    /\ UNCHANGED <<requests, failures>>

(* ensureControlRecord's INSERT commits by itself.                         *)
insertRecord(c) ==
    LET k == req[c].control IN
    /\ At(c, "write") /\ req[c].kind = "ensure"
    /\ lock[k] = None
    /\ \/ /\ records[k] # None
          /\ End(c, "error") /\ UNCHANGED records
       \/ /\ records[k] = None
          /\ records' = [records EXCEPT ![k] = [meta |-> Default, review |-> "not_reviewed"]]
          /\ Set(c, [req[c] EXCEPT !.pc = "append"])
          /\ UNCHANGED lock
    /\ UNCHANGED <<timeline, setBack, requests, failures>>

appendCreated(c) ==
    LET k == req[c].control IN
    /\ At(c, "append")
    /\ timeline' = [timeline EXCEPT ![k] = Append(@, [type |-> "created", newValue |-> Default])]
    /\ End(c, "ok")
    /\ UNCHANGED <<records, setBack, requests, failures>>

respond(c) ==
    /\ At(c, "done") /\ Set(c, Idle)
    /\ UNCHANGED <<Tables, lock, requests, failures>>

(* A statement throws or the process dies; the transaction rolls back.     *)
fail(c) ==
    /\ ~ At(c, "idle") /\ ~ At(c, "done")
    /\ failures < MaxFailures
    /\ failures' = failures + 1
    /\ End(c, "error")
    /\ UNCHANGED <<Tables, requests>>

Waiting(c) == At(c, "write") /\ lock[req[c].control] \notin {None, c}

(* PostgreSQL aborts one of the transactions that wait for each other.     *)
deadlockDetected(c) ==
    /\ \E S \in SUBSET Clients :
          /\ c \in S
          /\ \A d \in S : Waiting(d) /\ lock[req[d].control] \in S
    /\ End(c, "error")
    /\ UNCHANGED <<Tables, requests, failures>>

Next ==
    \E c \in Clients :
        \/ upsertManyWithActivity(c) \/ transitionReviewStatus(c)
        \/ ensureControlRecord(c) \/ selectForUpsert(c) \/ selectForTransition(c)
        \/ selectForEnsure(c) \/ writeRecord(c) \/ commit(c) \/ insertRecord(c)
        \/ appendCreated(c) \/ respond(c) \/ fail(c) \/ deadlockDetected(c)

Spec == Init /\ [][Next]_vars
----
(* Properties.                                                             *)

LastOf(positions) == {i \in positions : \A j \in positions : j <= i}

(* The review status is where the last review activity led.                *)
StatusFollows(record, entries) ==
    LET reviews == Positions(entries, "review") IN
    /\ \A i \in LastOf(reviews) : entries[i].newValue = record.review
    /\ reviews = {} => record.review = "not_reviewed"

(* A field is what the last activity about it says, or what the record was *)
(* created with.                                                           *)
FieldFollows(record, entries, f) ==
    LET about == Mentions(entries, f) IN
    \A i \in LastOf(IF about = {} THEN Positions(entries, "created") ELSE about) :
        entries[i].newValue[f] = record.meta[f]

Follows(record, entries, except) ==
    IF record = None THEN entries = <<>>
    ELSE /\ StatusFollows(record, entries)
         /\ \A f \in Fields \ except : FieldFollows(record, entries, f)

(* A record is what its timeline says, although autosaved batches and      *)
(* transitions update the same row from records that they read before      *)
(* another one committed. The status is exactly where the last review      *)
(* activity led, whatever batches do ("Metadata upsert never changes       *)
(* reviewStatus", control-record-service.ts:107). A field is what the last *)
(* activity about it says, with one exception: a batch that had read the   *)
(* record before somebody else changed the field, and does not change it   *)
(* itself, sets it back without an activity (183, 194), and so it stays    *)
(* until an activity names it again.                                       *)
RecordsFollowActivity ==
    \A k \in Controls : Follows(records[k], timeline[k], setBack[k])

AtMostOne(S) == \A x, y \in S : x = y

(* A control's record is created once, however many requests find it       *)
(* missing, and only an interrupted ensureControlRecord fails to say so.   *)
OneCreation ==
    \A k \in Controls :
        /\ AtMostOne(Positions(timeline[k], "created"))
        /\ records[k] # None /\ failures = 0 =>
             \/ Positions(timeline[k], "created") # {}
             \/ \E c \in Clients : At(c, "append") /\ req[c].control = k

(* "CONTROL_REVIEW_TRANSITIONS: canonical legal transitions": the status   *)
(* of a record moves along the table only.                                 *)
ReviewObeysTable ==
    [][\A k \in Controls :
         records[k] # None /\ records'[k] # None /\ records'[k].review # records[k].review =>
             \E t \in Transitions : t.from = records[k].review /\ t.to = records'[k].review]_vars
====
