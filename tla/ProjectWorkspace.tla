---- MODULE ProjectWorkspace ----
(***************************************************************************)
(* The project editor in the browser: several sessions of ProjectWorkspace *)
(* on one project.  Each keeps a working copy, the copy it believes saved  *)
(* and the revision it will send, autosaves after a pause, saves before it *)
(* restores a snapshot, and stops at a conflict.  The project document is  *)
(* written through the RevisionLog that ProjectStore implements; the       *)
(* control records are written by a second request without a revision.     *)
(*                                                                         *)
(* A page's code runs to completion between two awaits, so phase "top" and *)
(* op "go" are points inside one turn: no other event of that page happens *)
(* there (Turn).  A copy is the document and the control records.  Undo,   *)
(* redo and typing are all "edit".  Named versions and "Snapshot now" save *)
(* first as a restore does and write nothing to the log.  The server keeps *)
(* a document in normal form (it trims the name).  What the environment    *)
(* does of its own accord, and what could go on for ever, is taken from a  *)
(* budget.                                                                 *)
(***************************************************************************)
EXTENDS RevisionLog

CONSTANTS Sessions, Records, None,
          Normalized,           \* what the server makes of a document
          MaxSurprises          \* bound of the model

VARIABLES records,      \* the control records in the database
          editor,       \* per session, the refs and state of its page
          budget        \* surprises left

vars == <<log, live, call, records, editor, budget>>

(* One save and one restore request per session, abandoned ones included.  *)
ASSUME WorkspaceAssumption ==
    /\ Clients = Sessions \X {"save", "restore"}
    /\ None \notin Docs \cup Records \cup {"flush", "go", "restore"}
    /\ Normalized \in [Docs -> Docs]
    /\ \A d \in Docs : Normalized[Normalized[d]] = Normalized[d]
    /\ MaxSurprises \in Nat

Statuses == {"clean", "dirty", "saving", "saved", "error", "conflict"}
Copies == [doc : Docs, recs : Records]

Editors ==
    [working : Copies,                  \* workingCopyRef
     saved : Copies,                    \* savedCopyRef
     rev : Nat \ {0},                   \* revisionRef
     status : Statuses,                 \* autosaveStatusRef
     timer : BOOLEAN,                   \* debounceRef
     chain : Seq({"autosave", "ensure"}),        \* flushSave calls, first runs
     phase : {"idle", "top", "saving", "upserting", "upserted"},
     sent : Copies \cup {None},         \* "current" of doSaveLoop
     next : Copies \cup {None},         \* "nextSaved" of doSaveLoop
     op : {None, "flush", "go", "restore"},      \* handleRestore
     target : Docs \cup {None}]         \* the snapshot it restores

TypeOK ==
    /\ LogTypeOK
    /\ records \in Records
    /\ editor \in [Sessions -> Editors]
    /\ \A s \in Sessions :
          /\ editor[s].rev <= Len(log)
          /\ editor[s].phase = "idle" <=> editor[s].chain = <<>>
    /\ budget \in 0..MaxSurprises
----
Normal == {d \in Docs : Normalized[d] = d}
Stored == [doc |-> log[Len(log)], recs |-> records]

(* A page as the server renders it.                                        *)
Fresh == [working |-> Stored, saved |-> Stored, rev |-> Len(log),
          status |-> "clean", timer |-> FALSE, chain |-> <<>>,
          phase |-> "idle", sent |-> None, next |-> None,
          op |-> None, target |-> None]

Init ==
    /\ LogInit /\ log[1] \in Normal
    /\ records \in Records
    /\ editor = [s \in Sessions |-> Fresh]
    /\ budget = MaxSurprises

Spend == budget > 0 /\ budget' = budget - 1
Put(s, ed) == editor' = [editor EXCEPT ![s] = ed]
Turn(s) == editor[s].phase # "top" /\ editor[s].op # "go"

(* EditsSettle: the debounce is armed only by the edit that makes the page  *)
(* dirty, not by one that finds it in error.                                *)
FaultyScheduled(ed) ==
    [ed EXCEPT !.timer = @ \/ ed.status \in {"clean", "saved"},
               !.status = IF ed.working # ed.saved /\ @ # "conflict"
                          THEN "dirty" ELSE @]

(* scheduleAutosave.                                                       *)
Scheduled(ed) ==
    [ed EXCEPT !.timer = TRUE,
               !.status = IF ed.working # ed.saved /\ @ # "conflict"
                          THEN "dirty" ELSE @]

(* commitEdit, undo, redo.                                                 *)
edit(s) ==
    /\ Turn(s) /\ Spend
    /\ \E w \in Copies \ {editor[s].working} :
          Put(s, Scheduled([editor[s] EXCEPT !.working = w]))
    /\ UNCHANGED <<log, live, call, records>>

(* flushSave puts its loop at the end of saveChainRef.                     *)
Enqueued(ed, who) ==
    [ed EXCEPT !.chain = Append(@, who),
               !.phase = IF @ = "idle" THEN "top" ELSE @]

debounceFires(s) ==
    /\ Turn(s) /\ editor[s].timer
    /\ Put(s, Enqueued([editor[s] EXCEPT !.timer = FALSE], "autosave"))
    /\ UNCHANGED <<log, live, call, records, budget>>

NextPhase(chain) == IF Len(chain) = 1 THEN "idle" ELSE "top"

(* RestoreEnds: a failed flush leaves the restore waiting.                  *)
FaultyAfterFlush(op, who, ok) == IF who = "ensure" /\ ok THEN "go" ELSE op

(* ensurePersistedForDestructiveAction goes on only after a flush that was *)
(* ok.                                                                     *)
AfterFlush(op, who, ok) ==
    IF who # "ensure" THEN op ELSE IF ok THEN "go" ELSE None

(* One flushSave call returns; the next in the chain starts its loop.      *)
Finished(ed, status, ok) ==
    [ed EXCEPT !.status = status,
               !.chain = Tail(@),
               !.phase = NextPhase(ed.chain),
               !.op = AfterFlush(@, Head(ed.chain), ok),
               !.sent = None, !.next = None]

(* The top of doSaveLoop.                                                  *)
saveLoop(s) ==
    LET ed == editor[s]
        begun == [ed EXCEPT !.status = "saving", !.sent = ed.working,
                            !.next = ed.saved]
    IN
    /\ ed.phase = "top"
    /\ \/ /\ ed.status = "conflict"
          /\ Put(s, Finished(ed, "conflict", FALSE))
          /\ UNCHANGED <<log, live, call, budget>>
       \/ /\ ed.status # "conflict" /\ ed.working = ed.saved
          /\ Put(s, Finished(ed, "saved", TRUE))
          /\ UNCHANGED <<log, live, call, budget>>
       \/ /\ ed.status # "conflict" /\ ed.working.doc # ed.saved.doc
          /\ call[<<s, "save">>] = NotCalling
          /\ Begin(<<s, "save">>, ed.rev, Normalized[ed.working.doc])
          /\ Put(s, [begun EXCEPT !.phase = "saving"])
          /\ IF Normalized[ed.working.doc] = ed.saved.doc THEN Spend ELSE UNCHANGED budget
       \/ /\ ed.status # "conflict" /\ ed.working.doc = ed.saved.doc
          /\ ed.working # ed.saved
          /\ Put(s, [begun EXCEPT !.phase = "upserting"])
          /\ UNCHANGED <<log, live, call, budget>>
    /\ UNCHANGED records

(* SavedWasStored: edits made during the request are taken for saved.       *)
FaultySettled(ed) == Finished([ed EXCEPT !.saved = ed.next], "saved", TRUE)

(* Every request of this pass has succeeded: what was sent is the new      *)
(* savedCopy, and edits made meanwhile go round the loop again.            *)
Settled(ed) ==
    IF ed.working = ed.next
    THEN Finished([ed EXCEPT !.saved = ed.next], "saved", TRUE)
    ELSE [ed EXCEPT !.saved = ed.next, !.status = "dirty", !.phase = "top",
                    !.sent = None, !.next = None]

(* The answer of saveProjectAction.  The revision and the document adopted *)
(* are those sent back.  Then refreshSnapshots, which may throw, and the   *)
(* control records if they changed.                                        *)
saveAnswered(s) ==
    LET ed == editor[s]
        a == call[<<s, "save">>]
        adopted == [ed EXCEPT !.rev = a.rev, !.next.doc = log[a.rev]]
    IN
    /\ Turn(s) /\ ed.phase = "saving"
    /\ Return(<<s, "save">>)
    /\ \/ /\ a.outcome = "ok"
          /\ \/ /\ Put(s, IF ed.sent.recs # ed.next.recs
                          THEN [adopted EXCEPT !.phase = "upserting"]
                          ELSE Settled(adopted))
                /\ UNCHANGED budget
             \/ Put(s, Finished(adopted, "error", FALSE)) /\ Spend
       \/ /\ a.outcome # "ok"
          /\ Put(s, Finished(ed, IF a.outcome = "conflict" THEN "conflict" ELSE "error",
                             FALSE))
          /\ UNCHANGED budget
    /\ UNCHANGED records

(* upsertControlRecordsAction: one transaction, no revision.               *)
upsertRecords(s) ==
    /\ editor[s].phase = "upserting" /\ live
    /\ records' = editor[s].sent.recs
    /\ Put(s, [editor[s] EXCEPT !.phase = "upserted"])
    /\ UNCHANGED <<log, live, call, budget>>

upsertAnswered(s) ==
    /\ Turn(s) /\ editor[s].phase = "upserted"
    /\ Put(s, Settled([editor[s] EXCEPT !.next.recs = editor[s].sent.recs]))
    /\ UNCHANGED <<log, live, call, records, budget>>

upsertFails(s) ==
    /\ Turn(s) /\ editor[s].phase \in {"upserting", "upserted"}
    /\ Put(s, Finished(editor[s], "error", FALSE))
    /\ IF live THEN Spend ELSE UNCHANGED budget
    /\ UNCHANGED <<log, live, call, records>>

(* handleRestore up to its flush.  Every snapshot holds a document of the  *)
(* log (ProjectStore's SnapshotsAreFaithful).                              *)
handleRestore(s) ==
    /\ Turn(s) /\ Spend
    /\ editor[s].op = None /\ editor[s].status # "conflict"
    /\ \E i \in 1..Len(log) :
          Put(s, Enqueued([editor[s] EXCEPT !.timer = FALSE, !.op = "flush",
                                            !.target = log[i]], "ensure"))
    /\ UNCHANGED <<log, live, call, records>>

sendRestore(s) ==
    LET ed == editor[s] IN
    /\ ed.op = "go"
    /\ IF ed.working # ed.saved
       THEN /\ Put(s, [ed EXCEPT !.op = None, !.target = None])
            /\ UNCHANGED <<log, live, call>>
       ELSE /\ call[<<s, "restore">>] = NotCalling
            /\ Begin(<<s, "restore">>, ed.rev, ed.target)
            /\ Put(s, [ed EXCEPT !.op = "restore"])
    /\ UNCHANGED <<records, budget>>

(* The restored project replaces the working copy, with whatever was typed *)
(* meanwhile; the control records go back to savedCopyRef's.               *)
restoreAnswered(s) ==
    LET ed == editor[s]
        a == call[<<s, "restore">>]
        copy == [doc |-> log[a.rev], recs |-> ed.saved.recs]
        over == [ed EXCEPT !.op = None, !.target = None]
    IN
    /\ Turn(s) /\ ed.op = "restore"
    /\ Return(<<s, "restore">>)
    /\ \/ /\ a.outcome = "ok"
          /\ Put(s, [over EXCEPT !.working = copy, !.saved = copy,
                                 !.rev = a.rev, !.status = "saved"])
       \/ /\ a.outcome = "conflict"
          /\ Put(s, [over EXCEPT !.status = "conflict"])
       \/ /\ a.outcome \notin {"ok", "conflict"}
          /\ Put(s, over)
    /\ UNCHANGED <<records, budget>>

(* reloadLatest, or the browser's own reload.  Requests under way are      *)
(* abandoned, not undone.                                                  *)
reload(s) ==
    /\ Turn(s) /\ live /\ Spend
    /\ Put(s, Fresh)
    /\ UNCHANGED <<log, live, call, records>>

Abandoned(c) ==
    \/ c[2] = "save" /\ editor[c[1]].phase # "saving"
    \/ c[2] = "restore" /\ editor[c[1]].op # "restore"

answerDropped(c) ==
    Abandoned(c) /\ Return(c) /\ UNCHANGED <<records, editor, budget>>

(* The connection breaks: the awaiting call throws in the page, and the    *)
(* request goes on at the server.                                          *)
connectionBreaks(s) ==
    /\ Turn(s) /\ Spend
    /\ \/ /\ editor[s].phase = "saving"
          /\ Put(s, Finished(editor[s], "error", FALSE))
       \/ /\ editor[s].op = "restore"
          /\ Put(s, [editor[s] EXCEPT !.op = None, !.target = None])
    /\ UNCHANGED <<log, live, call, records>>

(* The server's part of a request.                                         *)
serverStep(c) ==
    /\ Commit(c) \/ Refuse(c) \/ Answer(c)
    /\ LET a == call'[c]
           surprising == /\ a.at = "done"
                         /\ \/ a.outcome = "validation"
                            \/ a.outcome = "ok" /\ a.rev # call[c].base + 1
       IN IF surprising THEN Spend ELSE UNCHANGED budget
    /\ UNCHANGED <<records, editor>>

requestLost(c) == Lose(c) /\ Spend /\ UNCHANGED <<records, editor>>

(* A write from outside the editor, such as a rename in the project list:  *)
(* it takes no expectedRevision from its caller.                           *)
writtenElsewhere ==
    /\ live /\ Spend
    /\ \E d \in Normal : log' = Append(log, d)
    /\ UNCHANGED <<live, call, records, editor>>

deletedElsewhere == Delete /\ Spend /\ UNCHANGED <<records, editor>>

PageStep(s) ==
    \/ debounceFires(s) \/ saveLoop(s) \/ saveAnswered(s)
    \/ upsertRecords(s) \/ upsertAnswered(s) \/ upsertFails(s)
    \/ sendRestore(s) \/ restoreAnswered(s)

Next ==
    \/ \E s \in Sessions :
          \/ edit(s) \/ handleRestore(s) \/ reload(s) \/ connectionBreaks(s)
          \/ PageStep(s)
    \/ \E c \in Clients : serverStep(c) \/ requestLost(c) \/ answerDropped(c)
    \/ writtenElsewhere \/ deletedElsewhere

Spec == Init /\ [][Next]_vars

(* A browser fires its timers and runs the turns that are due, and a       *)
(* request sent is executed and answered.  The user owes nothing.          *)
FairSpec ==
    /\ Spec
    /\ \A s \in Sessions : WF_vars(PageStep(s))
    /\ \A c \in Clients : WF_vars(serverStep(c)) /\ WF_vars(answerDropped(c))
----
(* Properties.                                                             *)

(* A page that shows "Saved" shows a document that the store did hold at a *)
(* revision the page has passed, whatever was typed, restored or lost      *)
(* while its requests were under way.                                      *)
SavedWasStored ==
    \A s \in Sessions : LET ed == editor[s] IN
        ed.status = "saved" => \E i \in 1..ed.rev : log[i] = ed.working.doc

(* "Conflicts fail closed": once a page shows a conflict and its revision  *)
(* really is overtaken, nothing that session asked for takes effect any    *)
(* more: no save under way, no restore, no request it has abandoned.  (A   *)
(* page can also come to show a conflict with its own autosave, when that  *)
(* beats its own restore.)                                                 *)
ConflictStopsTheSession ==
    [][\A s \in Sessions :
         (editor[s].status = "conflict" /\ editor[s].rev < Len(log)) =>
             \A c \in {<<s, "save">>, <<s, "restore">>} :
                 ~ (call[c].at = "pending" /\ call'[c].at = "committed")]_vars

(* The revision a page will send never goes back, although a save and a    *)
(* restore may be answered in either order.                                *)
RevisionNeverGoesBack ==
    [][\A s \in Sessions : editor[s].rev <= editor'[s].rev]_vars

(* Unsaved changes do not stay unsaved quietly: the page ends up saved, or *)
(* says that it is not.  A document that the server alters is the          *)
(* exception: saved without end, it never equals the copy on the screen    *)
(* (ProjectWorkspace.tsx:423).                                             *)
EditsSettle ==
    \A s \in Sessions :
        editor[s].status \in {"dirty", "saving"}
            ~> \/ editor[s].status \in {"saved", "error", "conflict", "clean"}
               \/ editor[s].working.doc \notin Normal

(* A restore that was confirmed is carried out or given up, with the same  *)
(* exception: the flush before it never returns.                           *)
RestoreEnds ==
    \A s \in Sessions :
        editor[s].op # None
            ~> editor[s].op = None \/ editor[s].working.doc \notin Normal

====
