---- MODULE EditorHistory ----
(***************************************************************************)
(* Undo and redo in a project page.  Edits that follow one another within  *)
(* 400 ms are one entry: the first is pushed at once, the last of the      *)
(* others when a timer fires, with the copy that the timer has captured.   *)
(* Meanwhile a restore may be answered and a workflow's changes arrive.    *)
(*                                                                         *)
(* Abstractions.  A working copy is a text and the fields that workflows   *)
(* change; an edit may set both.  Saving is one step that finds nothing    *)
(* wrong (ProjectWorkspace has the requests and their failures).           *)
(* Operators named Faulty... are not the code: see ProjectStore.           *)
(***************************************************************************)
EXTENDS Naturals, Sequences, SequencesExt

CONSTANTS Texts,        \* what users edit and snapshots hold
          Fields,       \* values of the workflow-mutable fields
          limit         \* EDITOR_HISTORY_LIMIT

ASSUME LimitAssumption == limit \in Nat \ {0}

VARIABLES history,      \* historyRef: past, present and future
          working,      \* workingCopyRef
          saved,        \* savedCopyRef
          group,        \* typingGroupRef: none, open, or pending with a captured copy
          captured,     \* that copy; otherwise the working copy of no meaning
          restoring,    \* a restore has been sent
          overtaken     \* ghost: what a pending timer captured was replaced before

editorVars == <<history, working, saved, group, captured, restoring, overtaken>>

WorkingCopies == [text : Texts, fields : Fields]
Histories == [past : Seq(WorkingCopies), present : WorkingCopies, future : Seq(WorkingCopies)]

(* However edits, undo and redo follow one another, no more than limit     *)
(* copies are kept besides the present one (history.ts:113).               *)
Bounded == Len(history.past) + Len(history.future) <= limit

EditorTypeOK ==
    /\ history \in Histories /\ Bounded
    /\ working \in WorkingCopies /\ saved \in WorkingCopies
    /\ group \in {"none", "open", "pending"}
    /\ captured \in Seq(WorkingCopies)
    /\ Len(captured) = IF group = "pending" THEN 1 ELSE 0
    /\ restoring \in BOOLEAN /\ overtaken \in BOOLEAN

EditorInit ==
    /\ working \in WorkingCopies
    /\ saved = working
    /\ history = [past |-> <<>>, present |-> working, future |-> <<>>]
    /\ group = "none" /\ captured = <<>>
    /\ restoring = FALSE /\ overtaken = FALSE
----
(* EditorTypeOK: the oldest entry is never dropped.                        *)
FaultyTrimmed(past) == past

Trimmed(past) == IF Len(past) > limit THEN Tail(past) ELSE past

(* ImplementsUndoStack: a new entry leaves what was undone for redo.       *)
FaultyPushed(h, next) ==
    IF h.present = next THEN h
    ELSE [h EXCEPT !.past = Trimmed(Append(h.past, h.present)), !.present = next]

Pushed(h, next) ==
    IF h.present = next THEN h
    ELSE [past |-> Trimmed(Append(h.past, h.present)), present |-> next, future |-> <<>>]

Undone(h) ==
    [past |-> Front(h.past), present |-> Last(h.past), future |-> Append(h.future, h.present)]

Redone(h) ==
    [past |-> Append(h.past, h.present), present |-> Last(h.future), future |-> Front(h.future)]

Replaced(copy) == [past |-> <<>>, present |-> copy, future |-> <<>>]
----
commitEdit ==
    \E next \in WorkingCopies :
        /\ working' = next
        /\ \/ /\ group = "none"
              /\ history' = Pushed(history, next)
              /\ group' = "open" /\ UNCHANGED captured
           \/ /\ group # "none"
              /\ group' = "pending" /\ captured' = <<next>>
              /\ UNCHANGED history
        /\ UNCHANGED <<saved, restoring, overtaken>>

(* The 400 ms are over.                                                    *)
typingGroupEnds ==
    /\ group # "none"
    /\ group' = "none" /\ captured' = <<>>
    /\ history' = IF group = "pending" THEN Pushed(history, captured[1]) ELSE history
    /\ UNCHANGED <<working, saved, restoring, overtaken>>

(* ScreenIsPresent: an undo within 400 ms of the last edit does not push   *)
(* it first.                                                               *)
FaultyBeforeUndo == history

(* An open group is closed and the copy on the screen pushed first.        *)
BeforeUndo == IF group = "none" THEN history ELSE Pushed(history, working)

EndGroup == group' = "none" /\ captured' = <<>>

undo ==
    /\ EndGroup
    /\ \/ /\ BeforeUndo.past # <<>>
          /\ history' = Undone(BeforeUndo)
          /\ working' = history'.present
       \/ /\ BeforeUndo.past = <<>>
          /\ history' = BeforeUndo /\ UNCHANGED working
    /\ UNCHANGED <<saved, restoring, overtaken>>

(* Redo lets the timer of an open group run on.                            *)
redo ==
    /\ history.future # <<>>
    /\ history' = Redone(history)
    /\ working' = history'.present
    /\ overtaken' = (overtaken \/ group = "pending")
    /\ UNCHANGED <<saved, group, captured, restoring>>

autosaved ==
    /\ saved' = working
    /\ UNCHANGED <<history, working, group, captured, restoring, overtaken>>

(* Sent when the flush before it has left nothing unsaved.                 *)
restoreSent ==
    /\ ~restoring /\ working = saved
    /\ restoring' = TRUE
    /\ UNCHANGED <<history, working, saved, group, captured, overtaken>>

(* The answer replaces screen, saved copy and history; control records, of *)
(* which the workflow-mutable fields are, stay as saved.  The timer of an  *)
(* open group runs on.                                                     *)
restoreReplaces ==
    /\ restoring
    /\ \E text \in Texts :
        LET copy == [saved EXCEPT !.text = text]
        IN  /\ history' = Replaced(copy)
            /\ working' = copy /\ saved' = copy
    /\ restoring' = FALSE
    /\ overtaken' = (overtaken \/ group = "pending")
    /\ UNCHANGED <<group, captured>>

restoreRefused ==
    /\ restoring
    /\ restoring' = FALSE
    /\ UNCHANGED <<history, working, saved, group, captured, overtaken>>

(* Neither the history nor the captured copy learns of it.                 *)
syncWorkflowMutableControlFields ==
    \E f \in Fields :
        /\ working' = [working EXCEPT !.fields = f]
        /\ saved' = [saved EXCEPT !.fields = f]
        /\ UNCHANGED <<history, group, captured, restoring, overtaken>>

EditorNext ==
    \/ commitEdit \/ typingGroupEnds \/ undo \/ redo
    \/ autosaved \/ restoreSent \/ restoreReplaces \/ restoreRefused
    \/ syncWorkflowMutableControlFields

EditorSpec == EditorInit /\ [][EditorNext]_editorVars
----
(* The text on the screen is the one that undo and redo start from, or the *)
(* one that the timer will push, unless a restore or a redo has come       *)
(* between an edit and its timer (ProjectWorkspace.tsx:486, 605).          *)
ScreenIsPresent ==
    ~overtaken =>
        working.text = IF group = "pending" THEN captured[1].text ELSE history.present.text

(* Past, present and future on one tape, and the place of the present.     *)
Tape(h) == h.past \o <<h.present>> \o Reverse(h.future)
Place(h) == Len(h.past) + 1

Abstract == INSTANCE UndoStack
    WITH Copies <- WorkingCopies, Limit <- limit, tape <- Tape(history), at <- Place(history)

(* Grouped edits, timers, undo, redo and restores are steps on a tape:     *)
(* redo gives back exactly what undo took, and undo what was pushed.       *)
ImplementsUndoStack == Abstract!Spec

====
