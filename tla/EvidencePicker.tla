---- MODULE EvidencePicker ----
(***************************************************************************)
(* The evidence picker of a control's panel, its paged search and the      *)
(* table it searches, which other users change meanwhile.  The search is   *)
(* one SELECT.  The picker runs to completion between two awaits; several  *)
(* of its searches may be in flight, and their answers come in any order.  *)
(*                                                                         *)
(* Abstractions.  Of an evidence record the search looks at a text, a      *)
(* type, its status and its link to this control; the DTO shows the first  *)
(* and what orders it.  Blanks around the query, the highlighted row and   *)
(* the focus are left out; the close event of the dialog follows at once.  *)
(* A record's updatedAt does not go back, whichever server writes it.      *)
(* Operators named Faulty... are not the code: see ProjectStore.           *)
(***************************************************************************)
EXTENDS Naturals, FiniteSets, Sequences, SequencesExt

CONSTANTS Records,      \* evidence records, by id; ids are ordered
          Texts, Types, All,    \* All: an empty query, or any type
          TypeOf,       \* the type of each record
          PageSize,     \* EVIDENCE_SEARCH_DEFAULT_LIMIT
          InitialTables,  \* what the table may hold to begin with
          Null,
          MaxEvents, MaxChanges     \* bounds of the model

Filters == [text : Texts \cup {All}, type : Types \cup {All}]
Entries == [id : Records, text : Texts, at : Nat]     \* EvidenceSearchResult
Pages == [items : Seq(Entries), more : BOOLEAN]

RowStatuses == {"absent", "live", "gone"}      \* gone: archived or deleted
Rows == [text : Texts, at : Nat, linked : BOOLEAN, status : RowStatuses]

ASSUME PickerAssumption ==
    /\ Records \subseteq Nat /\ IsFiniteSet(Records) /\ TypeOf \in [Records -> Types]
    /\ All \notin Texts \cup Types /\ Null \notin Records \cup Entries
    /\ PageSize \in Nat \ {0}
    /\ InitialTables \subseteq
          {table \in [Records -> Rows] : \A i \in Records : table[i].at <= 1}
    /\ MaxEvents \in Nat /\ MaxChanges \in Nat

VARIABLES evidence,     \* the table: per id a row
          clock,        \* updatedAt of the latest change
          picker,       \* the state and refs of the dialog
          requests,     \* its searches in flight
          linking,      \* the record that the panel is associating, or Null
          events, changes

pickerVars == <<evidence, clock, picker, requests, linking, events, changes>>

Pickers ==
    [open : BOOLEAN,
     query : Texts \cup {All}, debounced : Texts \cup {All}, type : Types \cup {All},
     due : BOOLEAN,             \* the effect's zero timer is armed
     items : Seq(Entries), more : BOOLEAN,
     loading : BOOLEAN, loadingMore : BOOLEAN, error : BOOLEAN,
     id : Nat,                  \* requestIdRef
     touched : SUBSET Records,  \* ghost: changed since the first page was read
     overtaken : BOOLEAN]       \* ghost: a page was asked for during a new search

Searches ==
    [id : Nat, mode : {"replace", "append"}, filter : Filters, cursor : Entries \cup {Null},
     answer : {"none", "page", "refused", "thrown"}, page : Pages, touched : SUBSET Records]

NoPage == [items |-> <<>>, more |-> FALSE]

PickerTypeOK ==
    /\ evidence \in [Records -> Rows]
    /\ clock \in Nat
    /\ picker \in Pickers
    /\ \A r \in requests : r \in Searches
    /\ linking \in Records \cup {Null}
    /\ events \in Nat /\ changes \in Nat

Reset(p) ==
    [p EXCEPT !.open = FALSE, !.query = All, !.debounced = All, !.type = All, !.due = FALSE,
              !.items = <<>>, !.more = FALSE, !.loading = FALSE, !.loadingMore = FALSE,
              !.error = FALSE, !.id = @ + 1, !.touched = {}, !.overtaken = FALSE]

Closed == [open |-> FALSE, query |-> All, debounced |-> All, type |-> All, due |-> FALSE,
           items |-> <<>>, more |-> FALSE, loading |-> FALSE, loadingMore |-> FALSE,
           error |-> FALSE, id |-> 0, touched |-> {}, overtaken |-> FALSE]

PickerInit ==
    /\ clock = 1
    /\ evidence \in InitialTables
    /\ picker = Closed
    /\ requests = {} /\ linking = Null
    /\ events = 0 /\ changes = 0
----
Entry(i) == [id |-> i, text |-> evidence[i].text, at |-> evidence[i].at]

(* ORDER BY updatedAt DESC, id DESC.                                       *)
Newer(e, f) == e.at > f.at \/ (e.at = f.at /\ e.id > f.id)

Ordered(S) ==
    CHOOSE rows \in [1..Cardinality(S) -> S] :
        \A m, n \in DOMAIN rows : m < n => Newer(rows[m], rows[n])

(* ListIsTheSearch: the cursor is compared by time alone.                  *)
FaultyAfter(cursor, e) == cursor.at > e.at

(* The comparison of a row with the cursor.                                *)
After(cursor, e) == Newer(cursor, e)

Matches(e, f) ==
    f.text \in {All, e.text} /\ f.type \in {All, TypeOf[e.id]}

Eligible(f) ==
    {Entry(i) : i \in {j \in Records : /\ evidence[j].status = "live" /\ ~evidence[j].linked
                                       /\ Matches(Entry(j), f)}}

search(f, cursor) ==
    LET rows == Ordered({e \in Eligible(f) : cursor = Null \/ After(cursor, e)})
    IN  [items |-> SubSeq(rows, 1, IF Len(rows) > PageSize THEN PageSize ELSE Len(rows)),
         more |-> Len(rows) > PageSize]
----
Event == events < MaxEvents /\ events' = events + 1

(* runSearch up to its await.                                              *)
runSearch(p, mode, cursor) ==
    LET id == p.id + 1
    IN  /\ picker' = [p EXCEPT !.id = id, !.error = FALSE,
                               !.loading = @ \/ mode = "replace",
                               !.loadingMore = @ \/ mode = "append",
                               !.overtaken = mode = "append" /\ (@ \/ p.loading)]
        /\ requests' = requests \cup
               {[id |-> id, mode |-> mode, filter |-> [text |-> p.debounced, type |-> p.type],
                 cursor |-> cursor, answer |-> "none", page |-> NoPage, touched |-> {}]}

openPicker ==
    /\ ~picker.open /\ Event
    /\ picker' = [picker EXCEPT !.open = TRUE, !.due = TRUE]
    /\ UNCHANGED <<evidence, clock, requests, linking, changes>>

setQuery ==
    /\ picker.open /\ Event
    /\ \E t \in Texts \cup {All} : t # picker.query /\ picker' = [picker EXCEPT !.query = t]
    /\ UNCHANGED <<evidence, clock, requests, linking, changes>>

(* 300 ms after the last key; the effect on debouncedQuery arms its timer. *)
debounce ==
    /\ picker.query # picker.debounced
    /\ picker' = [picker EXCEPT !.debounced = picker.query, !.due = TRUE]
    /\ UNCHANGED <<evidence, clock, requests, linking, events, changes>>

setTypeFilter ==
    /\ picker.open /\ Event
    /\ \E t \in Types \cup {All} :
          t # picker.type /\ picker' = [picker EXCEPT !.type = t, !.due = TRUE]
    /\ UNCHANGED <<evidence, clock, requests, linking, changes>>

searchDue ==
    /\ picker.due
    /\ runSearch([picker EXCEPT !.due = FALSE], "replace", Null)
    /\ UNCHANGED <<evidence, clock, linking, events, changes>>

(* The button asks neither for a search under way nor for a timer.         *)
loadMore ==
    /\ picker.open /\ ~picker.error /\ picker.more /\ ~picker.loadingMore
    /\ linking = Null /\ Event
    /\ runSearch(picker, "append", Last(picker.items))
    /\ UNCHANGED <<evidence, clock, linking, changes>>

retry ==
    /\ picker.open /\ picker.error /\ Event
    /\ runSearch(picker, "replace", Null)
    /\ UNCHANGED <<evidence, clock, linking, changes>>

close ==
    /\ picker.open /\ Event
    /\ picker' = Reset(picker)
    /\ UNCHANGED <<evidence, clock, requests, linking, changes>>

Answer(r, a, page) ==
    requests' = (requests \ {r}) \cup {[r EXCEPT !.answer = a, !.page = page, !.touched = {}]}

searchEvidence ==
    \E r \in requests :
        /\ r.answer = "none"
        /\ \/ Answer(r, "page", search(r.filter, r.cursor)) /\ UNCHANGED events
           \/ \E a \in {"refused", "thrown"} : Answer(r, a, NoPage) /\ Event
    /\ UNCHANGED <<evidence, clock, picker, linking, changes>>

(* ListIsTheSearch: every answer is taken.                                 *)
FaultyIsLatest(r) == TRUE

(* requestId === requestIdRef.current                                      *)
IsLatest(r) == r.id = picker.id

(* SearchSettles: the flags are not reset in a finally clause.             *)
FaultyDone(p, r) == IF r.answer = "thrown" THEN p
                    ELSE [p EXCEPT !.loading = FALSE, !.loadingMore = FALSE]

Done(p, r) == [p EXCEPT !.loading = FALSE, !.loadingMore = FALSE]

(* What follows the await of runSearch.                                    *)
Shown(p, r) ==
    IF r.answer = "thrown" THEN [p EXCEPT !.error = TRUE]
    ELSE IF r.answer = "refused"
    THEN IF r.mode = "append" THEN [p EXCEPT !.error = TRUE]
         ELSE [p EXCEPT !.error = TRUE, !.items = <<>>, !.more = FALSE]
    ELSE [p EXCEPT !.items = IF r.mode = "append" THEN @ \o r.page.items ELSE r.page.items,
                   !.more = r.page.more,
                   !.touched = IF r.mode = "append" THEN @ ELSE r.touched]

answered ==
    \E r \in requests :
        /\ r.answer # "none"
        /\ requests' = requests \ {r}
        /\ picker' = IF IsLatest(r) THEN Done(Shown(picker, r), r) ELSE picker
        /\ UNCHANGED <<evidence, clock, linking, events, changes>>

(* onSelect, and associateEvidenceAction: a link that exists is kept, an   *)
(* archived record refused.  Success closes the picker, whoever opened it. *)
select ==
    /\ picker.open /\ ~picker.error /\ linking = Null /\ Event
    /\ \E n \in DOMAIN picker.items : linking' = picker.items[n].id
    /\ UNCHANGED <<evidence, clock, picker, requests, changes>>

Touch(i) ==
    /\ picker' = [picker EXCEPT !.touched = @ \cup {i}]
    /\ requests' = {[r EXCEPT !.touched = @ \cup {i}] : r \in requests}

associated ==
    /\ linking # Null
    /\ linking' = Null
    /\ \/ /\ evidence[linking].status = "live"
          /\ evidence' = [evidence EXCEPT ![linking].linked = TRUE]
          /\ picker' = IF picker.open THEN Reset(picker) ELSE picker
          /\ requests' = {[r EXCEPT !.touched = @ \cup {linking}] : r \in requests}
       \/ /\ evidence[linking].status # "live"
          /\ UNCHANGED <<evidence, picker, requests>>
    /\ UNCHANGED <<clock, events, changes>>

(* Somebody else creates, edits, archives, deletes, links or unlinks a     *)
(* record; a link alone leaves updatedAt as it is.                         *)
Changed(row, now) ==
    {[row EXCEPT !.linked = ~@ /\ row.status = "live"]}
        \cup {[row EXCEPT !.status = "gone", !.at = now]}
        \cup {[row EXCEPT !.text = x, !.at = now, !.status = "live"] : x \in Texts}

change ==
    /\ changes < MaxChanges /\ changes' = changes + 1
    /\ clock' \in {clock, clock + 1}
    /\ \E i \in Records :
          /\ evidence[i].status # "gone"
          /\ \E row \in Changed(evidence[i], clock') :
                evidence' = [evidence EXCEPT ![i] = row]
          /\ Touch(i)
    /\ UNCHANGED <<linking, events>>

PickerNext ==
    \/ openPicker \/ setQuery \/ debounce \/ setTypeFilter \/ searchDue
    \/ loadMore \/ retry \/ close \/ select
    \/ searchEvidence \/ answered \/ associated \/ change

(* The browser fires its timers, the server answers and the answers come.  *)
Fairness ==
    /\ WF_pickerVars(debounce) /\ WF_pickerVars(searchDue)
    /\ WF_pickerVars(searchEvidence) /\ WF_pickerVars(answered)

PickerSpec == PickerInit /\ [][PickerNext]_pickerVars /\ Fairness
----
Filter == [text |-> picker.debounced, type |-> picker.type]
Quiet == ~picker.due /\ ~picker.loading /\ ~picker.loadingMore
Settled == picker.open /\ Quiet /\ ~picker.error

InOrder(list) ==
    \A m, n \in DOMAIN list : m < n => Newer(list[m], list[n]) /\ list[m].id # list[n].id

(* Records that are neither listed nor still to come.                      *)
Skipped ==
    {e \in Eligible(Filter) :
        /\ \A n \in DOMAIN picker.items : picker.items[n] # e
        /\ picker.more => ~Newer(Last(picker.items), e)}

(* A list that is shown and not being replaced is the current search:      *)
(* sorted, without repetition, every record as it matched when it was      *)
(* read; and whatever others do to other records between two pages, it     *)
(* skips none that nobody touched since the first page.  Excepted is a     *)
(* page asked for while a new search was under way (EvidencePicker.tsx:125,*)
(* 140, 450; evidence-repository.ts:387).                                  *)
ListIsTheSearch ==
    Settled /\ ~picker.overtaken =>
        /\ InOrder(picker.items)
        /\ \A n \in DOMAIN picker.items : Matches(picker.items[n], Filter)
        /\ \A e \in Skipped : e.id \in picker.touched

(* When the user pauses, the picker comes to rest with the list of what    *)
(* was typed last, or with an error (EvidencePicker.tsx:116, 165).         *)
SearchSettles == <>[](picker.open => Quiet /\ picker.query = picker.debounced)

====
