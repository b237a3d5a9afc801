# Formal models of the OSCAL control tool

This directory specifies the parts of the tool whose correctness depends on the
order of events: what happens when two server actions interleave between SQL
statements, when a browser page has several requests in flight, when a request
dies half-way, a record outlives what it was written under. TLC checks each
model on a small instance; TLAPS proves for every instance the invariants these
runs check (all but one), the promises of some steps, and that the store and the
editor's history implement their abstract specifications.

## The system

The application is a Next.js server over PostgreSQL. A page calls server
actions (`src/app/actions`), which resolve the organization of the project and
the permissions of the user (`src/server/authorized-*.ts`), call a repository or
service (`src/persistence/postgres`), and then publish domain events
(`src/domain/events`) to handlers in the same process: the workflow engine
(`src/workflow`) and diagnostics. Evidence files live beside the database in a
storage provider (`src/storage`).

| Component | State it keeps | Operations | What is hard | What makes it correct |
|---|---|---|---|---|
| Project repository (`project-repository.ts`) | one row per project with a revision; snapshot rows | create, save, rename, delete, named version, automatic snapshot, restore, prune | no transactions: actions interleave between statements | no lost update; answers are true; a restore can be undone; named versions survive |
| Workspace (`ProjectWorkspace.tsx`, `editor/history.ts`) | working copy, saved copy, revision, status, debounce timer, save chain, undo history | edit, undo, redo, autosave, restore, reload, save version | requests in flight while the user types; lost answers | shown as saved means stored; conflicts stop the session; edits settle |
| Control records and review (`control-record-service.ts`) | one row per control, activity rows | upsert with activity, review transition | concurrent transitions and upserts | the review table is obeyed; activity tells what happened |
| Evidence (`evidence-*.ts`, `storage/`) | evidence rows, versions, links, files | create, upload, current version, archive, delete draft, associate | database and files cannot commit together | no version without its file; only drafts are deleted |
| Discussions and notifications (`discussion-service.ts`, `notification-repository.ts`) | comments, mention rows, timeline entries, notifications | create, reply, edit, delete, restore, resolve, reopen; read, delete a notification | no transactions: one action is up to five kinds of statement; deduplication | comment, mention rows and timeline agree; everybody mentioned is notified |
| Assignments, domain events and workflow engine (`src/workflow`, `src/domain/events`) | assignments, rules, executions, the cascade guard | assign, complete, reassign, remove; publish, evaluate, execute actions, record | rules run inside the publishing request and publish further events; an action or a recording fails in the middle | no cascade; what rules did is recorded; automation assigns once |
| Organizations (`authorized-organizations.ts`) | members, roles, invitations | invite, resend, revoke, accept, remove | no transactions between check and write | an administrator remains; closed invitations admit nobody |
| Cutover (`sqlite-to-postgres.ts`) | the two databases, the rows read, a report | dry, strict and plain runs, verification | reads without a transaction, crash between commit and verification, repeated runs | a run only adds; an accepted copy is faithful |
| Evidence picker (`EvidencePicker.tsx`, `evidence-repository.ts`) | query, filter, pages, flags, the number of the latest search | type, filter, load more, retry, link, close | several searches in flight; the table changes between pages | the list is the search and skips nothing; the picker comes to rest |
| Parameters (`domain/parameter-*.ts`, `ParameterAuthoringPanel.tsx`, `ssp/resolveStatement.ts`) | one record per parameter, the generated framework | the panel's editors, resolution, synthesis of the statement | records outlive the mapping they were written under; two walks over one catalog | documentation is never substituted; what is missing is counted; records can be saved |
| Pure functions | none | completion, freshness, coverage, formatting | boundary cases | not modelled |
| Export, help, catalogs | none at run time | rendering, lookups | none of the above | not modelled |

## Modules

**RevisionLog** is what the store promises: a project is a log of documents, its
revision is the length of the log, and a write made against revision *e* takes
effect only as entry *e* + 1. The answer to a write may name a later revision
than its own, because the code reads the row again after its UPDATE.

**ProjectStore** is `project-repository.ts` statement by statement. `row` and
`snapshots` are the two tables; `req[c]` is one server action in flight, whose
`pc` names the statement it executes next: `load` (loadRow), `fetch`
(getSnapshot), `rows` (the automatic snapshots), `insert`, `prune`, `delete`
(insertSnapshot and pruneSnapshots), `read` (saveProject's SELECT and checks),
`cas` (its UPDATE), `after` (the read-back). `fail` kills a request between two
statements, leaving what it did. `hist` is a history variable. A document is a
record of name, text and parameters, so that a partial write (rename, or a save
without parameter records) can be told from a whole one. The clock is one bit,
`cooling`: the newest automatic snapshot is younger than the interval.

**ProjectWorkspace** runs browser sessions against RevisionLog. `editor[s]`
holds the refs of one page; its actions are named after the functions. A page's
code runs to completion between two awaits, so the points `phase = "top"` and
`op = "go"` exclude other events of that page. The control records are written
by a second request without a revision. What the environment does of its own
accord (edits, reloads, lost requests, writes from elsewhere, deletion, a
refused document, an answer that carries somebody else's revision) spends one
unit of `budget`, which bounds the model.

**ProjectStoreProofs**, **ProjectWorkspaceProofs**, **EvidenceProofs**,
**ControlReviewProofs**, **TeamProofs**, **WorkflowProofs**, **DiscussionProofs** and
**CutoverProofs** hold the TLAPS proofs about the modules they are named after;
ProjectWorkspaceProofs is about the whole page of a project, and has the proofs about
EditorHistory and Parameters as well; EvidenceProofs has those about EvidencePicker. The MC modules give constants their values.

**Evidence** is one evidence item: `evidence-service.ts`,
`evidence-version-service.ts` and their repositories statement by statement,
with the table rows (`item`, `versions`, `links`), the storage provider's keys
(`files`) and the link activities (`noted`). A version's id, key and file are one
number. `put` / `readNumber` / `publish` / `reread` / `clean` are the upload and
its catch block; `listStorageKeys` / `clearCurrent` / `eraseItem` / `removeItem` /
`cleanupStorageForEvidence` the deletion of a draft; `checkAgain` /
`insertLink` / `getAgain` / `findRecord` / `insertRecord` /
`appendLinkActivities` an associate. Four kinds of failure are apart, because
the code treats them apart: a crash, a failed `put`, a database error inside the
second `try`, a failed `delete`.

**ControlReview** is `control-record-service.ts` under PostgreSQL's READ
COMMITTED: a request SELECTs committed rows (`selectForUpsert`,
`selectForTransition`), then takes the lock of a row or key (`writeRecord`,
which waits), keeps its writes in `pending`, and publishes them with `commit`.
`deadlockDetected` is the database breaking a cycle of waits. A record's metadata
are fields: an upsert writes all of them, and activities only for those that differ
from what its SELECT returned (`FieldChanges`, `Update`). Two overlapping batches
that change different fields therefore set one of them back with no activity;
`setBack` is a history variable, read by no action, of the fields for which that
has happened and which no activity has named since.
`ensureControlRecord` is the same creation outside any transaction, as
Evidence uses it.

**Authorization** is the role matrix of `authz/permissions.ts` and `can`. Team
and Discussion take their guards from it.

**Team** is one organization: `member` and `invitation` are the two tables, and
`req[c]` a server action whose `pc` names its next statement. `inviteMember`
cancels the pending invitations of the address (`cancel`) and inserts one
(`create`); `removeMember` reads the membership, counts administrators if it is
one, and deletes; `acceptInvitation` checks once and then goes through
`existing`, `lookup`, `update` or `insert`, and `status`. Rows have ids, because
an UPDATE by id misses a membership that was removed and inserted again. Expiry
is the event `Expire`.

**Discussion** is one control's comments: `write` (INSERT or UPDATE of the
comment), `unmention` and `mention` (replaceCommentMentions row by row), `activity`
(the timeline entry), `notify` (one notification after the other, with its
deduplication). The notification center is one UPDATE per action. `torn` and `cut`
are ghosts: comments whose requests overlapped or failed, or failed.

**Workflow** is the engine inside the requests that publish events. A request
changes the record or an assignment, then publishes (`publish` loads the enabled
rules of the trigger), builds one context for all of them (`context`), evaluates
and executes rule by rule (`rules`, `act`, `assign`, `upsert`), and only then
inserts the executions (`record`). `guard` is the asynchronous context of
`loop-guard.ts`; what an action publishes reaches the engine in the same step, and
the ghosts `published`, `loaded` and `acted` remember who published an event,
which rules were run for it and which of them changed something.

**UndoStack** is what undo and redo promise: a tape of copies and a place on it.
**EditorHistory** is `editor/history.ts` with its callers in the workspace: the
three lists, the copy on the screen, the typing group (`none`, `open` after a
first edit, `pending` once the timer carries a captured copy), restores and the
synchronisation of workflow-mutable fields. Its mapping to UndoStack puts past,
present and the reversed future on one tape.

**Cutover** is the migration tool next to the application. Its four reads, the
insertion of each table in one transaction (`staged` until `commit`), and the
three reads of the verification are steps; `running` says on which database the
application runs, which the operator changes at any time. The application's writes
leave rows in the four tables: a project with its revision, named snapshots, a
control's record and its activities.

**EvidencePicker** is the dialog and the query behind it. `search` is the SELECT
with its filters, its order by time and id and its cursor; `picker` holds the
state and `requestIdRef` of the dialog; `requests` are the searches whose answers
have not been taken, in no order. A click on a record goes through the panel
(`select`, `associated`), which closes the picker when the link is made, also if it
has been closed and opened again since. `change` is what other users do to the
table. The ghosts `touched` and `overtaken` remember the records changed since
the first page was read, and a page asked for during a new search.

**Parameters** is one control's organization-defined parameters. `framework` is
what the generated framework says of it (catalog, inserts of the statement,
aggregates, choices, mappings); `parameterRecords` is what authors wrote. The operators
are the functions of `domain/parameter-*.ts`, `data/parameter/validation.ts` and
`ssp/resolveStatement.ts` under their own names; each editor of the panel is an
action (`documentDeviation`, `acceptBaseline`, `choose`, ...) whose guard is the
mode that shows it. `release` deploys another framework under the same records.
ParametersAssumption states what holds of the pinned catalogs: inserts are
parameters of the control, aggregates do not nest, the choices of a parameter that
is no aggregate itself insert plain assignments, what an inserted aggregate stands
for is inserted as well or stands in no choice, and what is pinned as left to the
provider has that status (`nist-sp-800-53-rev5/parameters.ts:126`). Every generated
framework in the repository satisfies it.

Operators named `Faulty...` are not the code. Each is the mistake that the
property named in its comment guards against, kept beside the definition it
would replace.

The modules stay apart where the code does: ProjectWorkspace is composed with
RevisionLog, which ProjectStore implements, so a page is checked against what
the store promises and not against its statements. Evidence and ControlReview
share the control records: each keeps the part of them it acts on, and
`recordElsewhere` and `ensureControlRecord` are the other one's doing. Workflow
composes assignments, control records, the event bus and the engine, since they
run in one call. EditorHistory takes the requests of ProjectWorkspace as answered
at some time, and ProjectWorkspace takes undo and redo as edits.

## Runs

| Run | Instance | Shows |
|---|---|---|
| `store` | 2 server actions at a time, up to 2 revisions, 3 snapshots, 1 failure, retention 1 automatic and 2 pre-restore, 3 input documents of which one is refused | no commit is lost, answers are true, partial writes keep the rest, snapshots are faithful, pruning and retention, a restore leaves its recovery point, refinement of RevisionLog |
| `workspace` | 1 page, 3 documents, 4 surprises (edits, reloads, losses, foreign writes, deletion), fairness | what is shown as saved was stored; a conflict stops the session; a page's revision never goes back; unsaved edits end up saved or reported; a confirmed restore is carried out or given up |
| `evidence` | 2 server actions at a time, any number in all, 1 control, 2 uploads, 1 failure | versions are numbered and the current one is the newest; files against rows; answers of uploads; activity of links |
| `review` | 2 server actions at a time, which name 4 controls in all, 2 controls, 2 fields with 2 values, 1 failure | status and timeline agree, and so do fields and timeline except where a batch has set a field back; one creation per control |
| `team` | 3 users of whom 2 have a verified address, 2 roles, 2 server actions at a time, 4 in all, 1 failure | members were invited; closed invitations admit nobody; no request alone removes the last administrator |
| `discussion` | 2 users, one of them a moderator, 2 comments, 2 server actions at a time, 3 in all, 1 failure | comment, mentions and timeline agree; mentions are announced; one notification per event and recipient |
| `workflow` | 2 users of whom 1 is a member, 3 rules, 2 requests at a time, 3 in all, 1 failure | no cascade; runs are recorded; automation assigns once |
| `editor` | 3 texts, 2 values of the workflow's fields, limit 3, no other bound | history is bounded; undo and redo start from the screen; refinement of UndoStack |
| `cutover` | 2 projects, 3 writes, 2 runs, 1 crash, sample of 1 | runs only add; an accepted copy is faithful; records agree with their timelines |
| `evidence_picker` | 3 records of 2 types, of which 2 share a time stamp, or 2 and room for a third; pages of 1; 3 events (keys, clicks, failures), 1 change by others; fairness | a list at rest is the current search, sorted, without repetition, skipping nothing nobody touched; the picker comes to rest |
| `parameters` | 5 parameters: an aggregate, its selection and assignment, one nested in a choice, one that a release drops; 32 releases: 8 kinds of mapping, 2 of the nested one, 2 catalogs; no other bound | records can be saved; documentation is not substituted; what the SSP misses is counted |
| `review_table` | as `review` | a statement of a document and a comment that the code does not keep (below) |

Why the bounds suffice. The races are between two requests: every guard of the
code that another request can invalidate is invalidated by one other, and a
third would have to act between two statements that the second already
separates. MaxRevision 2 lets a write be overtaken once, MaxSnapshots 3 with
AutoKeep 1 makes pruning delete and overlap, PreKeep 2 is the least value for
which a restore's snapshot cannot be pruned by the one other restore in flight
(the code keeps 20). Two uploads race for one number, or one supersedes the
other. Requests that name four controls are what it takes to bring a control under
review and let two reviewers decide, to create a record, set a field of it back by
overlapping batches and change it again, and for two batches of two controls each to
wait for each other; two fields are what one batch changes and what it does not. One failure at any statement is every single failure.
An invitation, its acceptance and the two removals of `team` are four
requests; a comment can be written, edited and edited again at the same time with
three; of the three rules one changes the status and then tries to assign somebody
who is no member, which fails, one assigns a member, and one is triggered by
assignments and looks at the assignee. Three texts fill a history of three entries, so
that trimming, undo and redo meet; two runs and three writes let the source or the
target change between the runs, during one, or after a crash. With pages of one, three
records have a first, a middle and a last page, and three events are a search, a
page and what overtakes it.
`evidence` holds for three uploads and for two controls as well, but those
instances have about 3 and 12 million states and are not kept as runs. Clients,
controls, projects and texts are interchangeable, and TLC treats them as symmetric
where no property is temporal under fairness.

CHECK_DEADLOCK is FALSE in all configurations but `editor` and `parameters`, whose
actions have no bound: the systems are reactive, an
instance stops when its bounds are used up and every request is answered, or
when the project or item is gone.

## Fairness

ProjectWorkspace states weak fairness of a page's own steps (the browser runs
the next turn of a promise and fires a timer that is armed and not cleared), of
the server's step on each request (a request is executed unless it is lost) and
of dropping an answer nobody waits for. Nothing is assumed of the user or of
other writers. A lost request is noticed as a rejected promise
(`connectionBreaks`).

EvidencePicker states weak fairness of its two timers (`debounce`, `searchDue`), of
the server's answer to each search, which may be an error, and of taking an answer.
Nothing is assumed of the user. The other specifications state safety only.

## Where the code and its documents part

Shown by a run:

- `review_table` - two concurrent transitions from the same status both pass,
  and an approval is overwritten by a step that the table does not have.

Met while modelling; the models behave this way unless noted, no run states it:

- A save is answered with the row as it is after the UPDATE
  (`project-repository.ts:551`). If somebody else's write came in between, the page
  takes it for its saved copy without showing it (`ProjectWorkspace.tsx:382`), and
  its next save overwrites it without a conflict, against `docs/decisions.md:118`
  ("Conflicts fail closed with reload-latest").
- Two administrators who are removed at the same time both count two
  (`authorized-organizations.ts:114`) and are both deleted: the organization has
  none, against `docs/user-guide/invitations-and-team.md:38`. AdministratorsRemain
  speaks of removals that do not overlap.

- The minimum interval between automatic snapshots (`persistence/constants.ts:7`)
  is not applied to the snapshot taken after each save (`authorized-projects.ts:226`).
- When a save succeeds and the requests after it fail, undoing the edit shows
  "Saved" for content the database does not hold (`ProjectWorkspace.tsx:394`).
- A trailing blank in the project name makes the save loop commit revision after
  revision without an edit (`ProjectWorkspace.tsx:423`): the server trims the name.
- An error after an upload's transaction has committed deletes the file of a
  version that stays listed (`evidence-version-service.ts:113`, against
  `docs/user-guide/evidence.md:83`).
- A draft that is activated or linked while it is being deleted is deleted with its
  links (`evidence-service.ts:239`, against `docs/decisions.md:613`).
- change_status writes back the other fields of the record as it read them before
  (`action-executors.ts:347`, against `docs/workflows.md:60`, "`implementationStatus`
  only").
- Two overlapping autosaves of one control that change different fields leave one of
  the two changes undone with no activity: the activities name the fields that differ
  from a row read without a lock (`control-record-service.ts:183`), the UPDATE sets
  all six (194). The record then says otherwise than its timeline, whose comment reads
  "Update behavior: emit field events only for values that actually changed" (105).
  RecordsFollowActivity excepts these fields with `setBack`; without the exception TLC
  finds the case.
- The typing timer is not cleared by a redo or by the answer of a restore: 400 ms
  after the last edit it pushes a copy that is no longer on the screen
  (`ProjectWorkspace.tsx:486`). ScreenIsPresent excepts this with `overtaken`. An undo
  after a workflow's update puts back the older workflow fields.
- A second migration run skips rows that have changed, with a warning and exit
  code 0, and inserts the new activities of the same records; only the revisions of
  some projects are compared. The playbook calls re-running from a newer backup
  safe (`docs/playbooks/sqlite-to-postgres-cutover.md:175`). AcceptedCopyIsFaithful
  and TimelinesAgree except runs that warned.
- "Load more" can be pressed while a new search is under way. Its request is the
  latest and is taken, the new search is dropped, and the list mixes two searches
  (`EvidencePicker.tsx:450`). ListIsTheSearch excepts this with `overtaken`.
  EvidenceBrowser, which is not modelled, numbers no requests at all
  (`EvidenceBrowser.tsx:195`): whichever answer comes last is shown.
- An accepted baseline stores no value: a release with another permitted value
  changes what the SSP says without a new acceptance (`parameter-resolution.ts:289`).
- A choice is stored by its position: a release that reorders choices rebinds the
  record (`data/framework/types.ts:13` calls the key stable).
- A pinned mapping without values whose status is neither permitted nor left to the
  organization offers an editor whose value never resolves
  (`parameter-authoring.ts:119`, `parameter-resolution.ts:376`).
- After a release has changed the mapping, the text of a deviation stands in the field
  "Organization-defined value" although it does not count
  (`ParameterAuthoringPanel.tsx:571`).
- A parameter nested in a stored choice is counted as needing attention also where
  the mode of its parent shows no editor for it (`parameter-authoring.ts:225`).
- The author of a thread may resolve any comment of it, only the author of the
  comment may reopen it (`authorized-collaboration.ts:319`, `:392`).

PROJECT.json quotes the lines under "findings", and lists under "hazards" the
places where the code can go wrong in ways a test would hardly reach, with the
property that watches each, or the reason there is none yet.

## Proofs

Every theorem is about the specification the runs check, for all values of its
constants that satisfy the assumption named in its module; the assumptions say that
inputs are values of their type, that None is not one, and that bounds are numbers;
ProjectWorkspace adds that a document in the server's normal form is left as it is,
Workflow that an organization's rules and members are finite in number, and Parameters
what holds of the catalogs (above). No proof assumes that the number of clients is
finite, and each inductive invariant was checked by TLC before it was proved.

**ProjectStoreProofs** proves of the store

- `StoreTyped`, `NoCommitIsLost`, `SnapshotsStayFaithful`, `PartialWritesAreSafe`,
  `AnswersStayTrue`: the invariants TypeOK, RevisionCountsCommits,
  SnapshotsAreFaithful, PartialWritesKeepTheRest and AnswersAreTrue;
- `StoreImplementsTheLog`: `Spec => ImplementsRevisionLog`;
- `RetentionIsKept`: `Spec => []RetentionHolds`;
- `PruningIsSparing`: `Spec => PruningSparesNamedAndNewest`.

None of them is inductive on its own. A rename that is about to UPDATE says nothing
about text and parameters in the table, and a snapshot about to be inserted
carries a document read long ago. The inductive invariant `StoreInv` therefore
adds to TypeOK, a non-empty history, RevisionCountsCommits, SnapshotsAreFaithful
and PartialWritesKeepTheRest a fact `Good(c, req[c])` about each request in
flight, from which AnswersAreTrue follows: what it has read is an entry of
the history (`seen.doc = hist[seen.rev].doc`), what it is about to write agrees
with that entry in the parts it must keep, its expected revision is one the
history has, and a request past its UPDATE has its commit in the history.
History entries never change, so what was read stays true although the row moves
on; the WHERE clause `row.rev = expected` is what turns "agrees with the entry
read" into "agrees with the entry replaced". The proof has one lemma per action,
and the temporal theorems combine them.

The refinement needs `FitInv` besides: a request that has reached a given statement
is seen from outside as the call it was made with, undecided until its conditional
UPDATE and answered with a revision the log had after it. One lemma per statement
(`...Simulates`) shows that it is a step of the log or changes nothing there.

For the retention, counts must survive other requests' deletions. A pruning request
works from a list of ids that may be old: `PruneInv` says what such a list still
guarantees (a full retention of newer snapshots of the type that are not on it), and
`RetainInv` bounds, for every set of requests, what would be left if the requests
outside it had carried out their prunings by the retention, the failures and the size
of that set. RetentionHolds is that bound for the requests in flight. KeptAreFew,
RemovalSpares, Least and OneMore are the facts about finite sets that carry it.
RestoreLeavesRecoveryPoint is not a theorem for all constants: it needs a PreKeep
larger than the number of other restores that insert their snapshot meanwhile.

**ProjectWorkspaceProofs** proves `TypeCorrect`, `SavedIsStored` (`[]SavedWasStored`)
and two properties of steps, `ConflictIsFinal` (ConflictStopsTheSession) and
`RevisionsAdvance` (RevisionNeverGoesBack), for any number of sessions and any budget
of surprises. The inductive invariant `WorkspaceInv` has three parts for each page.
`Fits(ed)` is the page on its own: what it carries at each point of its loop, and
that a restore that waits for its flush has exactly one call in the save chain, so
that no other flush can send it off. `Backed(ed)` says that the saved copy, and the
one the loop is about to adopt, come from the log at a revision the page has passed,
and so does the copy on the screen while it shows "Saved". `Faithful(s)` is about the
requests: a pending one was made against a revision the page has not gone back
behind, abandoned ones included; a save or a restore that has won while the page waits
for it brings a revision ahead of the page; and the two have not both won. The last
is what makes the order of their answers irrelevant, and holds because the winner
wrote on the page's own revision: the other one, made at that revision too, can only
be refused. ConflictStopsTheSession is the first of these: a write needs the newest
revision for its base (`CommitIsCurrent`), and no base is beyond the page's. PageInv,
BeginInv and ServerInv say what a turn, a request made and a step of the server owe to
the invariant.

**EvidenceProofs** proves `VersionsStayConsistent`, `FilesKeepMatching`,
`UploadAnswersStayTrue` and `LinksStayAudited`, the four invariants of the run. The
inductive invariant comes in layers. `Typed` says what a request carries at each
statement. `VersionsInv` says what it may still assume of the version table: the
number an upload has read is the next one or taken already, never beyond; its file
is its own and not listed until it publishes; and what it has published is listed
as long as the item lives. The unique key on the number turns "next or taken" into
"next". `FilesInv` cannot bound the versions that have lost their files alone: a
version whose COMMIT was answered by an error is still complete, but its upload is
about to delete the file, so `Lost` counts it from the failure on. `LinksInv` needs
that a request which has written a link cannot end without noting it, except by
losing the race for the control record. Steps that change nothing but a request
(half of the actions) are described once (`Quietly`), failures once (`FailureInv`),
and each remaining action has its lemma.

Of the picker it proves `PickerIsTyped` and `PickedListIsTheSearch`
(`[]ListIsTheSearch`), for any set of records, any page size and any number of searches
in flight. The sorting that one SELECT does is chosen (`Ordered`), so it has first to be
shown to exist: the oldest entry goes behind a sorting of the others, by induction on
how many there are. `Answers(table, list, more, f, touched)` then says that a list is a
beginning of the sorted search for `f`, but for the records touched since its first
page. A first page is one (`FirstPage`); behind the cursor of such a list the next page
continues it (`NextPage`), because a record that was changed has not become older than
the list says, so nothing listed comes up a second time. A change of a record turns an
answer into an answer with that record touched (`AnswersStay`). The
inductive invariant `PickerInv` has `Fits`: a list whose filter is on the screen and
that is not being replaced is an answer, and what the latest search in flight brings
will make one (`Awaits`), whichever of query, timer, reset or failure comes before it.
That the request's number decides needs `Shut`: a closed dialog has no latest search.

**ControlReviewProofs** proves `RecordsAreWhatActivitySays`
(`[]RecordsFollowActivity`) and `CreatedOnce` (`[]OneCreation`), for any fields and
values. A request decides INSERT or UPDATE and composes its activities from rows it
read before it held a lock. An UPDATE decided on an old read still finds its record,
because records are never deleted; an INSERT let through by the unique key keeps the
key until COMMIT, so that nobody publishes the control's record before it does.
`Good(c, r)` states both, and that every write in `pending` is one whose activities
say what it does (`Creations`, `Updates`). COMMIT then takes the review status along
without exception, since an upsert writes none. Of the fields an upsert writes, one
that its entry mentions is what the entry says (`FieldAfter`); one that it does not
mention is as it was read, hence stays as it is in the row unless somebody has changed
it since, which is when it enters `setBack` (`UpdateApplied`). `ensureControlRecord`
has no transaction; `Unannounced` describes what its INSERT leaves until its activity
is appended, and no two requests are at that point for one control. The lemmas about
timelines (where an entry of a type stands, where a field is mentioned, what the last
one says) carry the rest.

**TeamProofs** proves `TypeCorrect`, `MembersAreInvited` (`[]MembersWereInvited`) and
two properties of steps, `OnlyOpenInvitationsAdmit` (ClosedInvitationsAdmitNobody)
and `LastAdministratorFallsInARace` (AdministratorsRemain). A request inserts a role
it copied from an invitation several statements earlier, and deletes a membership
it looked at before it counted the administrators. `Good(r)` says what it may rely
on whatever the others do, and `Undisturbed(r)` what it may rely on as long as
nobody else changes the members: that is where an undisturbed removal gets its
second administrator from.

**WorkflowProofs** proves `TypeCorrect`, `RulesDoNotCascade` (`[]NoCascade`),
`ActionsAreRecorded` (`[]RunsAreRecorded`) and the property of steps `AssignsOnce`
(AutomationAssignsOnce). RunsAreRecorded speaks of requests that are over, so its
invariant must follow a rule from the moment its action changed something until the
INSERT of its execution: `Ahead(r)` is the set of rules a request has still to run
or to record for its event, and `Accounts(r)` says that a rule that acted for the
event is recorded, ahead, or lost to a deletion or a failure of the request, and
that everything ahead was loaded for that event. No two requests handle the same
event. `Shape(r)` is what a request carries at each statement; that the guard is
held while actions are left is part of it, and is what NoCascade needs. A deletion
takes the executions of its rule with it, which is why RunsAreRecorded excuses the
events the deleted rule ran for. `Unassigned` says that an undisturbed assign_user still
finds nobody assigned; a step that changes the assignments marks the requests that
have listed them. LedgerStep says once what a step may do to executions and ghosts,
and each kind of step is an instance of it.

The second part of ProjectWorkspaceProofs is about the editor, EditorHistory:

- `HistoryIsBounded` - `EditorSpec => []EditorTypeOK`, where EditorTypeOK bounds the
  history;
- `ScreenStaysPresent` - `EditorSpec => []ScreenIsPresent`;
- `EditorRefinesUndoStack` - `EditorSpec => ImplementsUndoStack`.

Here the inductive invariant is `EditorInv`, EditorTypeOK and ScreenIsPresent together:
an undo commits the open typing group first, and that the committed copy is the one on
the screen follows only from the second. For the refinement, one lemma per operation
of the history (UndoneTape, RedoneTape, PushedTape, ReplacedTape) says what it does
to the tape that past, present and the reversed future form; PushedTape has the
case in which the oldest copy falls off. TapeStep puts the actions on top of them.

The third is about the parameter panel, Parameters: `ParametersTyped`,
`EveryRecordIsAccepted` (`[]RecordsAreAccepted`), `DocumentationIsNeverSubstituted`
(`[]DocumentationIsNoAnswer`) and `UnresolvedIsAlwaysCounted`
(`[]UnresolvedIsCounted`). The first two are inductive with the record's form as the
invariant. The other two say that two walks over the catalog agree, one of which
(`Visited`) is a recursive function: both are facts about all typed states, and the
induction over the rounds of the walk is the lemma `SetInduction`, which speaks of a
set of numbers where the library speaks of a predicate.

**DiscussionProofs** proves `DiscussionTyped` (`[]TypeOK`, with one active notification
per event and recipient), `NobodyIsForgotten` (`[]MentionsAreAnnounced`) and
`QuietCommentsStayConsistent` (`[]QuietCommentsAreConsistent`). There are three
invariants, each on top of the one before. `FormedInv` says what a request carries at
each of its statements. `AnnouncedInv` says that whoever a comment mentions has been
told, or is still to be told by a request that wrote this very text (`Told`), and that
a request in its last statements has told, or has on its list, everybody its own text
mentions (`Telling`); a reader who deletes the notification takes the row and not the
fact that it was there, which is why the deduplication loses nobody. `QuietInv` is
about comments whose requests never overlapped: no two requests are at work on one,
what no request works on matches (`Match`: the mention rows are the text's, the flags
the last entries of the timeline), and `Halfway(r)` says what of the match the one
request has already moved: the old rows that are still to go, the new ones that are
there, the flag that is ahead of its entry. One lemma for each statement says what it
moves (`...Moves`), and each invariant has its lemma for each statement after them.

**CutoverProofs** proves `TypeCorrect`, `AcceptedCopiesAreFaithful`
(`[]AcceptedCopyIsFaithful`), `TimelinesAgreeThroughRuns` (`[]TimelinesAgree`) and the
property of steps `RunsAddRows` (RunsOnlyAdd). The invariant is about three databases:
the source, the target, and what the target will be when the run commits (`Copied`).
`Rowwise`, `Linked` and `Agree` are the keys, the foreign keys and the agreement of
records and timelines of any of them, so that one lemma per write of the application
serves all three: a write to the target is the same write to the third, because what
the tool has inserted is of projects that the target does not have. A step of the tool
adds to the third the rows its keys let in, and the commit makes the target the third.
What remains is that a record which the tool did insert comes with the newest of its
activities, which needs that nobody wrote between the four reads: the reason why
TimelinesAgree excepts runs that were written beside.

Only model-checked: RestoreLeavesRecoveryPoint, for the reason above; EditsSettle and
RestoreEnds, the liveness of ProjectWorkspace; and SearchSettles, that of
EvidencePicker. Liveness under fairness and ENABLED are beyond the prover, and so are
RECURSIVE operators; induction is possible for a property that can be written as a set
of numbers (`SetInduction`).

## Abstractions

- Documents have three parts (name, text, parameters) and come in the normal
  form the server gives them; only ProjectWorkspace tells a name from its
  trimmed form. Fingerprints are the documents themselves.
- `createdAt` is the order of insertion.
- A page has at most one restore in flight (the dialog is modal). Named
  versions, "Snapshot now", leaving the page and the field synchronisation of
  the workflow panel are not part of ProjectWorkspace.
- Permission and tenant checks come before every request and only refuse it.
- Rename also fills in a blank system name; documents here have one.
- Mails, links, slugs and the switch between organizations are not part of Team;
  a user is an email address.
- A comment's text is the set of members it mentions. Notifications of assignments
  and of workflow actions take the path that Discussion models and are left out.
- Workflow has the actions assign_user and change_status and one condition per
  rule. notify_user, notify_role, assign_role and set_due_date, the
  editing of rules, the due-date events and the diagnostics are left out;
  set_due_date reads and writes like change_status.
- Cutover has one control per project and named snapshots only; chunks of ids are
  one statement; the legacy store is what its writes leave in the tables.
- Of an evidence record the search looks at a text, a type, its status and its link to
  one control; the filters that only the evidence browser sets are left out, and so
  are owner, dates and file names.
- The answers to a page's requests come in any order, although the framework may
  send the actions of one page one after the other: its queue is not in this
  repository.
- A parameter's text is a name, its notes and captions are left out, and of a choice's
  text its key and inserts are kept. The records of a control meet one release at a
  time.
- The two SELECTs of evidence's `getById` are one step. Of an evidence item's
  fields the status is kept. The activity of a record's creation, which names no value,
  keeps the metadata it was created with.

## Plan

Written: RevisionLog, ProjectStore, ProjectWorkspace, Evidence, ControlReview,
Authorization, Team, Discussion, Workflow, UndoStack, EditorHistory, Cutover,
EvidencePicker, Parameters, and proofs about each of them.
Next, in this order:

1. Proofs - RestoreLeavesRecoveryPoint under a bound on the restores that other
   requests complete while one is on its way.
2. Pure functions - completion, freshness and the activity clock, against
   reference definitions.
3. ProjectWorkspace with the contents of control records and named versions.

## Not modelled

Authentication (a library), parsing and migration of documents, the generation of
the catalogs at build time, completion, coverage and freshness, rendering of the SSP
and of OSCAL, pages and components other than the workspace, the parameter panel
and the evidence picker, deployment, help and seed data: static data, pure functions
and rendering, read-only queries or code outside the running application.
PROJECT.json gives the reason for each under "components", with what the models of
partly modelled components leave out.
