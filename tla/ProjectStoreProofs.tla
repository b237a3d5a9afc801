---- MODULE ProjectStoreProofs ----
(***************************************************************************)
(* Proofs about ProjectStore for every number of clients, every document   *)
(* set and every bound.  None of the checked invariants is inductive by    *)
(* itself: what makes the conditional UPDATE safe is what a request still  *)
(* knows, several statements later, about the row it read.  Good(r) says   *)
(* that, and StoreInv joins it with the invariants it supports.  FitInv    *)
(* adds what the refinement of RevisionLog needs of a request, TidyInv     *)
(* what its list of snapshots to delete and everybody else's still mean    *)
(* when the deletions run.                                                 *)
(***************************************************************************)
EXTENDS ProjectStore, FiniteSetTheorems, WellFoundedInduction, TLAPS

(* What holds of a request in flight, whatever was committed since it      *)
(* read the row.                                                           *)
Good(c, r) ==
    /\ r.expected <= Len(hist)
    /\ r.seen # None => /\ r.seen.rev <= Len(hist)
                        /\ r.seen.doc = hist[r.seen.rev].doc
    /\ r.pc \in {"fetch", "rows", "insert", "cas"} => r.seen # None
    /\ r.pc = "load" /\ r.kind = "rename" => r.target \in Names
    /\ r.pc = "fetch" => r.kind = "restore"
    /\ r.pc = "rows" => r.kind # "restore"
    /\ r.pc \in {"insert", "prune", "delete"} /\ r.kind = "restore" => r.doc # None
    /\ r.pc \in {"read", "cas", "after"} => r.kind \in Writers /\ r.doc # None
    /\ r.pc = "cas" => r.seen.rev = r.expected
    /\ r.pc \in {"read", "cas"} /\ r.kind = "rename" =>
         /\ 1 <= r.expected
         /\ r.doc.text = hist[r.expected].doc.text
         /\ r.doc.params = hist[r.expected].doc.params
    /\ r.pc = "cas" /\ r.kind = "patch" =>
         r.doc.params = hist[r.expected].doc.params
    /\ r.pc = "after" \/ r.answer # None =>
         /\ r.expected + 1 <= Len(hist)
         /\ hist[r.expected + 1] = [doc |-> r.doc, by |-> c, kind |-> r.kind]
    /\ r.answer # None =>
         /\ r.expected + 1 <= r.answer.rev /\ r.answer.rev <= Len(hist)
         /\ r.answer.doc = hist[r.answer.rev].doc
         /\ r.pc = "done" \/ (/\ r.kind \in {"save", "patch"}
                              /\ r.pc \notin {"idle", "fetch", "read", "cas", "after"})
    /\ r.outcome = "conflict" =>
         r.pc = "done" /\ (r.expected < Len(hist) \/ row = NoRow)

StoreInv ==
    /\ TypeOK
    /\ Len(hist) >= 1
    /\ RevisionCountsCommits
    /\ SnapshotsAreFaithful
    /\ PartialWritesKeepTheRest
    /\ \A c \in Clients : Good(c, req[c])
----
(* What appending to a sequence keeps and adds.                            *)
LEMMA AppendFacts ==
    ASSUME NEW S, NEW s \in Seq(S), NEW x \in S
    PROVE  /\ Append(s, x) \in Seq(S)
           /\ Len(Append(s, x)) = Len(s) + 1
           /\ \A i \in 1..Len(s) : Append(s, x)[i] = s[i]
           /\ Append(s, x)[Len(s) + 1] = x
  OBVIOUS

(* A step that changes one request, neither the row nor the history, keeps *)
(* every request good.                                                     *)
LEMMA RequestStep ==
    ASSUME StoreInv, NEW c \in Clients, NEW r \in Requests, Good(c, r),
           Set(c, r), row' = row, hist' = hist
    PROVE  /\ req' \in [Clients -> Requests]
           /\ \A d \in Clients : Good(d, req[d])'
  <1>1. req \in [Clients -> Requests]
    BY DEF StoreInv, TypeOK
  <1>2. ASSUME NEW d \in Clients PROVE Good(d, req'[d])
    <2>1. CASE d = c
      BY <1>1, <2>1 DEF Set
    <2>2. CASE d # c
      BY <1>1, <2>2 DEF Set, StoreInv
    <2>3. QED BY <2>1, <2>2
  <1>3. ASSUME NEW d \in Clients PROVE Good(d, req[d])'
    BY <1>2, <1>3 DEF Good
  <1>4. QED BY <1>1, <1>3 DEF Set

(* A step that changes one request and the snapshot table.                 *)
LEMMA SnapshotStep ==
    ASSUME StoreInv, NEW c \in Clients, NEW r \in Requests, Good(c, r),
           Set(c, r), row' = row, hist' = hist,
           snapshots' \subseteq Snapshots,
           \A s \in snapshots' : s.rev <= Len(hist) /\ s.doc = hist[s.rev].doc,
           stamp' \in Nat, cooling' \in BOOLEAN, failures' \in Nat
    PROVE  StoreInv'
  <1>1. /\ req' \in [Clients -> Requests]
        /\ \A d \in Clients : Good(d, req[d])'
    BY RequestStep
  <1>2. TypeOK'
    BY <1>1 DEF StoreInv, TypeOK
  <1>3. /\ (Len(hist) >= 1)' /\ RevisionCountsCommits'
        /\ SnapshotsAreFaithful' /\ PartialWritesKeepTheRest'
    BY DEF StoreInv, RevisionCountsCommits, SnapshotsAreFaithful,
           PartialWritesKeepTheRest
  <1>4. QED BY <1>1, <1>2, <1>3 DEF StoreInv

(* A step that changes one request and nothing that is stored.             *)
LEMMA QuietStep ==
    ASSUME StoreInv, NEW c \in Clients, NEW r \in Requests, Good(c, r),
           Set(c, r), UNCHANGED Storage
    PROVE  StoreInv'
  <1>1. /\ row' = row /\ hist' = hist /\ snapshots' = snapshots
        /\ stamp' = stamp /\ cooling' = cooling /\ failures' = failures
    BY DEF Storage
  <1>2. /\ snapshots \subseteq Snapshots
        /\ stamp \in Nat /\ cooling \in BOOLEAN /\ failures \in Nat
        /\ \A s \in snapshots : s.rev <= Len(hist) /\ s.doc = hist[s.rev].doc
    BY DEF StoreInv, TypeOK, SnapshotsAreFaithful
  <1>3. QED BY <1>1, <1>2, SnapshotStep

Ended(c, outcome) == [req[c] EXCEPT !.pc = "done", !.outcome = outcome,
                                    !.seen = None, !.doomed = {}]

(* Ending a request keeps it good, provided a "conflict" is a true one.    *)
LEMMA EndIsGood ==
    ASSUME StoreInv, NEW c \in Clients, NEW o \in Outcomes,
           o = "conflict" => req[c].expected < Len(hist) \/ row = NoRow
    PROVE  Ended(c, o) \in Requests /\ Good(c, Ended(c, o))
  <1>1. req[c] \in Requests /\ Good(c, req[c])
    BY DEF StoreInv, TypeOK
  <1>2. Ended(c, o) \in Requests
    BY <1>1 DEF Ended, Requests, Steps, Outcomes
  <1>3. Good(c, Ended(c, o))
    BY <1>1 DEF Ended, Requests, Good, Writers
  <1>4. QED BY <1>2, <1>3

LEMMA IdleIsGood ==
    ASSUME StoreInv, NEW c \in Clients
    PROVE  Idle \in Requests /\ Good(c, Idle)
  BY StoreAssumption DEF Idle, Requests, Good, Steps, Writers, Outcomes,
                         StoreInv, TypeOK
----
(* One lemma per statement of the repository.                              *)

LEMMA EndStep ==
    ASSUME StoreInv, NEW c \in Clients, NEW o \in Outcomes,
           o = "conflict" => req[c].expected < Len(hist) \/ row = NoRow,
           End(c, o), UNCHANGED Storage
    PROVE  StoreInv'
  BY EndIsGood, QuietStep DEF End, Ended

LEMMA InvTypes ==
    ASSUME StoreInv, NEW c \in Clients
    PROVE  /\ req[c] \in Requests
           /\ Good(c, req[c])
           /\ row \in Rows \cup {NoRow}
           /\ row # NoRow => /\ row.rev = Len(hist)
                             /\ row.doc = hist[Len(hist)].doc
                             /\ row \in Rows
           /\ hist \in Seq([doc : Docs, by : Clients \cup {None},
                             kind : Writers \cup {"create"}])
           /\ Len(hist) \in Nat /\ Len(hist) >= 1
  BY DEF StoreInv, TypeOK, RevisionCountsCommits

LEMMA StartStep ==
    ASSUME StoreInv, StoreAssumption, NEW c \in Clients,
           NEW pc \in {"load", "read"}, NEW kind \in Kinds,
           NEW e \in Nat, e <= Len(hist),
           NEW target \in Nat \cup Names \cup {None},
           NEW doc \in Docs \cup {None},
           pc = "read" => kind \in {"save", "patch"} /\ doc # None,
           kind = "rename" => target \in Names,
           Start(c, pc, kind, e, target, doc)
    PROVE  StoreInv'
  <1> DEFINE r == [Idle EXCEPT !.pc = pc, !.kind = kind, !.expected = e,
                               !.target = target, !.doc = doc]
  <1>1. /\ r.pc = pc /\ r.kind = kind /\ r.expected = e /\ r.target = target
        /\ r.doc = doc /\ r.seen = None /\ r.outcome = None /\ r.answer = None
    BY DEF Idle
  <1>2. r \in Requests
    <2>1. Idle \in Requests
      BY IdleIsGood
    <2>2. QED BY <2>1 DEF Requests, Steps
  <1>3. Good(c, r)
    BY <1>1, StoreAssumption DEF Good, Writers, Outcomes
  <1>4. Set(c, r) /\ UNCHANGED Storage
    BY DEF Start
  <1>5. QED BY <1>2, <1>3, <1>4, QuietStep

LEMMA LoadStep ==
    ASSUME StoreInv, NEW c \in Clients, loadRow(c)
    PROVE  StoreInv'
  <1> DEFINE r == req[c]
  <1> USE DEF At
  <1>1. /\ r \in Requests /\ Good(c, r) /\ r.pc = "load" /\ UNCHANGED Storage
    BY InvTypes DEF loadRow
  <1>2. CASE row = NoRow
    <2>1. PICK o \in Outcomes \ {"conflict"} : End(c, o)
      BY <1>2 DEF loadRow, Outcomes
    <2>2. QED BY <1>1, <2>1, EndStep
  <1>3. CASE /\ row # NoRow /\ r.kind \in {"version", "restore"}
             /\ ExpectationFails(r, row)
    <2>1. r.expected < Len(hist)
      BY <1>1, <1>3, InvTypes DEF ExpectationFails, Good, Requests
    <2>2. End(c, "conflict")
      BY <1>3 DEF loadRow
    <2>3. QED BY <1>1, <2>1, <2>2, EndStep DEF Outcomes
  <1> DEFINE q == Loaded(r)
  <1>4. CASE /\ row # NoRow /\ r.kind # "rename" /\ Set(c, Loaded(r))
    <2>1. q.seen # None /\ q.seen.rev <= Len(hist) /\ q.seen.doc = hist[q.seen.rev].doc
      BY <1>1, <1>4, InvTypes, StoreAssumption DEF Requests, Rows, Loaded
    <2>2. \A f \in {"kind", "expected", "doc", "outcome", "answer"} : q[f] = r[f]
      BY <1>1, <1>4 DEF Requests, Loaded
    <2>3. /\ q.pc \in {"insert", "fetch", "rows"}
          /\ q.pc = "fetch" <=> r.kind = "restore"
      BY <1>1, <1>4 DEF Requests, Loaded
    <2>4. q \in Requests
      BY <1>1, <1>4, InvTypes DEF Requests, Steps, Loaded
    <2>5. Good(c, q)
      BY <1>1, <2>1, <2>2, <2>3 DEF Good, Writers
    <2>6. QED BY <1>1, <1>4, <2>4, <2>5, QuietStep
  <1>5. CASE /\ row # NoRow /\ r.kind = "rename" /\ Set(c, Loaded(r))
    <2> DEFINE d == [row.doc EXCEPT !.name = r.target]
    <2>1. /\ row.doc \in Docs /\ row.rev \in Nat /\ row.rev >= 1
          /\ row.rev = Len(hist) /\ row.doc = hist[Len(hist)].doc
      BY <1>5, InvTypes DEF Rows
    <2>2. d \in Docs /\ d.text = row.doc.text /\ d.params = row.doc.params
      BY <1>1, <1>5, <2>1 DEF Docs, Good
    <2>3. q = [r EXCEPT !.seen = row, !.pc = "read", !.expected = row.rev, !.doc = d]
      BY <1>1, <1>5 DEF Loaded
    <2>4. q \in Requests
      <3>1. ASSUME NEW e \in Docs, NEW n \in Nat, NEW w \in Rows
            PROVE  [r EXCEPT !.seen = w, !.pc = "read", !.expected = n, !.doc = e]
                      \in Requests
        BY <1>1 DEF Requests, Steps
      <3>2. row \in Rows
        BY <1>5, InvTypes
      <3> HIDE DEF d, q, r
      <3>3. QED BY <2>1, <2>2, <2>3, <3>1, <3>2, Zenon
    <2>5. /\ q.pc = "read" /\ q.kind = "rename" /\ q.expected = row.rev
          /\ q.seen = row /\ q.doc = d
          /\ q.answer = r.answer /\ q.outcome = r.outcome
      BY <1>1, <1>5, <2>3 DEF Requests
    <2>6. r.answer = None /\ r.outcome # "conflict"
      BY <1>1, <1>5 DEF Good
    <2>7. /\ q.doc # None
          /\ q.doc.text = hist[q.expected].doc.text
          /\ q.doc.params = hist[q.expected].doc.params
      BY <2>1, <2>2, <2>5, StoreAssumption
    <2>8. Good(c, q)
      BY <1>1, <1>5, <2>1, <2>5, <2>6, <2>7 DEF Good, Writers
    <2>9. QED BY <1>1, <1>5, <2>4, <2>8, QuietStep
  <1>6. QED
    BY <1>2, <1>3, <1>4, <1>5 DEF loadRow

LEMMA FetchStep ==
    ASSUME StoreInv, StoreAssumption, NEW c \in Clients, getSnapshot(c)
    PROVE  StoreInv'
  <1> DEFINE r == req[c]
  <1>1. /\ r \in Requests /\ Good(c, r) /\ r.pc = "fetch" /\ UNCHANGED Storage
    BY InvTypes DEF getSnapshot, At
  <1>2. ASSUME NEW s \in snapshots,
               Set(c, [r EXCEPT !.pc = "insert", !.doc = s.doc])
        PROVE  StoreInv'
    <2> DEFINE q == [r EXCEPT !.pc = "insert", !.doc = s.doc]
    <2>1. s.doc \in Docs
      BY DEF StoreInv, TypeOK, Snapshots
    <2>2. q \in Requests
      BY <1>1, <2>1 DEF Requests, Steps
    <2>3. /\ q.pc = "insert" /\ q.doc = s.doc /\ q.doc # None
          /\ \A f \in {"kind", "expected", "seen", "outcome", "answer"} : q[f] = r[f]
      BY <1>1, <2>1, StoreAssumption DEF Requests
    <2>4. Good(c, q)
      BY <1>1, <2>3 DEF Good, Writers
    <2>5. QED BY <1>1, <1>2, <2>2, <2>4, QuietStep
  <1>3. CASE End(c, "not-found")
    BY <1>1, <1>3, EndStep DEF Outcomes
  <1>4. QED BY <1>2, <1>3 DEF getSnapshot

LEMMA DecideStep ==
    ASSUME StoreInv, NEW c \in Clients, decideAutomatic(c)
    PROVE  StoreInv'
  <1> DEFINE r == req[c]
             q == [r EXCEPT !.pc = "insert"]
  <1>1. /\ r \in Requests /\ Good(c, r) /\ r.pc = "rows" /\ UNCHANGED Storage
    BY InvTypes DEF decideAutomatic, At
  <1>2. CASE End(c, "ok")
    BY <1>1, <1>2, EndStep DEF Outcomes
  <1>3. CASE Set(c, q)
    <2>1. q \in Requests
      BY <1>1 DEF Requests, Steps
    <2>2. /\ q.pc = "insert"
          /\ \A f \in {"kind", "expected", "doc", "seen", "outcome", "answer"} :
               q[f] = r[f]
      BY <1>1 DEF Requests
    <2>3. r.kind # "restore"
      BY <1>1 DEF Good
    <2>4. Good(c, q)
      BY <1>1, <2>2, <2>3 DEF Good, Writers
    <2>5. QED BY <1>1, <1>3, <2>1, <2>4, QuietStep
  <1>4. QED BY <1>2, <1>3 DEF decideAutomatic, GoTo

LEMMA InsertStep ==
    ASSUME StoreInv, NEW c \in Clients, insertSnapshot(c)
    PROVE  StoreInv'
  <1> DEFINE r == req[c]
             q == [r EXCEPT !.pc = "prune"]
             s == SnapshotOf(r)
  <1>1. /\ r \in Requests /\ Good(c, r) /\ r.pc = "insert"
        /\ row' = row /\ failures' = failures /\ hist' = hist
    BY InvTypes DEF insertSnapshot, At
  <1>2. CASE row = NoRow
    <2>1. End(c, "error") /\ UNCHANGED Storage
      BY <1>1, <1>2 DEF insertSnapshot, Storage
    <2>2. QED BY <2>1, EndStep DEF Outcomes
  <1>3. CASE row # NoRow
    <2>1. /\ snapshots' = snapshots \cup {s} /\ stamp' = stamp + 1
          /\ cooling' = (cooling \/ SnapshotType(r.kind) = "automatic")
          /\ Set(c, q)
      BY <1>3 DEF insertSnapshot, GoTo
    <2>2. /\ s \in Snapshots
          /\ s.rev <= Len(hist) /\ s.doc = hist[s.rev].doc
      <3>1. r.seen \in Rows /\ r.seen.rev <= Len(hist)
                            /\ r.seen.doc = hist[r.seen.rev].doc
        BY <1>1 DEF Good, Requests
      <3>2. stamp \in Nat /\ SnapshotType(r.kind) \in SnapshotTypes
        BY DEF StoreInv, TypeOK, SnapshotType, SnapshotTypes
      <3>3. QED BY <3>1, <3>2 DEF SnapshotOf, Snapshots, Rows
    <2>3. q \in Requests
      BY <1>1 DEF Requests, Steps
    <2>4. /\ q.pc = "prune"
          /\ \A f \in {"kind", "expected", "doc", "seen", "outcome", "answer"} :
               q[f] = r[f]
      BY <1>1 DEF Requests
    <2>5. Good(c, q)
      BY <1>1, <2>4 DEF Good, Writers
    <2>6. /\ snapshots' \subseteq Snapshots
          /\ \A x \in snapshots' : x.rev <= Len(hist) /\ x.doc = hist[x.rev].doc
      BY <2>1, <2>2 DEF StoreInv, TypeOK, SnapshotsAreFaithful
    <2>7. stamp' \in Nat /\ cooling' \in BOOLEAN /\ failures' \in Nat
      BY <1>1, <2>1 DEF StoreInv, TypeOK
    <2>8. QED BY <1>1, <2>1, <2>3, <2>5, <2>6, <2>7, SnapshotStep
  <1>4. QED BY <1>2, <1>3

(* What follows the pruning is a good request again.                       *)
LEMMA AfterPruneIsGood ==
    ASSUME StoreInv, NEW c \in Clients, req[c].pc \in {"prune", "delete"},
           AfterPrune(c)
    PROVE  \E q \in Requests : Good(c, q) /\ Set(c, q)
  <1> DEFINE r == req[c]
             q == [r EXCEPT !.pc = "read", !.seen = None, !.doomed = {}]
  <1>1. r \in Requests /\ Good(c, r)
    BY InvTypes
  <1>2. CASE r.kind = "restore"
    <2>1. Set(c, q)
      BY <1>2 DEF AfterPrune
    <2>2. q \in Requests
      BY <1>1 DEF Requests, Steps
    <2>3. /\ q.pc = "read" /\ q.seen = None
          /\ \A f \in {"kind", "expected", "doc", "outcome", "answer"} : q[f] = r[f]
      BY <1>1 DEF Requests
    <2>4. Good(c, q)
      BY <1>1, <1>2, <2>3 DEF Good, Writers
    <2>5. QED BY <2>1, <2>2, <2>4
  <1>3. CASE r.kind # "restore"
    <2>1. End(c, "ok")
      BY <1>3 DEF AfterPrune
    <2>2. QED BY <2>1, EndIsGood DEF End, Ended, Outcomes
  <1>4. QED BY <1>2, <1>3

(* A request keeps its good standing when only its list of ids changes.    *)
LEMMA DoomedIsGood ==
    ASSUME StoreInv, NEW c \in Clients, req[c].pc \in {"prune", "delete"},
           NEW ids \in SUBSET Nat
    PROVE  LET q == [req[c] EXCEPT !.pc = "delete", !.doomed = ids]
           IN  q \in Requests /\ Good(c, q)
  <1> DEFINE r == req[c]
             q == [r EXCEPT !.pc = "delete", !.doomed = ids]
  <1>1. r \in Requests /\ Good(c, r)
    BY InvTypes
  <1>2. q \in Requests
    BY <1>1 DEF Requests, Steps
  <1>3. /\ q.pc = "delete"
        /\ \A f \in {"kind", "expected", "doc", "seen", "outcome", "answer"} :
             q[f] = r[f]
    BY <1>1 DEF Requests
  <1>4. Good(c, q)
    BY <1>1, <1>3 DEF Good, Writers
  <1>5. QED BY <1>2, <1>4

LEMMA PruneStep ==
    ASSUME StoreInv, NEW c \in Clients, pruneSnapshots(c)
    PROVE  StoreInv'
  <1> DEFINE ids == snapshotIdsToPrune(snapshots)
  <1>1. req[c].pc = "prune" /\ UNCHANGED Storage
    BY DEF pruneSnapshots, At
  <1>2. CASE AfterPrune(c)
    BY <1>1, <1>2, AfterPruneIsGood, QuietStep
  <1>3. CASE Set(c, [req[c] EXCEPT !.pc = "delete", !.doomed = ids])
    <2>1. ids \in SUBSET Nat
      BY DEF snapshotIdsToPrune, StoreInv, TypeOK, Snapshots
    <2> HIDE DEF ids
    <2>2. QED BY <1>1, <1>3, <2>1, DoomedIsGood, QuietStep
  <1>4. QED BY <1>2, <1>3 DEF pruneSnapshots

LEMMA DeleteStep ==
    ASSUME StoreInv, NEW c \in Clients, deletePruned(c)
    PROVE  StoreInv'
  <1>1. PICK id \in req[c].doomed :
          /\ snapshots' = {s \in snapshots : s.id # id}
          /\ IF req[c].doomed = {id}
             THEN AfterPrune(c)
             ELSE Set(c, [req[c] EXCEPT !.doomed = @ \ {id}])
    BY DEF deletePruned
  <1>2. /\ req[c].pc = "delete" /\ row' = row /\ hist' = hist
        /\ stamp' \in Nat /\ cooling' \in BOOLEAN /\ failures' \in Nat
    BY DEF deletePruned, At, StoreInv, TypeOK
  <1>3. \E q \in Requests : Good(c, q) /\ Set(c, q)
    <2>1. CASE AfterPrune(c)
      BY <1>2, <2>1, AfterPruneIsGood
    <2>2. CASE Set(c, [req[c] EXCEPT !.doomed = @ \ {id}])
      <3> DEFINE ids == req[c].doomed \ {id}
      <3>1. ids \in SUBSET Nat /\ req[c] \in Requests
        BY InvTypes DEF Requests
      <3>2. [req[c] EXCEPT !.doomed = @ \ {id}]
              = [req[c] EXCEPT !.pc = "delete", !.doomed = ids]
        BY <1>2, <3>1 DEF Requests
      <3>3. QED BY <1>2, <2>2, <3>1, <3>2, DoomedIsGood
    <2>3. QED BY <1>1, <2>1, <2>2
  <1>4. /\ snapshots' \subseteq Snapshots
        /\ \A s \in snapshots' : s.rev <= Len(hist) /\ s.doc = hist[s.rev].doc
    BY <1>1 DEF StoreInv, TypeOK, SnapshotsAreFaithful
  <1>5. QED BY <1>2, <1>3, <1>4, SnapshotStep

LEMMA ReadStep ==
    ASSUME StoreInv, StoreAssumption, NEW c \in Clients, readRow(c)
    PROVE  StoreInv'
  <1> DEFINE r == req[c]
             d == DocumentToWrite(r)
             q == [r EXCEPT !.pc = "cas", !.seen = row, !.doc = d]
  <1>1. /\ r \in Requests /\ Good(c, r) /\ r.pc = "read" /\ UNCHANGED Storage
    BY InvTypes DEF readRow, At
  <1>2. CASE saveRefusal(r) = None
    <2>1. row # NoRow /\ r.expected = row.rev
      BY <1>2, StoreAssumption DEF saveRefusal, ExpectationFails, Outcomes
    <2>2. /\ row \in Rows /\ row.doc \in Docs /\ row.rev = Len(hist)
          /\ row.doc = hist[r.expected].doc /\ r.doc \in Docs
      BY <1>1, <2>1, InvTypes DEF Rows, Good, Requests
    <2>3. /\ d \in Docs
          /\ r.kind = "patch" => d.params = row.doc.params
          /\ r.kind # "patch" => d = r.doc
      BY <2>2 DEF DocumentToWrite, Docs
    <2> HIDE DEF d
    <2>4. q \in Requests
      BY <1>1, <2>2, <2>3 DEF Requests, Steps
    <2>5. /\ q.pc = "cas" /\ q.seen = row /\ q.doc = d
          /\ \A f \in {"kind", "expected", "outcome", "answer"} : q[f] = r[f]
      BY <1>1 DEF Requests
    <2>6. q.seen # None /\ q.doc # None
      BY <2>2, <2>3, <2>5, StoreAssumption
    <2>7. Good(c, q)
      BY <1>1, <2>1, <2>2, <2>3, <2>5, <2>6, InvTypes DEF Good, Writers
    <2>8. Set(c, q)
      BY <1>2 DEF readRow, d
    <2>9. QED BY <1>1, <2>4, <2>7, <2>8, QuietStep
  <1>3. CASE saveRefusal(r) # None
    <2>1. saveRefusal(r) \in Outcomes /\ End(c, saveRefusal(r))
      BY <1>3 DEF saveRefusal, Outcomes, readRow
    <2>2. saveRefusal(r) = "conflict" => r.expected < Len(hist) \/ row = NoRow
      BY <1>1, InvTypes, StoreAssumption
         DEF saveRefusal, ExpectationFails, Requests, Good, Outcomes
    <2>3. QED BY <1>1, <2>1, <2>2, EndStep
  <1>4. QED BY <1>2, <1>3

(* The commit.  Every request keeps what it knew, because the history only *)
(* grows.                                                                  *)
Entries == [doc : Docs, by : Clients \cup {None}, kind : Writers \cup {"create"}]

LEMMA GrowthKeepsGood ==
    ASSUME StoreInv, NEW c \in Clients, NEW r \in Requests, Good(c, r),
           NEW e \in Entries, hist' = Append(hist, e), r' = r, row # NoRow
    PROVE  Good(c, r)'
  <1>1. /\ hist \in Seq(Entries) /\ Len(hist) \in Nat
        /\ Len(hist') = Len(hist) + 1
        /\ \A i \in 1..Len(hist) : hist'[i] = hist[i]
    BY AppendFacts DEF StoreInv, TypeOK, Entries
  <1>2. r.expected \in Nat /\ (r.expected >= 1 => hist'[r.expected] = hist[r.expected])
    BY <1>1 DEF Requests, Good
  <1>3. r.seen # None =>
          /\ r.seen.rev \in Nat /\ r.seen.rev >= 1
          /\ hist'[r.seen.rev] = hist[r.seen.rev]
    BY <1>1 DEF Requests, Good, Rows
  <1>4. r.pc = "after" \/ r.answer # None =>
          hist'[r.expected + 1] = hist[r.expected + 1]
    BY <1>1, <1>2 DEF Good
  <1>5. r.answer # None =>
          /\ r.answer.rev \in Nat
          /\ hist'[r.answer.rev] = hist[r.answer.rev]
    BY <1>1, <1>2 DEF Requests, Good, Rows
  <1>6. QED
    BY <1>1, <1>2, <1>3, <1>4, <1>5 DEF Good

LEMMA UpdateStep ==
    ASSUME StoreInv, StoreAssumption, NEW c \in Clients, conditionalUpdate(c)
    PROVE  StoreInv'
  <1> DEFINE r == req[c]
             q == [r EXCEPT !.pc = "after"]
             e == [doc |-> r.doc, by |-> c, kind |-> r.kind]
             n == Len(hist)
  <1>1. /\ r \in Requests /\ Good(c, r) /\ r.pc = "cas" /\ r.seen # None
        /\ snapshots' = snapshots /\ stamp' = stamp /\ cooling' = cooling
        /\ failures' = failures
    BY InvTypes DEF conditionalUpdate, At, Good
  <1>2. CASE ~ UpdateMatches(r)
    <2>1. End(c, "conflict") /\ UNCHANGED Storage
      BY <1>1, <1>2 DEF conditionalUpdate, Storage
    <2>2. r.expected < Len(hist) \/ row = NoRow
      BY <1>1, <1>2, InvTypes DEF UpdateMatches, Requests, Good
    <2>3. QED BY <2>1, <2>2, EndStep DEF Outcomes
  <1>3. CASE UpdateMatches(r)
    <2>1. /\ row' = [rev |-> r.seen.rev + 1, doc |-> r.doc]
          /\ hist' = Append(hist, e) /\ Set(c, q) /\ row # NoRow
      BY <1>3 DEF conditionalUpdate, GoTo, UpdateMatches
    <2>2. /\ r.seen.rev = r.expected /\ r.expected = n /\ n \in Nat /\ n >= 1
          /\ row.doc = hist[n].doc
      BY <1>1, <1>3, InvTypes DEF UpdateMatches, Good
    <2>3. e \in Entries /\ r.doc \in Docs
      BY <1>1 DEF Good, Requests, Entries
    <2>4. /\ hist' \in Seq(Entries) /\ Len(hist') = n + 1
          /\ \A i \in 1..n : hist'[i] = hist[i]
          /\ hist'[n + 1] = e
      <3>1. hist \in Seq(Entries)
        BY DEF StoreInv, TypeOK, Entries
      <3> HIDE DEF e, n
      <3>2. QED BY <2>1, <2>3, <3>1, AppendFacts DEF n
    <2>5. row' \in Rows /\ RevisionCountsCommits'
      BY <2>1, <2>2, <2>3, <2>4 DEF Rows, RevisionCountsCommits
    <2>6. SnapshotsAreFaithful'
      <3>1. ASSUME NEW s \in snapshots
            PROVE  s.rev <= Len(hist') /\ s.doc = hist'[s.rev].doc
        <4>1. s.rev \in 1..n /\ s.doc = hist[s.rev].doc
          BY <2>2 DEF StoreInv, TypeOK, Snapshots, SnapshotsAreFaithful
        <4>2. QED BY <2>2, <2>4, <4>1
      <3>2. QED BY <1>1, <3>1 DEF SnapshotsAreFaithful
    <2>7. PartialWritesKeepTheRest'
      <3>1. ASSUME NEW i \in 2..(n + 1)
            PROVE  /\ hist'[i].kind = "rename" => hist'[i].doc.text = hist'[i-1].doc.text
                   /\ hist'[i].kind \in {"rename", "patch"} =>
                        hist'[i].doc.params = hist'[i-1].doc.params
        <4>1. CASE i <= n
          <5>1. i \in 2..n /\ hist'[i] = hist[i] /\ hist'[i-1] = hist[i-1]
            BY <2>2, <2>4, <4>1
          <5>2. QED BY <5>1 DEF StoreInv, PartialWritesKeepTheRest
        <4>2. CASE i = n + 1
          <5>1. hist'[i] = e /\ hist'[i-1] = hist[n]
            BY <2>2, <2>4, <4>2
          <5>2. QED BY <1>1, <2>2, <5>1 DEF Good
        <4>3. QED BY <2>2, <4>1, <4>2
      <3>2. QED BY <2>2, <2>4, <3>1 DEF PartialWritesKeepTheRest
    <2>8. q \in Requests
      BY <1>1 DEF Requests, Steps
    <2>9. /\ q.pc = "after"
          /\ \A f \in {"kind", "expected", "doc", "seen", "outcome", "answer"} :
               q[f] = r[f]
      BY <1>1 DEF Requests
    <2>10. req' \in [Clients -> Requests] /\ req'[c] = q
                /\ \A d \in Clients : d # c => req'[d] = req[d]
      BY <2>1, <2>8 DEF StoreInv, TypeOK, Set
    <2>11. ASSUME NEW d \in Clients PROVE Good(d, req[d])'
      <3>1. CASE d # c
        <4>1. req[d] \in Requests /\ Good(d, req[d]) /\ req'[d] = req[d]
          BY <2>10, <3>1, InvTypes
        <4> HIDE DEF e
        <4>2. QED BY <2>1, <2>3, <4>1, GrowthKeepsGood
      <3>2. CASE d = c
        <4>1. /\ r.answer = None /\ r.outcome # "conflict"
              /\ r.kind \in Writers /\ r.doc # None
              /\ r.seen.doc = hist[r.seen.rev].doc
          BY <1>1 DEF Good
        <4>2. req'[d] = q
          BY <2>10, <3>2
        <4>3. /\ q.expected = n /\ q.doc = r.doc /\ q.kind = r.kind
              /\ q.seen.rev = n /\ q.seen.doc = hist'[n].doc
              /\ q.answer = None /\ q.outcome # "conflict"
          BY <2>2, <2>4, <2>9, <4>1
        <4>4. hist'[q.expected + 1] = [doc |-> q.doc, by |-> c, kind |-> q.kind]
          BY <2>4, <4>3
        <4>5. /\ req'[d].expected = n /\ req'[d].doc # None
              /\ req'[d].kind \in Writers /\ req'[d].pc = "after"
              /\ req'[d].seen.rev = n /\ req'[d].seen.doc = hist'[n].doc
              /\ req'[d].answer = None /\ req'[d].outcome # "conflict"
              /\ hist'[n + 1] = [doc |-> req'[d].doc, by |-> c, kind |-> req'[d].kind]
          BY <2>9, <4>1, <4>2, <4>3, <4>4
        <4> HIDE DEF q, e
        <4>6. QED BY <2>2, <2>4, <3>2, <4>5 DEF Good
      <3>3. QED BY <3>1, <3>2
    <2>12. TypeOK'
      BY <1>1, <2>4, <2>5, <2>10 DEF StoreInv, TypeOK, Entries
    <2>13. (Len(hist) >= 1)'
      BY <2>2, <2>4
    <2>14. QED BY <2>5, <2>6, <2>7, <2>11, <2>12, <2>13 DEF StoreInv
  <1>4. QED BY <1>2, <1>3

LEMMA ReadBackStep ==
    ASSUME StoreInv, StoreAssumption, NEW c \in Clients, readBack(c)
    PROVE  StoreInv'
  <1> DEFINE r == req[c]
             pc == IF r.kind \in {"save", "patch"} THEN "load" ELSE "done"
             q == [r EXCEPT !.answer = row, !.outcome = "ok", !.pc = pc, !.seen = None]
  <1>1. /\ r \in Requests /\ Good(c, r) /\ r.pc = "after" /\ UNCHANGED Storage
    BY InvTypes DEF readBack, At
  <1>2. CASE row = NoRow
    <2>1. End(c, "not-found")
      BY <1>2 DEF readBack
    <2>2. QED BY <1>1, <2>1, EndStep DEF Outcomes
  <1>3. CASE row # NoRow
    <2>1. Set(c, q)
      BY <1>1, <1>3 DEF readBack, Requests
    <2>2. /\ row \in Rows /\ row.rev = Len(hist) /\ row.doc = hist[Len(hist)].doc
      BY <1>3, InvTypes
    <2>3. q \in Requests
      <3>1. pc \in Steps
        BY DEF Steps
      <3> HIDE DEF pc
      <3>2. QED BY <1>1, <2>2, <3>1 DEF Requests, Outcomes
    <2>4. /\ q.pc = pc /\ q.answer = row /\ q.outcome = "ok" /\ q.seen = None
          /\ \A f \in {"kind", "expected", "doc", "target"} : q[f] = r[f]
      BY <1>1 DEF Requests
    <2>5. /\ r.kind \in Writers /\ r.doc # None /\ r.expected + 1 <= Len(hist)
          /\ hist[r.expected + 1] = [doc |-> r.doc, by |-> c, kind |-> r.kind]
      BY <1>1 DEF Good
    <2>6. Good(c, q)
      BY <1>1, <2>2, <2>4, <2>5, InvTypes DEF Good, Writers
    <2>7. QED BY <1>1, <2>1, <2>3, <2>6, QuietStep
  <1>4. QED BY <1>2, <1>3

LEMMA RespondStep ==
    ASSUME StoreInv, NEW c \in Clients, respond(c)
    PROVE  StoreInv'
  BY IdleIsGood, QuietStep DEF respond

LEMMA FailStep ==
    ASSUME StoreInv, NEW c \in Clients, fail(c)
    PROVE  StoreInv'
  <1>1. /\ Set(c, Ended(c, "error")) /\ row' = row /\ hist' = hist
        /\ snapshots' = snapshots /\ stamp' = stamp /\ cooling' = cooling
        /\ failures' = failures + 1
    BY DEF fail, End, Ended
  <1>2. Ended(c, "error") \in Requests /\ Good(c, Ended(c, "error"))
    BY EndIsGood DEF Outcomes
  <1>3. /\ snapshots' \subseteq Snapshots
        /\ \A s \in snapshots' : s.rev <= Len(hist) /\ s.doc = hist[s.rev].doc
        /\ stamp' \in Nat /\ cooling' \in BOOLEAN /\ failures' \in Nat
    BY <1>1 DEF StoreInv, TypeOK, SnapshotsAreFaithful
  <1>4. QED BY <1>1, <1>2, <1>3, SnapshotStep

LEMMA DeleteProjectStep ==
    ASSUME StoreInv, deleteProject
    PROVE  StoreInv'
  <1>1. /\ row' = NoRow /\ snapshots' = {} /\ stamp' = stamp /\ cooling' = cooling
        /\ req' = req /\ failures' = failures /\ hist' = hist
    BY DEF deleteProject
  <1>2. \A d \in Clients : Good(d, req[d])'
    BY <1>1 DEF StoreInv, Good
  <1>3. TypeOK'
    BY <1>1 DEF StoreInv, TypeOK
  <1>4. (Len(hist) >= 1)' /\ SnapshotsAreFaithful' /\ PartialWritesKeepTheRest'
    BY <1>1 DEF StoreInv, SnapshotsAreFaithful, PartialWritesKeepTheRest
  <1>5. RevisionCountsCommits'
    BY <1>1 DEF RevisionCountsCommits
  <1>6. QED BY <1>2, <1>3, <1>4, <1>5 DEF StoreInv

LEMMA SameRequestsStep ==
    ASSUME StoreInv, cooling' \in BOOLEAN,
           UNCHANGED <<row, snapshots, stamp, req, failures, hist>>
    PROVE  StoreInv'
  <1>1. \A d \in Clients : Good(d, req[d])'
    BY DEF StoreInv, Good
  <1>2. QED
    BY <1>1 DEF StoreInv, TypeOK, RevisionCountsCommits, SnapshotsAreFaithful,
                PartialWritesKeepTheRest
----
(* StoreInv is inductive.                                                  *)

LEMMA InvInit ==
    ASSUME StoreAssumption, Init
    PROVE  StoreInv
  <1>1. PICK d \in Inputs \ Unwritable :
          /\ row = [rev |-> 1, doc |-> d]
          /\ hist = <<[doc |-> d, by |-> None, kind |-> "create"]>>
    BY DEF Init
  <1>2. /\ snapshots = {} /\ stamp = 0 /\ cooling = FALSE /\ failures = 0
        /\ req = [c \in Clients |-> Idle]
    BY DEF Init
  <1>3. d \in Docs
    BY DEF StoreAssumption
  <1>4. row \in Rows /\ RevisionCountsCommits /\ Len(hist) = 1
    BY <1>1, <1>3 DEF Rows, RevisionCountsCommits
  <1>5. hist \in Seq([doc : Docs, by : Clients \cup {None},
                      kind : Writers \cup {"create"}])
    BY <1>1, <1>3
  <1>6. Idle \in Requests
    BY DEF Idle, Requests, Steps
  <1>7. TypeOK
    BY <1>2, <1>4, <1>5, <1>6 DEF TypeOK
  <1>8. \A c \in Clients : Good(c, req[c])
    BY <1>2, <1>4, StoreAssumption DEF Good, Idle, Writers, Outcomes
  <1>9. SnapshotsAreFaithful /\ PartialWritesKeepTheRest
    BY <1>2, <1>4 DEF SnapshotsAreFaithful, PartialWritesKeepTheRest
  <1>10. QED BY <1>4, <1>7, <1>8, <1>9 DEF StoreInv

LEMMA InvNext ==
    ASSUME StoreAssumption, StoreInv, [Next]_vars
    PROVE  StoreInv'
  <1>1. Len(hist) \in Nat /\ Len(hist) >= 1
    BY DEF StoreInv, TypeOK
  <1>2. ASSUME NEW c \in Clients, save(c) PROVE StoreInv'
    <2>1. PICK d \in Inputs, e \in 1..Len(hist), kind \in {"save", "patch"} :
            Start(c, "read", kind, e, None, d)
      BY <1>2 DEF save
    <2>2. d \in Docs /\ d # None /\ e \in Nat /\ e <= Len(hist) /\ kind \in Kinds
          /\ kind # "rename"
      BY <1>1, StoreAssumption DEF StoreAssumption, Kinds, Writers
    <2>3. QED BY <2>1, <2>2, StartStep
  <1>3. ASSUME NEW c \in Clients, rename(c) PROVE StoreInv'
    <2>1. PICK n \in Names : Start(c, "load", "rename", 0, n, None)
      BY <1>3 DEF rename
    <2>2. 0 \in Nat /\ 0 <= Len(hist) /\ "rename" \in Kinds
      BY <1>1 DEF Kinds, Writers
    <2>3. QED BY <2>1, <2>2, StartStep
  <1>4. ASSUME NEW c \in Clients, createNamedVersion(c) PROVE StoreInv'
    <2>1. PICK e \in 1..Len(hist) : Start(c, "load", "version", e, None, None)
      BY <1>4 DEF createNamedVersion
    <2>2. e \in Nat /\ e <= Len(hist)
      BY <1>1
    <2>3. QED BY <2>1, <2>2, StartStep DEF Kinds
  <1>5. ASSUME NEW c \in Clients, createAutomaticSnapshot(c) PROVE StoreInv'
    <2>1. PICK kind \in {"snapshot", "throttled"} :
            Start(c, "load", kind, 0, None, None)
      BY <1>5 DEF createAutomaticSnapshot
    <2>2. 0 \in Nat /\ 0 <= Len(hist) /\ kind \in Kinds /\ kind # "rename"
      BY <1>1 DEF Kinds
    <2>3. QED BY <2>1, <2>2, StartStep
  <1>6. ASSUME NEW c \in Clients, restoreSnapshot(c) PROVE StoreInv'
    <2>1. PICK e \in 1..Len(hist), s \in snapshots :
            Start(c, "load", "restore", e, s.id, None)
      BY <1>6 DEF restoreSnapshot
    <2>2. e \in Nat /\ e <= Len(hist) /\ s.id \in Nat
      BY <1>1 DEF StoreInv, TypeOK, Snapshots
    <2>3. QED BY <2>1, <2>2, StartStep DEF Kinds, Writers
  <1>7. ASSUME NEW c \in Clients,
               \/ loadRow(c) \/ getSnapshot(c) \/ decideAutomatic(c)
               \/ insertSnapshot(c) \/ pruneSnapshots(c) \/ deletePruned(c)
        PROVE  StoreInv'
    BY <1>7, LoadStep, FetchStep, DecideStep, InsertStep, PruneStep, DeleteStep
  <1>8. ASSUME NEW c \in Clients,
               \/ readRow(c) \/ conditionalUpdate(c) \/ readBack(c)
               \/ respond(c) \/ fail(c)
        PROVE  StoreInv'
    BY <1>8, ReadStep, UpdateStep, ReadBackStep, RespondStep, FailStep
  <1>9. CASE intervalPasses
    BY <1>9, SameRequestsStep DEF intervalPasses
  <1>10. CASE UNCHANGED vars
    <2>1. cooling' \in BOOLEAN
      BY <1>10 DEF vars, StoreInv, TypeOK
    <2>2. QED BY <1>10, <2>1, SameRequestsStep DEF vars
  <1>11. QED
    BY <1>2, <1>3, <1>4, <1>5, <1>6, <1>7, <1>8, <1>9, <1>10,
       DeleteProjectStep DEF Next
----
(* The inductive invariant holds in every behaviour of the repository.     *)
THEOREM StoreInvariant == Spec => []StoreInv
  <1>1. Init => StoreInv
    BY InvInit, StoreAssumption
  <1>2. StoreInv /\ [Next]_vars => StoreInv'
    BY InvNext, StoreAssumption
  <1>3. QED BY <1>1, <1>2, PTL DEF Spec

(* Every variable keeps its type.                                          *)
THEOREM StoreTyped == Spec => []TypeOK
  <1>1. StoreInv => TypeOK
    BY DEF StoreInv
  <1>2. QED BY <1>1, StoreInvariant, PTL

(* No commit is lost and none is counted twice: the revision of the row is *)
(* the number of commits, and the row is the last of them.                 *)
THEOREM NoCommitIsLost == Spec => []RevisionCountsCommits
  <1>1. StoreInv => RevisionCountsCommits
    BY DEF StoreInv
  <1>2. QED BY <1>1, StoreInvariant, PTL

(* A snapshot always holds the document its revision names.                *)
THEOREM SnapshotsStayFaithful == Spec => []SnapshotsAreFaithful
  <1>1. StoreInv => SnapshotsAreFaithful
    BY DEF StoreInv
  <1>2. QED BY <1>1, StoreInvariant, PTL

(* A rename or a save without parameterRecords never reverts what somebody *)
(* else committed between its read and its UPDATE.                         *)
THEOREM PartialWritesAreSafe == Spec => []PartialWritesKeepTheRest
  <1>1. StoreInv => PartialWritesKeepTheRest
    BY DEF StoreInv
  <1>2. QED BY <1>1, StoreInvariant, PTL

(* What a caller is told about its write is true: "ok" means its document  *)
(* follows the revision it expected, "conflict" that it was overtaken or   *)
(* the project deleted.                                                    *)
THEOREM AnswersStayTrue == Spec => []AnswersAreTrue
  <1>1. StoreInv => AnswersAreTrue
    BY DEF StoreInv, Good, AnswersAreTrue
  <1>2. QED BY <1>1, StoreInvariant, PTL
----
(* The refinement of RevisionLog.                                          *)

(* What a request's statement still to come says of the write the log sees *)
(* in it.                                                                  *)
Fits(r) ==
    /\ r.pc = "idle" => r.doc = None
    /\ r.pc # "idle" => r.kind \in Kinds
    /\ r.pc # "idle" /\ r.kind \in Writers \ {"rename"} => 1 <= r.expected
    /\ r.kind = "rename" =>
         /\ r.doc # None => 1 <= r.expected
         /\ r.pc \in {"idle", "load", "read", "cas", "after", "done"}
    /\ r.kind \in {"version", "snapshot", "throttled"} => r.doc = None
    /\ r.kind \in {"rename", "restore"} /\ r.pc \in {"load", "fetch"} => r.doc = None
    /\ r.kind \in {"save", "patch"} /\ r.pc \in {"load", "rows", "insert", "prune", "delete"} =>
         r.answer # None
    /\ r.pc = "done" /\ r.outcome = "ok" /\ Begun(r) => r.answer # None

FitInv == \A c \in Clients : Fits(req[c])

(* RevisionLog's variables as ProjectStore computes them, and what a step  *)
(* of one call may be.                                                     *)
Calls == [c \in Clients |-> AbstractCall(req[c])]
Log == [i \in 1..Len(hist) |-> hist[i].doc]

Moves(x, y) ==
    \/ y = x
    \/ /\ x = [at |-> "idle"]
       /\ \E e \in 1..Len(hist), d \in Docs :
             y = [at |-> "pending", base |-> e, doc |-> d]
    \/ /\ x.at = "pending"
       /\ \/ x.base < Len(hist) /\ y = Abstract!Done("conflict", 0)
          \/ row = NoRow /\ y = Abstract!Done("conflict", 0)
          \/ row = NoRow /\ y = Abstract!Done("not-found", 0)
          \/ y = Abstract!Done("validation", 0)
    \/ /\ x.at = "committed"
       /\ \/ \E rev \in x.base + 1 .. Len(hist) : y = Abstract!Done("ok", rev)
          \/ row = NoRow /\ y = Abstract!Done("not-found", 0)
    \/ x.at \in {"pending", "committed"} /\ y = Abstract!Done("error", 0)
    \/ x.at = "done" /\ y = [at |-> "idle"]

LEMMA CallMoves ==
    ASSUME StoreInv, NEW c \in Clients, NEW r, Set(c, r), hist' = hist
    PROVE  Calls' = [Calls EXCEPT ![c] = AbstractCall(r)]
  <1>1. req \in [Clients -> Requests]
    BY DEF StoreInv, TypeOK
  <1>2. ASSUME NEW d \in Clients
        PROVE  AbstractCall(req'[d]) = [Calls EXCEPT ![c] = AbstractCall(r)][d]
    BY <1>1 DEF Set, Calls
  <1>3. ASSUME NEW d \in Clients
        PROVE  Calls'[d] = AbstractCall(req'[d])
    BY DEF Calls, AbstractCall, AbstractDoc, Begun
  <1>4. Calls' \in [Clients -> {Calls'[d] : d \in Clients}]
    BY DEF Calls
  <1>5. QED BY <1>2, <1>3, <1>4 DEF Calls

LEMMA StepSimulates ==
    ASSUME StoreInv, NEW c \in Clients, NEW r, Set(c, r), row' = row, hist' = hist,
           Moves(AbstractCall(req[c]), AbstractCall(r))
    PROVE  [Abstract!LogNext]_(Abstract!logVars)
  <1> DEFINE x == AbstractCall(req[c])
             y == AbstractCall(r)
  <1>1. Calls' = [Calls EXCEPT ![c] = y] /\ Calls[c] = x
    BY CallMoves DEF Calls
  <1>2. /\ [i \in 1..Len(hist) |-> hist[i].doc]' = [i \in 1..Len(hist) |-> hist[i].doc]
        /\ (row # NoRow)' = (row # NoRow)
        /\ Len([i \in 1..Len(hist) |-> hist[i].doc]) = Len(hist)
    BY InvTypes
  <1> HIDE DEF x, y
  <1>3. CASE y = x
    <2>1. Calls' = Calls
      BY <1>1, <1>3 DEF Calls
    <2>2. QED BY <2>1, <1>2 DEF Calls, Abstract!logVars
  <1>4. CASE /\ x = [at |-> "idle"]
             /\ \E e \in 1..Len(hist), d \in Docs :
                   y = [at |-> "pending", base |-> e, doc |-> d]
    <2>1. PICK e \in 1..Len(hist), d \in Docs :
                   y = [at |-> "pending", base |-> e, doc |-> d]
      BY <1>4
    <2>2. Abstract!Begin(c, e, d)
      BY <1>1, <1>2, <2>1 DEF Abstract!Begin, Calls
    <2>3. QED BY <1>1, <1>2, <1>4, <2>2 DEF Abstract!LogNext, Abstract!NotCalling, Calls
  <1>5. CASE /\ x.at = "pending"
             /\ \/ x.base < Len(hist) /\ y = Abstract!Done("conflict", 0)
                \/ row = NoRow /\ y = Abstract!Done("conflict", 0)
                \/ row = NoRow /\ y = Abstract!Done("not-found", 0)
                \/ y = Abstract!Done("validation", 0)
    <2>1. Abstract!Refuse(c)
      BY <1>1, <1>2, <1>5 DEF Abstract!Refuse, Calls
    <2>2. QED BY <2>1 DEF Abstract!LogNext
  <1>6. CASE /\ x.at = "committed"
             /\ \/ \E rev \in x.base + 1 .. Len(hist) : y = Abstract!Done("ok", rev)
                \/ row = NoRow /\ y = Abstract!Done("not-found", 0)
    <2>1. Abstract!Answer(c)
      BY <1>1, <1>2, <1>6 DEF Abstract!Answer, Calls
    <2>2. QED BY <2>1 DEF Abstract!LogNext
  <1>7. CASE x.at \in {"pending", "committed"} /\ y = Abstract!Done("error", 0)
    <2>1. Abstract!Lose(c)
      BY <1>1, <1>2, <1>7 DEF Abstract!Lose, Calls
    <2>2. QED BY <2>1 DEF Abstract!LogNext
  <1>8. CASE x.at = "done" /\ y = [at |-> "idle"]
    <2>1. Abstract!Return(c)
      BY <1>1, <1>2, <1>8 DEF Abstract!Return, Abstract!NotCalling, Calls
    <2>2. QED BY <2>1 DEF Abstract!LogNext
  <1>9. QED
    BY <1>3, <1>4, <1>5, <1>6, <1>7, <1>8 DEF Moves, x, y

Simulates == FitInv' /\ [Abstract!LogNext]_(Abstract!logVars)

LEMMA FitTypes ==
    ASSUME StoreInv, FitInv, NEW c \in Clients
    PROVE  Fits(req[c]) /\ Good(c, req[c]) /\ req[c] \in Requests
  BY InvTypes DEF FitInv

LEMMA RequestSimulates ==
    ASSUME StoreInv, FitInv, NEW c \in Clients, NEW r, Set(c, r),
           row' = row, hist' = hist, Fits(r),
           Moves(AbstractCall(req[c]), AbstractCall(r))
    PROVE  Simulates
  <1>1. ASSUME NEW d \in Clients PROVE Fits(req'[d])
    BY DEF Set, FitInv, StoreInv, TypeOK
  <1>2. FitInv'
    BY <1>1 DEF FitInv, Fits, Begun
  <1>3. QED BY <1>2, StepSimulates DEF Simulates

(* What a request in flight is to the log: nothing yet, a pending write or *)
(* a committed one.                                                        *)
LEMMA CallOfRequest ==
    ASSUME StoreInv, FitInv, NEW c \in Clients, req[c].pc # "done"
    PROVE  LET r == req[c]  x == AbstractCall(r) IN
           /\ ~ Begun(r) => x = [at |-> "idle"]
           /\ Begun(r) =>
                /\ x.base = r.expected /\ x.doc = AbstractDoc(r)
                /\ r.pc = "after" \/ r.answer # None => x.at = "committed"
                /\ r.pc # "after" /\ r.answer = None => x.at = "pending"
  BY DEF AbstractCall

LEMMA EndSimulates ==
    ASSUME StoreInv, FitInv, NEW c \in Clients, NEW o \in Outcomes,
           End(c, o), row' = row, hist' = hist, req[c].pc \notin {"idle", "done"},
           Begun(req[c]) =>
             \/ o = "error"
             \/ /\ req[c].pc # "after" /\ req[c].answer = None
                /\ \/ o = "validation"
                   \/ o = "conflict" /\ (req[c].expected < Len(hist) \/ row = NoRow)
                   \/ o = "not-found" /\ row = NoRow
             \/ req[c].pc = "after" /\ o = "not-found" /\ row = NoRow
             \/ req[c].answer # None /\ o = "ok"
    PROVE  Simulates
  <1> DEFINE r == req[c]
             q == Ended(c, o)
             x == AbstractCall(r)
             y == AbstractCall(q)
  <1>1. Fits(r) /\ Good(c, r) /\ r \in Requests
    BY FitTypes
  <1>2. /\ Set(c, q) /\ q.pc = "done" /\ q.outcome = o
        /\ \A f \in {"kind", "expected", "doc", "answer"} : q[f] = r[f]
    BY <1>1 DEF End, Ended, Requests
  <1>3. Fits(q)
    BY <1>1, <1>2 DEF Fits, Begun
  <1>4. CASE ~ Begun(r)
    <2>1. x = [at |-> "idle"] /\ y = [at |-> "idle"]
      BY <1>2, <1>4 DEF AbstractCall, Begun
    <2>2. QED BY <1>2, <1>3, <2>1, RequestSimulates DEF Moves
  <1>5. CASE Begun(r)
    <2>1. y = Abstract!Done(o, IF o = "ok" THEN r.answer.rev ELSE 0)
      BY <1>2, <1>5 DEF AbstractCall, Begun, Abstract!Done
    <2>2. /\ x.base = r.expected
          /\ r.pc = "after" \/ r.answer # None => x.at = "committed"
          /\ r.pc # "after" /\ r.answer = None => x.at = "pending"
      BY <1>5, CallOfRequest
    <2>3. r.answer # None =>
            r.answer.rev \in r.expected + 1 .. Len(hist)
      BY <1>1 DEF Good, Requests, Rows
    <2> HIDE DEF x, y, q
    <2>4. Moves(x, y)
      BY <1>5, <2>1, <2>2, <2>3 DEF Moves
    <2>5. QED BY <1>2, <1>3, <2>4, RequestSimulates DEF x, y
  <1>6. QED BY <1>4, <1>5

LEMMA CommittedDocs ==
    ASSUME StoreInv, NEW i \in 1..Len(hist)
    PROVE  hist[i].doc \in Docs
  <1>1. hist \in Seq(Entries)
    BY DEF StoreInv, TypeOK, Entries
  <1>2. hist[i] \in Entries
    BY <1>1
  <1>3. QED BY <1>2 DEF Entries

(* A step after which the log sees the same call.                          *)
LEMMA SameCallSimulates ==
    ASSUME StoreInv, FitInv, NEW c \in Clients, NEW r, Set(c, r),
           row' = row, hist' = hist, Fits(r),
           AbstractCall(r) = AbstractCall(req[c])
    PROVE  Simulates
  BY RequestSimulates DEF Moves

LEMMA StartSimulates ==
    ASSUME StoreInv, FitInv, StoreAssumption, NEW c \in Clients,
           NEW pc \in {"load", "read"}, NEW kind \in Kinds,
           NEW e \in Nat, e <= Len(hist),
           NEW target, NEW doc \in Docs \cup {None},
           pc = "read" => kind \in {"save", "patch"} /\ doc # None,
           pc = "load" => kind \notin {"save", "patch"} /\ doc = None,
           kind # "rename" /\ kind \in Writers => 1 <= e,
           Start(c, pc, kind, e, target, doc)
    PROVE  Simulates
  <1> DEFINE r == [Idle EXCEPT !.pc = pc, !.kind = kind, !.expected = e,
                               !.target = target, !.doc = doc]
  <1>1. /\ r.pc = pc /\ r.kind = kind /\ r.expected = e
        /\ r.doc = doc /\ r.outcome = None /\ r.answer = None
    BY DEF Idle
  <1>2. Set(c, r) /\ row' = row /\ hist' = hist /\ req[c].pc = "idle"
    BY DEF Start, Storage, At
  <1>4. Fits(req[c])
    BY FitTypes
  <1>5. AbstractCall(req[c]) = [at |-> "idle"]
    BY <1>2, <1>4 DEF AbstractCall, Begun, Fits
  <1> HIDE DEF r
  <1>3. Fits(r)
    BY <1>1, StoreAssumption DEF Fits, Writers, Begun
  <1>6. CASE pc = "load"
    <2>1. AbstractCall(r) = [at |-> "idle"]
      BY <1>1, <1>6 DEF AbstractCall, Begun
    <2>2. QED BY <1>2, <1>3, <1>5, <2>1, SameCallSimulates
  <1>7. CASE pc = "read"
    <2>1. /\ kind \in {"save", "patch"} /\ doc \in Docs /\ doc # None /\ e \in 1..Len(hist)
      BY <1>7, InvTypes, StoreAssumption DEF Writers
    <2>2. AbstractCall(r) = [at |-> "pending", base |-> e, doc |-> AbstractDoc(r)]
      BY <1>1, <1>7, <2>1 DEF AbstractCall, Begun, Writers
    <2>3. AbstractDoc(r) \in Docs
      <3>1. hist[e].doc \in Docs
        BY <2>1, CommittedDocs
      <3>2. QED BY <1>1, <2>1, <3>1 DEF AbstractDoc, Docs
    <2>4. Moves(AbstractCall(req[c]), AbstractCall(r))
      BY <1>5, <2>1, <2>2, <2>3 DEF Moves
    <2>5. QED BY <1>2, <1>3, <2>4, RequestSimulates
  <1>8. QED BY <1>6, <1>7

(* One lemma per statement of the repository.                              *)

LEMMA LoadSimulates ==
    ASSUME StoreInv, FitInv, StoreAssumption, NEW c \in Clients, loadRow(c)
    PROVE  Simulates
  <1> DEFINE r == req[c]
             q == Loaded(r)
  <1>1. /\ Fits(r) /\ Good(c, r) /\ r \in Requests /\ r.pc = "load"
        /\ row' = row /\ hist' = hist
    BY FitTypes DEF loadRow, At, Storage
  <1>2. CASE row = NoRow
    <2>1. CASE r.kind \in {"save", "patch"}
      <3>1. End(c, "ok") /\ r.answer # None
        BY <1>1, <1>2, <2>1 DEF loadRow, Fits
      <3>2. QED BY <1>1, <3>1, EndSimulates DEF Outcomes
    <2>2. CASE r.kind \notin {"save", "patch"}
      <3>1. End(c, "not-found")
        BY <1>2, <2>2 DEF loadRow
      <3>2. ~ Begun(r)
        BY <1>1, <2>2 DEF Begun, Fits, Writers
      <3>3. QED BY <1>1, <3>1, <3>2, EndSimulates DEF Outcomes
    <2>3. QED BY <2>1, <2>2
  <1>3. CASE /\ row # NoRow /\ r.kind \in {"version", "restore"}
             /\ ExpectationFails(r, row)
    <2>1. End(c, "conflict")
      BY <1>3 DEF loadRow
    <2>2. ~ Begun(r)
      BY <1>1, <1>3 DEF Begun, Fits, Writers
    <2>3. QED BY <1>1, <2>1, <2>2, EndSimulates DEF Outcomes
  <1>4. CASE row # NoRow /\ r.kind # "rename" /\ Set(c, q)
    <2>1. /\ q.pc \in {"insert", "fetch", "rows"}
          /\ q.pc = "fetch" <=> r.kind = "restore"
          /\ \A f \in {"kind", "expected", "doc", "outcome", "answer"} : q[f] = r[f]
      BY <1>1, <1>4 DEF Loaded, Requests
    <2> HIDE DEF q
    <2>2. Fits(q)
      BY <1>1, <1>4, <2>1 DEF Fits, Begun
    <2>3. AbstractCall(q) = AbstractCall(r)
      BY <1>1, <2>1 DEF AbstractCall, AbstractDoc, Begun
    <2>4. QED BY <1>1, <1>4, <2>2, <2>3, SameCallSimulates
  <1>5. CASE row # NoRow /\ r.kind = "rename" /\ Set(c, q)
    <2> DEFINE d == [row.doc EXCEPT !.name = r.target]
    <2>1. row.doc \in Docs /\ row.rev = Len(hist) /\ Len(hist) \in 1..Len(hist)
      BY <1>5, InvTypes DEF Rows
    <2>2. d \in Docs
      BY <1>1, <1>5, <2>1 DEF Docs, Good
    <2>3. /\ q.pc = "read" /\ q.kind = "rename" /\ q.expected = Len(hist)
          /\ q.doc = d /\ q.answer = r.answer
      BY <1>1, <1>5, <2>1 DEF Loaded, Requests
    <2>4. r.answer = None /\ r.doc = None
      BY <1>1, <1>5 DEF Good, Fits
    <2> HIDE DEF q, d
    <2>5. Fits(q)
      BY <1>1, <2>1, <2>2, <2>3 DEF Fits, Begun, Kinds, Writers
    <2>6. AbstractCall(q) = [at |-> "pending", base |-> Len(hist), doc |-> d]
      BY <2>2, <2>3, <2>4, StoreAssumption DEF AbstractCall, AbstractDoc, Begun, Writers
    <2>7. AbstractCall(r) = [at |-> "idle"]
      BY <2>4 DEF AbstractCall, Begun
    <2>8. QED BY <1>1, <1>5, <2>1, <2>2, <2>5, <2>6, <2>7, RequestSimulates DEF Moves
  <1>6. QED BY <1>2, <1>3, <1>4, <1>5 DEF loadRow

LEMMA FetchSimulates ==
    ASSUME StoreInv, FitInv, StoreAssumption, NEW c \in Clients, getSnapshot(c)
    PROVE  Simulates
  <1> DEFINE r == req[c]
  <1>1. /\ Fits(r) /\ Good(c, r) /\ r \in Requests /\ r.pc = "fetch"
        /\ row' = row /\ hist' = hist
    BY FitTypes DEF getSnapshot, At, Storage
  <1>2. /\ r.kind = "restore" /\ r.doc = None /\ r.answer = None /\ ~ Begun(r)
        /\ r.expected \in 1..Len(hist) /\ AbstractCall(r) = [at |-> "idle"]
    BY <1>1, InvTypes DEF Good, Fits, Begun, AbstractCall, Writers, Requests
  <1>3. ASSUME NEW s \in snapshots,
               Set(c, [r EXCEPT !.pc = "insert", !.doc = s.doc])
        PROVE  Simulates
    <2> DEFINE q == [r EXCEPT !.pc = "insert", !.doc = s.doc]
    <2>1. s.doc \in Docs
      BY DEF StoreInv, TypeOK, Snapshots
    <2>2. /\ q.pc = "insert" /\ q.doc = s.doc /\ q.doc # None
          /\ \A f \in {"kind", "expected", "outcome", "answer"} : q[f] = r[f]
      BY <1>1, <2>1, StoreAssumption DEF Requests
    <2> HIDE DEF q
    <2>3. Fits(q)
      BY <1>1, <1>2, <2>2 DEF Fits
    <2>4. AbstractCall(q) = [at |-> "pending", base |-> r.expected, doc |-> s.doc]
      BY <1>2, <2>2 DEF AbstractCall, AbstractDoc, Begun, Writers
    <2>5. Set(c, q)
      BY <1>3 DEF q
    <2>6. QED BY <1>1, <1>2, <2>1, <2>3, <2>4, <2>5, RequestSimulates DEF Moves
  <1>4. CASE End(c, "not-found")
    BY <1>1, <1>2, <1>4, EndSimulates DEF Outcomes
  <1>5. QED BY <1>3, <1>4 DEF getSnapshot

LEMMA GoToSimulates ==
    ASSUME StoreInv, FitInv, NEW c \in Clients,
           req[c].pc \in {"rows", "insert", "prune", "delete"},
           req[c].pc = "rows" => req[c].kind \notin {"restore", "rename"},
           NEW pc \in {"insert", "prune", "delete", "read"},
           pc = "read" => req[c].kind = "restore",
           NEW r, Set(c, r), r.pc = pc,
           \A f \in {"kind", "expected", "doc", "outcome", "answer"} : r[f] = req[c][f],
           row' = row, hist' = hist
    PROVE  Simulates
  <1>1. Fits(req[c]) /\ Good(c, req[c]) /\ req[c] \in Requests
    BY FitTypes
  <1>2. Fits(r)
    BY <1>1 DEF Fits, Begun
  <1>3. AbstractCall(r) = AbstractCall(req[c])
    BY <1>1 DEF AbstractCall, AbstractDoc, Begun
  <1>4. QED BY <1>2, <1>3, SameCallSimulates

LEMMA DecideSimulates ==
    ASSUME StoreInv, FitInv, NEW c \in Clients, decideAutomatic(c)
    PROVE  Simulates
  <1> DEFINE r == req[c]
             q == [r EXCEPT !.pc = "insert"]
  <1>1. /\ Fits(r) /\ Good(c, r) /\ r \in Requests /\ r.pc = "rows"
        /\ row' = row /\ hist' = hist
    BY FitTypes DEF decideAutomatic, At, Storage
  <1>2. r.kind \notin {"restore", "rename"}
    BY <1>1 DEF Good, Fits
  <1>3. CASE Set(c, q)
    <2>1. /\ q.pc = "insert"
          /\ \A f \in {"kind", "expected", "doc", "outcome", "answer"} : q[f] = r[f]
      BY <1>1 DEF Requests
    <2>2. QED BY <1>1, <1>2, <1>3, <2>1, GoToSimulates
  <1>4. CASE End(c, "ok")
    <2>1. Begun(r) => r.answer # None
      BY <1>1, <1>2 DEF Begun, Fits, Writers
    <2>2. QED BY <1>1, <1>4, <2>1, EndSimulates DEF Outcomes
  <1>5. QED BY <1>3, <1>4 DEF decideAutomatic, GoTo

LEMMA InsertSimulates ==
    ASSUME StoreInv, FitInv, NEW c \in Clients, insertSnapshot(c)
    PROVE  Simulates
  <1> DEFINE r == req[c]
             q == [r EXCEPT !.pc = "prune"]
  <1>1. /\ r \in Requests /\ r.pc = "insert" /\ row' = row /\ hist' = hist
    BY FitTypes DEF insertSnapshot, At
  <1>2. CASE End(c, "error")
    BY <1>1, <1>2, EndSimulates DEF Outcomes
  <1>3. CASE Set(c, q)
    <2>1. /\ q.pc = "prune"
          /\ \A f \in {"kind", "expected", "doc", "outcome", "answer"} : q[f] = r[f]
      BY <1>1 DEF Requests
    <2>2. QED BY <1>1, <1>3, <2>1, GoToSimulates
  <1>4. QED BY <1>2, <1>3 DEF insertSnapshot, GoTo

LEMMA AfterPruneSimulates ==
    ASSUME StoreInv, FitInv, NEW c \in Clients, req[c].pc \in {"prune", "delete"},
           AfterPrune(c), row' = row, hist' = hist
    PROVE  Simulates
  <1> DEFINE r == req[c]
             q == [r EXCEPT !.pc = "read", !.seen = None, !.doomed = {}]
  <1>1. Fits(r) /\ Good(c, r) /\ r \in Requests
    BY FitTypes
  <1>2. CASE r.kind = "restore" /\ Set(c, q)
    <2>1. /\ q.pc = "read"
          /\ \A f \in {"kind", "expected", "doc", "outcome", "answer"} : q[f] = r[f]
      BY <1>1 DEF Requests
    <2>2. QED BY <1>2, <2>1, GoToSimulates
  <1>3. CASE r.kind # "restore" /\ End(c, "ok")
    <2>1. Begun(r) => r.answer # None
      BY <1>1, <1>3 DEF Begun, Fits, Writers
    <2>2. QED BY <1>3, <2>1, EndSimulates DEF Outcomes
  <1>4. QED BY <1>2, <1>3 DEF AfterPrune

LEMMA PruneSimulates ==
    ASSUME StoreInv, FitInv, NEW c \in Clients, pruneSnapshots(c)
    PROVE  Simulates
  <1> DEFINE ids == snapshotIdsToPrune(snapshots)
             q == [req[c] EXCEPT !.pc = "delete", !.doomed = ids]
  <1>1. /\ req[c] \in Requests /\ req[c].pc = "prune" /\ row' = row /\ hist' = hist
    BY FitTypes DEF pruneSnapshots, At, Storage
  <1>2. CASE AfterPrune(c)
    BY <1>1, <1>2, AfterPruneSimulates
  <1>3. CASE Set(c, q)
    <2> HIDE DEF ids
    <2>1. /\ q.pc = "delete"
          /\ \A f \in {"kind", "expected", "doc", "outcome", "answer"} :
               q[f] = req[c][f]
      BY <1>1 DEF Requests
    <2>2. QED BY <1>1, <1>3, <2>1, GoToSimulates
  <1>4. QED BY <1>2, <1>3 DEF pruneSnapshots

LEMMA DeleteSimulates ==
    ASSUME StoreInv, FitInv, NEW c \in Clients, deletePruned(c)
    PROVE  Simulates
  <1>1. /\ req[c] \in Requests /\ req[c].pc = "delete" /\ row' = row /\ hist' = hist
    BY FitTypes DEF deletePruned, At
  <1>2. PICK id \in req[c].doomed :
          IF req[c].doomed = {id}
          THEN AfterPrune(c)
          ELSE Set(c, [req[c] EXCEPT !.doomed = @ \ {id}])
    BY DEF deletePruned
  <1>3. CASE AfterPrune(c)
    BY <1>1, <1>3, AfterPruneSimulates
  <1>4. CASE Set(c, [req[c] EXCEPT !.doomed = @ \ {id}])
    <2> DEFINE q == [req[c] EXCEPT !.doomed = @ \ {id}]
    <2>1. /\ q.pc = "delete"
          /\ \A f \in {"kind", "expected", "doc", "outcome", "answer"} :
               q[f] = req[c][f]
      BY <1>1 DEF Requests
    <2>2. QED BY <1>1, <1>4, <2>1, GoToSimulates
  <1>5. QED BY <1>2, <1>3, <1>4

LEMMA ReadSimulates ==
    ASSUME StoreInv, FitInv, StoreAssumption, NEW c \in Clients, readRow(c)
    PROVE  Simulates
  <1> DEFINE r == req[c]
             d == DocumentToWrite(r)
             q == [r EXCEPT !.pc = "cas", !.seen = row, !.doc = d]
  <1>1. /\ Fits(r) /\ Good(c, r) /\ r \in Requests /\ r.pc = "read"
        /\ row' = row /\ hist' = hist
    BY FitTypes DEF readRow, At, Storage
  <1>2. /\ r.kind \in Writers /\ r.doc \in Docs /\ r.answer = None /\ r.expected \in Nat
    BY <1>1 DEF Good, Requests
  <1>3. CASE saveRefusal(r) # None
    <2>1. End(c, saveRefusal(r))
      BY <1>3 DEF readRow
    <2>2. row # NoRow /\ ExpectationFails(r, row) => r.expected < Len(hist)
      <3>1. r.expected <= Len(hist)
        BY <1>1 DEF Good
      <3>2. Len(hist) \in Nat /\ (row # NoRow => row.rev = Len(hist))
        BY InvTypes
      <3> HIDE DEF r
      <3>3. QED BY <1>2, <3>1, <3>2 DEF ExpectationFails
    <2> HIDE DEF r
    <2>4. /\ saveRefusal(r) \in {"not-found", "validation", "conflict"}
          /\ saveRefusal(r) = "not-found" => row = NoRow
          /\ saveRefusal(r) = "conflict" => r.expected < Len(hist)
      BY <1>3, <2>2 DEF saveRefusal
    <2>3. QED BY <1>1, <1>2, <2>1, <2>4, EndSimulates DEF Outcomes, r
  <1>4. CASE saveRefusal(r) = None
    <2>1. /\ row # NoRow /\ r.expected = Len(hist) /\ row.doc = hist[Len(hist)].doc
          /\ Set(c, q) /\ row.doc \in Docs
      <3>1. saveRefusal(r) \notin {"not-found", "validation", "conflict"}
        BY <1>4, StoreAssumption DEF Outcomes
      <3>2. row # NoRow /\ ~ ExpectationFails(r, row)
        BY <3>1 DEF saveRefusal
      <3>3. QED BY <1>4, <3>2, InvTypes DEF ExpectationFails, readRow, Rows
    <2>2. d \in Docs
      BY <1>2, <2>1 DEF DocumentToWrite, Docs
    <2>3. r.kind = "patch" =>
            /\ d = [r.doc EXCEPT !.params = row.doc.params]
            /\ [d EXCEPT !.params = row.doc.params] = d
      BY <1>2, <2>1 DEF DocumentToWrite, Docs
    <2>4. r.kind # "patch" => d = r.doc
      BY DEF DocumentToWrite
    <2> HIDE DEF d
    <2>5. /\ q.pc = "cas" /\ q.doc = d
          /\ \A f \in {"kind", "expected", "outcome", "answer"} : q[f] = r[f]
      BY <1>1 DEF Requests
    <2> HIDE DEF q
    <2>6. Fits(q)
      BY <1>1, <1>2, <2>5, StoreAssumption DEF Fits, Writers
    <2>7. AbstractDoc(q) = AbstractDoc(r)
      BY <2>1, <2>3, <2>4, <2>5 DEF AbstractDoc
    <2>8. AbstractCall(q) = AbstractCall(r)
      BY <1>1, <1>2, <2>2, <2>5, <2>7, StoreAssumption DEF AbstractCall, Begun
    <2>9. QED BY <1>1, <2>1, <2>6, <2>8, SameCallSimulates
  <1>5. QED BY <1>3, <1>4

LEMMA ReadBackSimulates ==
    ASSUME StoreInv, FitInv, StoreAssumption, NEW c \in Clients, readBack(c)
    PROVE  Simulates
  <1> DEFINE r == req[c]
             pc == IF r.kind \in {"save", "patch"} THEN "load" ELSE "done"
             q == [r EXCEPT !.answer = row, !.outcome = "ok", !.pc = pc, !.seen = None]
  <1>1. /\ Fits(r) /\ Good(c, r) /\ r \in Requests /\ r.pc = "after"
        /\ row' = row /\ hist' = hist
    BY FitTypes DEF readBack, At, Storage
  <1>2. CASE row = NoRow
    <2>1. End(c, "not-found")
      BY <1>2 DEF readBack
    <2>2. QED BY <1>1, <1>2, <2>1, EndSimulates DEF Outcomes
  <1>3. CASE row # NoRow
    <2>1. Set(c, q)
      BY <1>1, <1>3 DEF readBack, Requests
    <2>2. /\ row # None /\ row.rev = Len(hist) /\ Len(hist) \in Nat
      BY <1>3, InvTypes, StoreAssumption
    <2>3. /\ q.pc = pc /\ q.answer = row /\ q.outcome = "ok"
          /\ \A f \in {"kind", "expected", "doc"} : q[f] = r[f]
      BY <1>1 DEF Requests
    <2>4. /\ r.kind \in Writers /\ r.doc # None /\ Begun(r)
          /\ r.expected \in Nat /\ r.expected + 1 <= Len(hist)
      BY <1>1 DEF Good, Begun, Requests
    <2> HIDE DEF q
    <2>5. Fits(q)
      BY <1>1, <2>2, <2>3, <2>4 DEF Fits, Begun, Writers
    <2>6. AbstractCall(r).at = "committed" /\ AbstractCall(r).base = r.expected
      BY <1>1, <2>4 DEF AbstractCall
    <2>7. CASE r.kind \in {"save", "patch"}
      <3>1. AbstractCall(q) = AbstractCall(r)
        BY <1>1, <2>2, <2>3, <2>4, <2>7 DEF AbstractCall, AbstractDoc, Begun
      <3>2. QED BY <1>1, <2>1, <2>5, <3>1, SameCallSimulates
    <2>8. CASE r.kind \notin {"save", "patch"}
      <3>1. AbstractCall(q) = Abstract!Done("ok", Len(hist))
        BY <2>2, <2>3, <2>4, <2>8 DEF AbstractCall, Begun, Abstract!Done
      <3>2. Len(hist) \in r.expected + 1 .. Len(hist)
        BY <2>2, <2>4
      <3>3. QED BY <1>1, <2>1, <2>5, <2>6, <3>1, <3>2, RequestSimulates DEF Moves
    <2>9. QED BY <2>7, <2>8
  <1>4. QED BY <1>2, <1>3

LEMMA RespondSimulates ==
    ASSUME StoreInv, FitInv, StoreAssumption, NEW c \in Clients, respond(c)
    PROVE  Simulates
  <1>1. Set(c, Idle) /\ req[c].pc = "done" /\ row' = row /\ hist' = hist
    BY DEF respond, At, Storage
  <1>2. Fits(Idle)
    BY StoreAssumption DEF Fits, Idle, Begun
  <1>3. AbstractCall(Idle) = [at |-> "idle"]
    BY DEF AbstractCall, Idle, Begun
  <1>4. AbstractCall(req[c]) = [at |-> "idle"] \/ AbstractCall(req[c]).at = "done"
    BY <1>1 DEF AbstractCall
  <1>5. QED BY <1>1, <1>2, <1>3, <1>4, RequestSimulates DEF Moves

LEMMA FailSimulates ==
    ASSUME StoreInv, FitInv, NEW c \in Clients, fail(c)
    PROVE  Simulates
  BY EndSimulates DEF fail, At, Outcomes

LEMMA UpdateSimulates ==
    ASSUME StoreInv, FitInv, StoreAssumption, NEW c \in Clients, conditionalUpdate(c)
    PROVE  Simulates
  <1> DEFINE r == req[c]
             q == [r EXCEPT !.pc = "after"]
             n == Len(hist)
             e == [doc |-> r.doc, by |-> c, kind |-> r.kind]
             x == AbstractCall(r)
  <1>1. /\ Fits(r) /\ Good(c, r) /\ r \in Requests /\ r.pc = "cas"
    BY FitTypes DEF conditionalUpdate, At
  <1>2. /\ r.kind \in Writers /\ r.doc \in Docs /\ r.answer = None /\ Begun(r)
        /\ n \in Nat /\ n >= 1
    BY <1>1, InvTypes DEF Good, Requests, Begun
  <1>3. CASE ~ UpdateMatches(r)
    <2>1. End(c, "conflict") /\ row' = row /\ hist' = hist
      BY <1>3 DEF conditionalUpdate
    <2>2. r.expected < n \/ row = NoRow
      BY <1>1, <1>3, InvTypes DEF UpdateMatches, Requests, Good
    <2>3. QED BY <1>1, <1>2, <2>1, <2>2, EndSimulates DEF Outcomes
  <1>4. CASE UpdateMatches(r)
    <2>1. /\ row' = [rev |-> r.seen.rev + 1, doc |-> r.doc]
          /\ hist' = Append(hist, e) /\ Set(c, q) /\ row # NoRow
      BY <1>4 DEF conditionalUpdate, GoTo, UpdateMatches
    <2>2. r.expected = n /\ r.seen.rev = n
      BY <1>1, <1>4, InvTypes DEF UpdateMatches, Good
    <2>3. row' # NoRow
      BY <1>2, <2>1, <2>2 DEF NoRow
    <2>4. /\ q.pc = "after"
          /\ \A f \in {"kind", "expected", "doc", "outcome", "answer"} : q[f] = r[f]
      BY <1>1 DEF Requests
    <2>5. /\ hist \in Seq(Entries) /\ e \in Entries
      BY <1>2, <1>1 DEF Entries, StoreInv, TypeOK
    <2>6. /\ Len(hist') = n + 1 /\ hist'[n + 1] = e
          /\ \A i \in 1..n : hist'[i] = hist[i]
      <3> HIDE DEF e
      <3>1. QED BY <2>1, <2>5, AppendFacts
    <2>7. AbstractDoc(r) = r.doc
      <3>1. r.kind = "patch" => r.doc.params = hist[r.expected].doc.params
        BY <1>1 DEF Good
      <3>2. QED BY <1>2, <3>1 DEF AbstractDoc, Docs
    <2>8. Calls[c] = [at |-> "pending", base |-> n, doc |-> r.doc]
      BY <1>1, <1>2, <2>2, <2>7 DEF Calls, AbstractCall
    <2> HIDE DEF r, q, e
    <2>9. Fits(q)
      BY <1>1, <1>2, <2>4 DEF Fits, Begun
    <2>10. req \in [Clients -> Requests] /\ req' = [req EXCEPT ![c] = q]
      BY <2>1 DEF StoreInv, TypeOK, Set
    <2>11. FitInv'
      <3>1. ASSUME NEW d \in Clients PROVE Fits(req'[d])
        BY <2>9, <2>10 DEF FitInv
      <3>2. QED BY <3>1 DEF FitInv, Fits, Begun
    <2>12. Calls' = [Calls EXCEPT ![c].at = "committed"]
      <3> DEFINE y == [at |-> "committed", base |-> n, doc |-> r.doc]
      <3>1. Calls'[c] = y
        <4>1. req'[c] = q
          BY <2>10
        <4>2. AbstractDoc(req[c])' = r.doc
          <5>1. hist'[n].doc = hist[n].doc
            BY <1>2, <2>6
          <5>2. (AbstractDoc(req[c]))' = IF q.kind = "patch"
                   THEN [q.doc EXCEPT !.params = hist'[q.expected].doc.params]
                   ELSE q.doc
            BY <4>1 DEF AbstractDoc
          <5>3. QED BY <5>1, <5>2, <2>2, <2>4, <2>7 DEF AbstractDoc
        <4>3. QED BY <1>2, <2>2, <2>4, <4>1, <4>2 DEF Calls, AbstractCall, Begun
      <3>2. ASSUME NEW d \in Clients, d # c PROVE Calls'[d] = Calls[d]
        <4>1. req'[d] = req[d] /\ Fits(req[d]) /\ Good(d, req[d]) /\ req[d] \in Requests
          BY <2>10, <3>2, FitTypes
        <4>2. Begun(req[d]) => hist'[req[d].expected] = hist[req[d].expected]
          <5>1. Begun(req[d]) => req[d].expected \in 1..n
            BY <1>2, <4>1 DEF Begun, Fits, Good, Writers, Requests
          <5>2. QED BY <5>1, <2>6
        <4>3. QED BY <4>1, <4>2 DEF Calls, AbstractCall, AbstractDoc, Begun
      <3>3. [Calls EXCEPT ![c].at = "committed"] = [Calls EXCEPT ![c] = y]
        <4>1. [Calls[c] EXCEPT !.at = "committed"] = y
          BY <2>8
        <4> HIDE DEF y
        <4>2. QED BY <4>1
      <3> HIDE DEF y
      <3>4. QED BY <3>1, <3>2, <3>3 DEF Calls
    <2>13. Log' = Append(Log, r.doc)
      <3>1. Log \in Seq(Docs) /\ Len(Log) = n
        <4>1. \A i \in 1..n : hist[i].doc \in Docs
          BY CommittedDocs
        <4>2. QED BY <1>2, <4>1 DEF Log
      <3>2. /\ Append(Log, r.doc) \in Seq(Docs) /\ Len(Append(Log, r.doc)) = n + 1
            /\ \A i \in 1..n : Append(Log, r.doc)[i] = Log[i]
            /\ Append(Log, r.doc)[n + 1] = r.doc
        BY <1>2, <3>1, AppendFacts
      <3>3. \A i \in 1..(n + 1) : Log'[i] = Append(Log, r.doc)[i]
        BY <1>2, <2>6, <3>2 DEF Log, e
      <3>4. Log' = [i \in 1..(n + 1) |-> Log'[i]]
        BY <2>6 DEF Log
      <3>5. Append(Log, r.doc) = [i \in 1..(n + 1) |-> Append(Log, r.doc)[i]]
        BY <1>2, <3>2
      <3>6. QED BY <3>3, <3>4, <3>5
    <2>14. Len(Log) = n
      BY <1>2 DEF Log
    <2>15. Abstract!Commit(c)
      BY <2>1, <2>3, <2>8, <2>12, <2>13, <2>14 DEF Abstract!Commit, Calls, Log
    <2>16. QED BY <2>11, <2>15 DEF Simulates, Abstract!LogNext
  <1>5. QED BY <1>3, <1>4

LEMMA DeleteProjectSimulates ==
    ASSUME StoreInv, FitInv, deleteProject
    PROVE  Simulates
  <1>1. row # NoRow /\ row' = NoRow /\ req' = req /\ hist' = hist
    BY DEF deleteProject
  <1>2. FitInv'
    BY <1>1 DEF FitInv, Fits, Begun
  <1>3. Calls' = Calls /\ Log' = Log
    BY <1>1 DEF Calls, Log, AbstractCall, AbstractDoc, Begun
  <1>4. Abstract!Delete
    BY <1>1, <1>3 DEF Abstract!Delete, Calls, Log
  <1>5. QED BY <1>2, <1>4 DEF Simulates, Abstract!LogNext

LEMMA UnseenSimulates ==
    ASSUME StoreInv, FitInv, UNCHANGED <<row, req, hist>>
    PROVE  Simulates
  <1>1. FitInv'
    BY DEF FitInv, Fits, Begun
  <1>2. Calls' = Calls /\ Log' = Log
    BY DEF Calls, Log, AbstractCall, AbstractDoc, Begun
  <1>3. UNCHANGED Abstract!logVars
    BY <1>2 DEF Abstract!logVars, Calls, Log
  <1>4. QED BY <1>1, <1>3 DEF Simulates

LEMMA FitInit ==
    ASSUME StoreAssumption, Init
    PROVE  FitInv /\ Abstract!LogInit
  <1>1. PICK d \in Inputs \ Unwritable :
          /\ row = [rev |-> 1, doc |-> d]
          /\ hist = <<[doc |-> d, by |-> None, kind |-> "create"]>>
    BY DEF Init
  <1>2. req = [c \in Clients |-> Idle] /\ d \in Docs
    BY DEF Init, StoreAssumption
  <1>3. FitInv
    BY <1>2, StoreAssumption DEF FitInv, Fits, Idle, Begun
  <1>4. Log = <<d>>
    BY <1>1 DEF Log
  <1>5. row # NoRow
    BY <1>1 DEF NoRow
  <1>6. Calls = [c \in Clients |-> [at |-> "idle"]]
    BY <1>2 DEF Calls, AbstractCall, Begun, Idle
  <1>7. Abstract!LogInit
    BY <1>2, <1>4, <1>5, <1>6 DEF Abstract!LogInit, Abstract!NotCalling, Log, Calls
  <1>8. QED BY <1>3, <1>7

LEMMA NextSimulates ==
    ASSUME StoreAssumption, StoreInv, FitInv, [Next]_vars
    PROVE  Simulates
  <1>1. Len(hist) \in Nat /\ Len(hist) >= 1
    BY InvTypes DEF StoreInv, TypeOK
  <1>2. ASSUME NEW c \in Clients, save(c) PROVE Simulates
    <2>1. PICK d \in Inputs, e \in 1..Len(hist), kind \in {"save", "patch"} :
            Start(c, "read", kind, e, None, d)
      BY <1>2 DEF save
    <2>2. /\ d \in Docs /\ d # None /\ e \in Nat /\ e <= Len(hist) /\ 1 <= e
          /\ kind \in Kinds /\ kind # "rename"
      BY <1>1, StoreAssumption DEF StoreAssumption, Kinds, Writers
    <2>3. QED BY <2>1, <2>2, StartSimulates
  <1>3. ASSUME NEW c \in Clients, rename(c) PROVE Simulates
    <2>1. PICK n \in Names : Start(c, "load", "rename", 0, n, None)
      BY <1>3 DEF rename
    <2>2. 0 \in Nat /\ 0 <= Len(hist) /\ "rename" \in Kinds
      BY <1>1 DEF Kinds, Writers
    <2>3. QED BY <2>1, <2>2, StartSimulates
  <1>4. ASSUME NEW c \in Clients, createNamedVersion(c) PROVE Simulates
    <2>1. PICK e \in 1..Len(hist) : Start(c, "load", "version", e, None, None)
      BY <1>4 DEF createNamedVersion
    <2>2. e \in Nat /\ e <= Len(hist) /\ 1 <= e /\ "version" \in Kinds
      BY <1>1 DEF Kinds
    <2>3. QED BY <2>1, <2>2, StartSimulates
  <1>5. ASSUME NEW c \in Clients, createAutomaticSnapshot(c) PROVE Simulates
    <2>1. PICK kind \in {"snapshot", "throttled"} :
            Start(c, "load", kind, 0, None, None)
      BY <1>5 DEF createAutomaticSnapshot
    <2>2. /\ 0 \in Nat /\ 0 <= Len(hist) /\ kind \in Kinds /\ kind \notin Writers
      BY <1>1 DEF Kinds, Writers
    <2>3. QED BY <2>1, <2>2, StartSimulates DEF Writers
  <1>6. ASSUME NEW c \in Clients, restoreSnapshot(c) PROVE Simulates
    <2>1. PICK e \in 1..Len(hist), s \in snapshots :
            Start(c, "load", "restore", e, s.id, None)
      BY <1>6 DEF restoreSnapshot
    <2>2. e \in Nat /\ e <= Len(hist) /\ 1 <= e /\ "restore" \in Kinds
      BY <1>1 DEF Kinds, Writers
    <2>3. QED BY <2>1, <2>2, StartSimulates
  <1>7. ASSUME NEW c \in Clients,
               \/ loadRow(c) \/ getSnapshot(c) \/ decideAutomatic(c)
               \/ insertSnapshot(c) \/ pruneSnapshots(c) \/ deletePruned(c)
        PROVE  Simulates
    BY <1>7, LoadSimulates, FetchSimulates, DecideSimulates, InsertSimulates,
       PruneSimulates, DeleteSimulates
  <1>8. ASSUME NEW c \in Clients,
               \/ readRow(c) \/ conditionalUpdate(c) \/ readBack(c)
               \/ respond(c) \/ fail(c)
        PROVE  Simulates
    BY <1>8, ReadSimulates, UpdateSimulates, ReadBackSimulates, RespondSimulates,
       FailSimulates
  <1>9. CASE intervalPasses
    BY <1>9, UnseenSimulates DEF intervalPasses
  <1>10. CASE UNCHANGED vars
    BY <1>10, UnseenSimulates DEF vars
  <1>11. QED
    BY <1>2, <1>3, <1>4, <1>5, <1>6, <1>7, <1>8, <1>9, <1>10,
       DeleteProjectSimulates DEF Next

(* The repository implements the revision log: whatever the interleaving of *)
(* its SELECTs, conditional UPDATEs, read-backs, prunings and failures, a   *)
(* caller cannot tell it from a store where each write is one atomic step   *)
(* that takes effect exactly if nobody has written since the revision it    *)
(* was made against.                                                        *)
THEOREM StoreImplementsTheLog == Spec => ImplementsRevisionLog
  <1>1. Init => StoreInv /\ FitInv /\ Abstract!LogInit
    BY InvInit, FitInit, StoreAssumption
  <1>2. StoreInv /\ FitInv /\ [Next]_vars =>
          StoreInv' /\ FitInv' /\ [Abstract!LogNext]_(Abstract!logVars)
    BY InvNext, NextSimulates, StoreAssumption DEF Simulates
  <1>3. QED BY <1>1, <1>2, PTL DEF Spec, ImplementsRevisionLog, Abstract!LogSpec
----
(* Pruning and retention.                                                  *)

(* A snapshot that may go: unnamed, with a full retention of newer ones.   *)
Spare(S, s) == s.type # "named" /\ Cardinality(Newer(S, s)) >= Retention(s.type)

(* What is on a request's list of ids may go, however stale the list is.   *)
PruneInv ==
    /\ IsFiniteSet(snapshots)
    /\ \A s \in snapshots : s.id <= stamp
    /\ \A s, t \in snapshots : s.id = t.id => s = t
    /\ \A c \in Clients : \A id \in req[c].doomed : id <= stamp
    /\ \A c \in Clients : \A s \in snapshots :
          s.id \in req[c].doomed => Spare(snapshots, s)

(* Whichever of the requests deleting now get to the end of their lists,   *)
(* what is left is within the retention and an allowance for the others.   *)
Active == {c \in Clients : req[c].pc \in {"prune", "delete"}}
Deleting == {c \in Clients : req[c].pc = "delete"}
Left(D, type) ==
    {s \in snapshots : s.type = type /\ \A d \in D : s.id \notin req[d].doomed}

RetainInv ==
    /\ IsFiniteSet(Active)
    /\ \A type \in {"automatic", "pre-restore"} : \A D \in SUBSET Deleting :
          Cardinality(Left(D, type))
            <= Retention(type) + failures + Cardinality(Active \ D)

LEMMA Least ==
    ASSUME NEW U, U \subseteq Nat, U # {}
    PROVE  \E x \in U : \A y \in U : x <= y
  <1> DEFINE R == OpToRel(<, Nat)
  <1>1. IsWellFoundedOn(R, Nat)
    BY NatLessThanWellFounded
  <1>2. \A x, y \in Nat : <<x, y>> \in R <=> x < y
    BY DEF OpToRel
  <1> HIDE DEF R
  <1>3. PICK x \in U : \A y \in U : <<y, x>> \notin R
    BY <1>1, WFMin
  <1>4. x \in Nat /\ \A y \in U : y \in Nat /\ ~ (y < x)
    BY <1>2, <1>3
  <1>5. \A y \in U : x <= y
    BY <1>4
  <1>6. QED BY <1>5

LEMMA RetentionType ==
    ASSUME StoreAssumption
    PROVE  \A type : Retention(type) \in Nat /\ Retention(type) >= 1
  BY DEF StoreAssumption, Retention

LEMMA NewerFacts ==
    ASSUME NEW S, IsFiniteSet(S), NEW s
    PROVE  /\ IsFiniteSet(Newer(S, s))
           /\ Cardinality(Newer(S, s)) \in Nat
           /\ \A U \in SUBSET Newer(S, s) :
                IsFiniteSet(U) /\ Cardinality(U) <= Cardinality(Newer(S, s))
  <1>1. Newer(S, s) \in SUBSET S
    BY DEF Newer
  <1>2. IsFiniteSet(Newer(S, s))
    BY <1>1, FS_Subset
  <1>3. QED BY <1>2, FS_Subset, FS_CardinalityType

LEMMA OneMore ==
    ASSUME NEW S, IsFiniteSet(S), NEW x, NEW T \in SUBSET (S \cup {x})
    PROVE  IsFiniteSet(T) /\ Cardinality(T) \in Nat /\ Cardinality(T) <= Cardinality(S) + 1
  <1>1. /\ IsFiniteSet(S \cup {x}) /\ Cardinality(S) \in Nat
        /\ Cardinality(S \cup {x}) <= Cardinality(S) + 1
    <2>1. /\ IsFiniteSet(S \cup {x})
          /\ Cardinality(S \cup {x})
               = IF x \in S THEN Cardinality(S) ELSE Cardinality(S) + 1
      BY FS_AddElement
    <2>2. Cardinality(S) \in Nat
      BY FS_CardinalityType
    <2>3. QED BY <2>1, <2>2
  <1>2. /\ IsFiniteSet(T) /\ Cardinality(T) <= Cardinality(S \cup {x})
        /\ Cardinality(T) \in Nat /\ Cardinality(S \cup {x}) \in Nat
    BY <1>1, FS_Subset, FS_CardinalityType
  <1>3. QED BY <1>1, <1>2

(* What pruning spares of a type is within its retention.                  *)
LEMMA KeptAreFew ==
    ASSUME StoreAssumption, NEW S, IsFiniteSet(S), S \subseteq Snapshots,
           \A s, t \in S : s.id = t.id => s = t,
           NEW type \in {"automatic", "pre-restore"}
    PROVE  Cardinality({s \in S : s.type = type /\ s.id \notin snapshotIdsToPrune(S)})
             <= Retention(type)
  <1> DEFINE K == {s \in S : s.type = type /\ s.id \notin snapshotIdsToPrune(S)}
  <1>1. Retention(type) \in Nat /\ Retention(type) >= 1
    BY RetentionType
  <1>2. CASE K = {}
    BY <1>1, <1>2, FS_EmptySet
  <1>3. CASE K # {}
    <2> DEFINE U == {s.id : s \in K}
    <2>1. U \subseteq Nat /\ U # {}
      BY <1>3 DEF Snapshots
    <2>2. PICK m \in U : \A y \in U : m <= y
      <3> HIDE DEF U
      <3>1. QED BY <2>1, Least
    <2>3. PICK k \in K : k.id = m
      BY <2>2
    <2>4. \A x \in K : x.id \in Nat /\ k.id <= x.id
      BY <2>2, <2>3 DEF Snapshots
    <2>5. K \in SUBSET (Newer(S, k) \cup {k})
      BY <2>3, <2>4 DEF Newer, Snapshots
    <2>6. k \notin Newer(S, k)
      BY <2>3 DEF Newer, Snapshots
    <2>7. IsFiniteSet(Newer(S, k)) /\ Cardinality(Newer(S, k)) \in Nat
      BY NewerFacts
    <2>8. Cardinality(Newer(S, k)) < Retention(type)
      <3>1. ~ (Cardinality(Newer(S, k)) >= Retention(type))
        BY <2>3 DEF snapshotIdsToPrune
      <3>2. QED BY <1>1, <2>7, <3>1
    <2> HIDE DEF K
    <2>9. /\ IsFiniteSet(Newer(S, k) \cup {k})
          /\ Cardinality(Newer(S, k) \cup {k}) = Cardinality(Newer(S, k)) + 1
      BY <2>6, <2>7, FS_AddElement
    <2>10. IsFiniteSet(K) /\ Cardinality(K) <= Cardinality(Newer(S, k)) + 1
      BY <2>5, <2>9, FS_Subset
    <2>11. Cardinality(K) \in Nat
      BY <2>10, FS_CardinalityType
    <2>12. QED BY <1>1, <2>7, <2>8, <2>10, <2>11 DEF K
  <1>4. QED BY <1>2, <1>3

LEMMA PruneTypes ==
    ASSUME StoreInv, PruneInv, RetainInv
    PROVE  /\ snapshots \subseteq Snapshots /\ stamp \in Nat /\ failures \in Nat
           /\ req \in [Clients -> Requests]
           /\ \A s \in snapshots : s.id \in Nat
           /\ IsFiniteSet(snapshots) /\ IsFiniteSet(Active)
           /\ \A c \in Clients : req[c].doomed \subseteq Nat
           /\ \A D : IsFiniteSet(Active \ D) /\ Cardinality(Active \ D) \in Nat
           /\ \A D, type : IsFiniteSet(Left(D, type)) /\ Cardinality(Left(D, type)) \in Nat
  <1>1. /\ snapshots \subseteq Snapshots /\ stamp \in Nat /\ failures \in Nat
        /\ req \in [Clients -> Requests]
        /\ IsFiniteSet(snapshots) /\ IsFiniteSet(Active)
    BY DEF StoreInv, TypeOK, PruneInv, RetainInv
  <1>2. \A D : IsFiniteSet(Active \ D)
    BY <1>1, FS_Difference
  <1>3. \A D, type : Left(D, type) \in SUBSET snapshots
    BY DEF Left
  <1>4. \A D, type : IsFiniteSet(Left(D, type))
    BY <1>1, <1>3, FS_Subset
  <1>5. /\ \A s \in snapshots : s.id \in Nat
        /\ \A c \in Clients : req[c].doomed \subseteq Nat
    BY <1>1 DEF Snapshots, Requests
  <1>6. QED BY <1>1, <1>2, <1>4, <1>5, FS_CardinalityType

TidyInv == StoreInv /\ PruneInv /\ RetainInv

(* A step of a request that is not pruning leaves the table as it is.      *)
LEMMA QuietIsTidy ==
    ASSUME StoreAssumption, TidyInv, NEW c \in Clients, NEW r, Set(c, r),
           snapshots' = snapshots, stamp' = stamp,
           failures' = failures \/ failures' = failures + 1,
           req[c].pc \notin {"prune", "delete"}, r.pc \notin {"prune", "delete"},
           r.doomed \subseteq req[c].doomed
    PROVE  PruneInv' /\ RetainInv'
  <1>1. /\ req \in [Clients -> Requests] /\ failures \in Nat
        /\ \A D : Cardinality(Active \ D) \in Nat
        /\ \A D, type : Cardinality(Left(D, type)) \in Nat
    BY PruneTypes DEF TidyInv
  <1>2. \A d \in Clients : req'[d] = IF d = c THEN r ELSE req[d]
    BY <1>1 DEF Set
  <1>3. PruneInv'
    <2>1. \A d \in Clients : req'[d].doomed \subseteq req[d].doomed
      BY <1>2
    <2>2. QED BY <2>1 DEF TidyInv, PruneInv, Spare, Newer
  <1>4. Active' = Active /\ Deleting' = Deleting /\ c \notin Deleting
    BY <1>2 DEF Active, Deleting
  <1>5. ASSUME NEW type \in {"automatic", "pre-restore"}, NEW D \in SUBSET Deleting
        PROVE  /\ Left(D, type)' = Left(D, type)
               /\ Cardinality(Left(D, type))
                    <= Retention(type) + failures' + Cardinality(Active \ D)
    <2>1. Left(D, type)' = Left(D, type)
      BY <1>2, <1>4 DEF Left, Deleting
    <2>2. Cardinality(Left(D, type)) <= Retention(type) + failures + Cardinality(Active \ D)
      BY DEF TidyInv, RetainInv
    <2>3. QED BY <1>1, <2>1, <2>2, RetentionType
  <1>6. RetainInv'
    BY <1>4, <1>5 DEF TidyInv, RetainInv
  <1>7. QED BY <1>3, <1>6

(* A request that dies while it prunes leaves an allowance behind.         *)
LEMMA DyingIsTidy ==
    ASSUME StoreAssumption, TidyInv, NEW c \in Clients, NEW r, Set(c, r),
           snapshots' = snapshots, stamp' = stamp, failures' = failures + 1,
           req[c].pc \in {"prune", "delete"}, r.pc \notin {"prune", "delete"},
           r.doomed = {}
    PROVE  PruneInv' /\ RetainInv'
  <1>1. /\ req \in [Clients -> Requests] /\ failures \in Nat
        /\ \A D : IsFiniteSet(Active \ D) /\ Cardinality(Active \ D) \in Nat
        /\ \A D, type : Cardinality(Left(D, type)) \in Nat
    BY PruneTypes DEF TidyInv
  <1>2. \A d \in Clients : req'[d] = IF d = c THEN r ELSE req[d]
    BY <1>1 DEF Set
  <1>3. PruneInv'
    <2>1. \A d \in Clients : req'[d].doomed \subseteq req[d].doomed
      BY <1>2
    <2>2. QED BY <2>1 DEF TidyInv, PruneInv, Spare, Newer
  <1>4. Active' = Active \ {c} /\ Deleting' = Deleting \ {c} /\ c \in Active
    BY <1>2 DEF Active, Deleting
  <1>5. IsFiniteSet(Active')
    BY <1>1, <1>4
  <1>6. ASSUME NEW type \in {"automatic", "pre-restore"}, NEW D \in SUBSET Deleting'
        PROVE  /\ Left(D, type)' = Left(D, type)
               /\ Cardinality(Left(D, type))
                    <= Retention(type) + failures' + Cardinality(Active' \ D)
    <2>1. Left(D, type)' = Left(D, type)
      BY <1>2, <1>4 DEF Left, Deleting
    <2>2. Cardinality(Left(D, type)) <= Retention(type) + failures + Cardinality(Active \ D)
      BY <1>4 DEF TidyInv, RetainInv
    <2>3. /\ Cardinality(Active \ D) = Cardinality(Active' \ D) + 1
          /\ Cardinality(Active' \ D) \in Nat
      <3>1. Active \ D = (Active' \ D) \cup {c} /\ c \notin Active' \ D
        BY <1>4
      <3>2. IsFiniteSet(Active' \ D)
        BY <1>5, FS_Difference
      <3>3. QED BY <3>1, <3>2, FS_AddElement, FS_CardinalityType
    <2>4. QED BY <1>1, <2>1, <2>2, <2>3, RetentionType
  <1>7. RetainInv'
    BY <1>5, <1>6 DEF RetainInv
  <1>8. QED BY <1>3, <1>7

LEMMA InsertIsTidy ==
    ASSUME StoreAssumption, TidyInv, NEW c \in Clients, insertSnapshot(c), row # NoRow
    PROVE  PruneInv' /\ RetainInv'
  <1> DEFINE s == SnapshotOf(req[c])
             r == [req[c] EXCEPT !.pc = "prune"]
  <1>1. /\ req \in [Clients -> Requests] /\ failures \in Nat /\ stamp \in Nat
        /\ IsFiniteSet(snapshots) /\ IsFiniteSet(Active)
        /\ \A t \in snapshots : t.id \in Nat
        /\ \A d \in Clients : req[d].doomed \subseteq Nat
        /\ \A D : IsFiniteSet(Active \ D) /\ Cardinality(Active \ D) \in Nat
        /\ \A D, type : IsFiniteSet(Left(D, type)) /\ Cardinality(Left(D, type)) \in Nat
    BY PruneTypes DEF TidyInv
  <1>2. /\ snapshots' = snapshots \cup {s} /\ stamp' = stamp + 1 /\ failures' = failures
        /\ Set(c, r) /\ req[c].pc = "insert" /\ s.id = stamp + 1
    BY DEF insertSnapshot, GoTo, At, SnapshotOf
  <1> HIDE DEF s
  <1>3. /\ \A d \in Clients : req'[d].doomed = req[d].doomed
        /\ \A d \in Clients : req'[d].pc = IF d = c THEN "prune" ELSE req[d].pc
    BY <1>1, <1>2 DEF Set, Requests
  <1>4. IsFiniteSet(snapshots')
    BY <1>1, <1>2, FS_AddElement
  <1>5. PruneInv'
    <2>1. /\ \A t \in snapshots : t.id <= stamp
          /\ \A t, u \in snapshots : t.id = u.id => t = u
          /\ \A d \in Clients : \A id \in req[d].doomed : id <= stamp
          /\ \A d \in Clients : \A t \in snapshots :
                t.id \in req[d].doomed => Spare(snapshots, t)
      BY DEF TidyInv, PruneInv
    <2>2. \A t \in snapshots' : t.id <= stamp'
      BY <1>1, <1>2, <2>1
    <2>3. \A t, u \in snapshots' : t.id = u.id => t = u
      BY <1>1, <1>2, <2>1
    <2>4. \A d \in Clients : \A id \in req'[d].doomed : id <= stamp'
      BY <1>1, <1>2, <1>3, <2>1
    <2>5. ASSUME NEW d \in Clients, NEW t \in snapshots', t.id \in req'[d].doomed
          PROVE  Spare(snapshots', t)
      <3>1. t \in snapshots /\ Spare(snapshots, t)
        BY <1>1, <1>2, <1>3, <2>1, <2>5
      <3>2. Newer(snapshots, t) \in SUBSET Newer(snapshots', t)
        BY <1>2 DEF Newer
      <3>3. Cardinality(Newer(snapshots, t)) <= Cardinality(Newer(snapshots', t))
        BY <1>4, <3>2, NewerFacts
      <3>4. /\ Cardinality(Newer(snapshots, t)) \in Nat
            /\ Cardinality(Newer(snapshots', t)) \in Nat
        BY <1>1, <1>4, NewerFacts
      <3>5. QED BY <3>1, <3>3, <3>4, RetentionType DEF Spare
    <2>6. QED BY <1>4, <2>2, <2>3, <2>4, <2>5 DEF PruneInv, Spare, Newer
  <1>6. /\ Active' = Active \cup {c} /\ c \notin Active /\ IsFiniteSet(Active')
        /\ Deleting' = Deleting /\ c \notin Deleting
    <2>1. Active' = Active \cup {c} /\ c \notin Active
      BY <1>2, <1>3 DEF Active
    <2>2. Deleting' = Deleting /\ c \notin Deleting
      BY <1>2, <1>3 DEF Deleting
    <2>3. QED BY <1>1, <2>1, <2>2, FS_AddElement
  <1>7. ASSUME NEW type \in {"automatic", "pre-restore"}, NEW D \in SUBSET Deleting
        PROVE  Cardinality(Left(D, type)')
                 <= Retention(type) + failures' + Cardinality(Active' \ D)
    <2>1. Left(D, type)' \in SUBSET (Left(D, type) \cup {s})
      BY <1>2, <1>3 DEF Left, Deleting
    <2>2. /\ Cardinality(Left(D, type)') <= Cardinality(Left(D, type)) + 1
          /\ Cardinality(Left(D, type)') \in Nat
      BY <1>1, <2>1, OneMore
    <2>3. /\ Cardinality(Left(D, type)) \in Nat /\ Cardinality(Active \ D) \in Nat
          /\ Retention(type) \in Nat
      BY <1>1, RetentionType
    <2>4. Cardinality(Left(D, type)) <= Retention(type) + failures + Cardinality(Active \ D)
      BY DEF TidyInv, RetainInv
    <2>5. Cardinality(Active' \ D) = Cardinality(Active \ D) + 1
      <3>1. Active' \ D = (Active \ D) \cup {c} /\ c \notin Active \ D
        BY <1>6
      <3>2. QED BY <1>1, <3>1, FS_AddElement
    <2>6. QED BY <1>1, <1>2, <2>2, <2>3, <2>4, <2>5
  <1>8. RetainInv'
    <2>1. ASSUME NEW type \in {"automatic", "pre-restore"}, NEW D \in SUBSET Deleting'
          PROVE  Cardinality(Left(D, type)')
                   <= Retention(type) + failures' + Cardinality(Active' \ D)
      BY <1>6, <1>7
    <2>2. QED BY <1>6, <2>1 DEF RetainInv
  <1>9. QED BY <1>5, <1>8

(* The list a request reads names only snapshots that may go, and the rest *)
(* of their types are within the retention.                                *)
LEMMA ListIsTidy ==
    ASSUME StoreAssumption, TidyInv
    PROVE  LET ids == snapshotIdsToPrune(snapshots) IN
           /\ ids \subseteq Nat
           /\ \A id \in ids : id <= stamp
           /\ \A s \in snapshots : s.id \in ids => Spare(snapshots, s)
           /\ \A type \in {"automatic", "pre-restore"} :
                Cardinality({s \in snapshots : s.type = type /\ s.id \notin ids})
                  <= Retention(type)
  <1>1. /\ snapshots \subseteq Snapshots /\ IsFiniteSet(snapshots)
        /\ \A s \in snapshots : s.id \in Nat /\ s.id <= stamp
        /\ \A s, t \in snapshots : s.id = t.id => s = t
    BY PruneTypes DEF TidyInv, PruneInv
  <1>2. \A type \in {"automatic", "pre-restore"} :
          Cardinality({s \in snapshots :
                         s.type = type /\ s.id \notin snapshotIdsToPrune(snapshots)})
            <= Retention(type)
    BY <1>1, KeptAreFew
  <1>3. \A s \in snapshots :
          s.id \in snapshotIdsToPrune(snapshots) => Spare(snapshots, s)
    BY <1>1 DEF snapshotIdsToPrune, Spare
  <1>4. \A id \in snapshotIdsToPrune(snapshots) : id \in Nat /\ id <= stamp
    BY <1>1 DEF snapshotIdsToPrune
  <1>5. QED BY <1>2, <1>3, <1>4

LEMMA PruneIsTidy ==
    ASSUME StoreAssumption, TidyInv, NEW c \in Clients, pruneSnapshots(c)
    PROVE  PruneInv' /\ RetainInv'
  <1> DEFINE ids == snapshotIdsToPrune(snapshots)
  <1>1. /\ req \in [Clients -> Requests] /\ failures \in Nat
        /\ IsFiniteSet(snapshots) /\ IsFiniteSet(Active)
        /\ \A D : IsFiniteSet(Active \ D) /\ Cardinality(Active \ D) \in Nat
        /\ \A D, type : IsFiniteSet(Left(D, type)) /\ Cardinality(Left(D, type)) \in Nat
    BY PruneTypes DEF TidyInv
  <1>2. /\ snapshots' = snapshots /\ stamp' = stamp /\ failures' = failures
        /\ req[c].pc = "prune"
    BY DEF pruneSnapshots, Storage, At
  <1>3. /\ ids \subseteq Nat
        /\ \A id \in ids : id <= stamp
        /\ \A s \in snapshots : s.id \in ids => Spare(snapshots, s)
        /\ \A type \in {"automatic", "pre-restore"} :
             Cardinality({s \in snapshots : s.type = type /\ s.id \notin ids})
               <= Retention(type)
    BY ListIsTidy
  <1>4. PICK r : /\ Set(c, r)
                 /\ r.doomed = ids
                 /\ r.pc = "delete" \/ (ids = {} /\ r.pc \in {"read", "done"})
    <2>1. CASE ids = {}
      <3>1. AfterPrune(c)
        BY <2>1 DEF pruneSnapshots
      <3>2. CASE req[c].kind = "restore"
        <4> DEFINE q == [req[c] EXCEPT !.pc = "read", !.seen = None, !.doomed = {}]
        <4>1. Set(c, q) /\ q.doomed = {} /\ q.pc = "read"
          BY <1>1, <3>1, <3>2 DEF AfterPrune, Requests
        <4> HIDE DEF q
        <4>2. QED BY <2>1, <4>1
      <3>3. CASE req[c].kind # "restore"
        <4> DEFINE q == Ended(c, "ok")
        <4>1. Set(c, q) /\ q.doomed = {} /\ q.pc = "done"
          BY <1>1, <3>1, <3>3 DEF AfterPrune, End, Ended, Requests
        <4> HIDE DEF q
        <4>2. QED BY <2>1, <4>1
      <3>4. QED BY <3>2, <3>3
    <2>2. CASE ids # {}
      <3> DEFINE q == [req[c] EXCEPT !.pc = "delete", !.doomed = ids]
      <3>1. Set(c, q)
        BY <2>2 DEF pruneSnapshots
      <3> HIDE DEF ids
      <3>2. q.doomed = ids /\ q.pc = "delete"
        BY <1>1 DEF Requests
      <3> HIDE DEF q
      <3>3. QED BY <3>1, <3>2
    <2>3. QED BY <2>1, <2>2
  <1> HIDE DEF ids
  <1>5. \A d \in Clients : req'[d] = IF d = c THEN r ELSE req[d]
    BY <1>1, <1>4 DEF Set
  <1>6. PruneInv'
    <2>1. /\ \A s \in snapshots : s.id <= stamp
          /\ \A s, t \in snapshots : s.id = t.id => s = t
          /\ \A d \in Clients : \A id \in req[d].doomed : id <= stamp
          /\ \A d \in Clients : \A s \in snapshots :
                s.id \in req[d].doomed => Spare(snapshots, s)
      BY DEF TidyInv, PruneInv
    <2>2. \A d \in Clients : \A id \in req'[d].doomed : id <= stamp
      BY <1>3, <1>4, <1>5, <2>1
    <2>3. \A d \in Clients : \A s \in snapshots :
            s.id \in req'[d].doomed => Spare(snapshots, s)
      BY <1>3, <1>4, <1>5, <2>1
    <2>4. QED BY <1>1, <1>2, <2>1, <2>2, <2>3 DEF PruneInv, Spare, Newer
  <1>7. /\ Active' = IF r.pc = "delete" THEN Active ELSE Active \ {c}
        /\ Deleting' = IF r.pc = "delete" THEN Deleting \cup {c} ELSE Deleting
        /\ c \notin Deleting
    BY <1>2, <1>4, <1>5 DEF Active, Deleting
  <1>8. IsFiniteSet(Active')
    BY <1>1, <1>7
  <1>9. ASSUME NEW type \in {"automatic", "pre-restore"}, NEW D \in SUBSET Deleting'
        PROVE  Cardinality(Left(D, type)')
                 <= Retention(type) + failures' + Cardinality(Active' \ D)
    <2>1. /\ Retention(type) \in Nat /\ Cardinality(Active' \ D) \in Nat
      BY <1>8, FS_Difference, FS_CardinalityType, RetentionType
    <2>2. CASE c \in D \/ ids = {}
      <3> DEFINE K == {s \in snapshots : s.type = type /\ s.id \notin ids}
      <3>1. Left(D, type)' \in SUBSET K
        BY <1>2, <1>4, <1>5, <2>2 DEF Left
      <3>2. K \in SUBSET snapshots
        OBVIOUS
      <3>3. Cardinality(K) <= Retention(type)
        BY <1>3
      <3> HIDE DEF K
      <3>4. IsFiniteSet(K) /\ Cardinality(K) \in Nat
        BY <1>1, <3>2, FS_Subset, FS_CardinalityType
      <3>5. Cardinality(Left(D, type)') <= Cardinality(K) /\ Cardinality(Left(D, type)') \in Nat
        BY <3>1, <3>4, FS_Subset, FS_CardinalityType
      <3>6. QED BY <1>1, <1>2, <2>1, <3>3, <3>4, <3>5
    <2>3. CASE c \notin D /\ ids # {}
      <3>1. r.pc = "delete" /\ D \in SUBSET Deleting /\ Active' = Active
        BY <1>4, <1>7, <2>3
      <3>2. Left(D, type)' = Left(D, type)
        BY <1>2, <1>5, <2>3, <3>1 DEF Left, Deleting
      <3>3. Cardinality(Left(D, type)) <= Retention(type) + failures + Cardinality(Active \ D)
        BY <3>1 DEF TidyInv, RetainInv
      <3>4. QED BY <1>2, <3>1, <3>2, <3>3
    <2>4. QED BY <2>2, <2>3
  <1>10. RetainInv'
    BY <1>8, <1>9 DEF RetainInv
  <1>11. QED BY <1>6, <1>10

(* Removing a listed snapshot keeps the others that are listed spare: the  *)
(* one removed had a full retention of newer ones, which are newer still   *)
(* than anything older than it.                                            *)
LEMMA RemovalSpares ==
    ASSUME StoreAssumption, TidyInv, NEW u \in snapshots, Spare(snapshots, u),
           NEW t \in snapshots, t.id # u.id, Spare(snapshots, t)
    PROVE  Spare({s \in snapshots : s.id # u.id}, t)
  <1> DEFINE S == {s \in snapshots : s.id # u.id}
  <1>1. /\ IsFiniteSet(snapshots) /\ \A s \in snapshots : s.id \in Nat
        /\ \A x, y \in snapshots : x.id = y.id => x = y
    BY PruneTypes DEF TidyInv, PruneInv
  <1>2. S \in SUBSET snapshots
    OBVIOUS
  <1>3. IsFiniteSet(S)
    <2> HIDE DEF S
    <2>1. QED BY <1>1, <1>2, FS_Subset
  <1>4. CASE u \in Newer(snapshots, t)
    <2>1. Newer(snapshots, u) \in SUBSET Newer(S, t) /\ u.type = t.type
      BY <1>1, <1>4 DEF Newer
    <2> HIDE DEF S
    <2>2. /\ Cardinality(Newer(snapshots, u)) <= Cardinality(Newer(S, t))
          /\ Cardinality(Newer(snapshots, u)) \in Nat /\ Cardinality(Newer(S, t)) \in Nat
      BY <1>1, <1>3, <2>1, NewerFacts
    <2>3. QED BY <2>1, <2>2, RetentionType DEF Spare, S
  <1>5. CASE u \notin Newer(snapshots, t)
    <2>1. Newer(S, t) = Newer(snapshots, t)
      BY <1>1, <1>5 DEF Newer
    <2>2. QED BY <2>1 DEF Spare
  <1>6. QED BY <1>4, <1>5

LEMMA DeleteIsTidy ==
    ASSUME StoreAssumption, TidyInv, NEW c \in Clients, deletePruned(c)
    PROVE  /\ PruneInv' /\ RetainInv'
           /\ \A s \in snapshots \ snapshots' :
                /\ s.type # "named"
                /\ Cardinality(Newer(snapshots', s)) >= Retention(s.type)
  <1>1. /\ req \in [Clients -> Requests] /\ failures \in Nat
        /\ IsFiniteSet(snapshots) /\ IsFiniteSet(Active)
        /\ \A s \in snapshots : s.id \in Nat
        /\ \A D : IsFiniteSet(Active \ D) /\ Cardinality(Active \ D) \in Nat
        /\ \A D, type : IsFiniteSet(Left(D, type)) /\ Cardinality(Left(D, type)) \in Nat
    BY PruneTypes DEF TidyInv
  <1>2. /\ \A s \in snapshots : s.id <= stamp
        /\ \A s, t \in snapshots : s.id = t.id => s = t
        /\ \A d \in Clients : \A id \in req[d].doomed : id <= stamp
        /\ \A d \in Clients : \A s \in snapshots :
              s.id \in req[d].doomed => Spare(snapshots, s)
    BY DEF TidyInv, PruneInv
  <1>3. PICK id \in req[c].doomed :
          /\ snapshots' = {s \in snapshots : s.id # id}
          /\ IF req[c].doomed = {id}
             THEN AfterPrune(c)
             ELSE Set(c, [req[c] EXCEPT !.doomed = @ \ {id}])
    BY DEF deletePruned
  <1>4. stamp' = stamp /\ failures' = failures /\ req[c].pc = "delete"
    BY DEF deletePruned, At
  <1>5. PICK r : /\ Set(c, r)
                 /\ r.doomed = req[c].doomed \ {id}
                 /\ r.pc = IF req[c].doomed = {id} THEN r.pc ELSE "delete"
                 /\ req[c].doomed = {id} => r.pc \in {"read", "done"}
    <2>1. CASE req[c].doomed = {id}
      <3>1. AfterPrune(c)
        BY <1>3, <2>1
      <3>2. CASE req[c].kind = "restore"
        <4> DEFINE q == [req[c] EXCEPT !.pc = "read", !.seen = None, !.doomed = {}]
        <4>1. Set(c, q) /\ q.doomed = {} /\ q.pc = "read"
          BY <1>1, <3>1, <3>2 DEF AfterPrune, Requests
        <4> HIDE DEF q
        <4>2. QED BY <2>1, <4>1
      <3>3. CASE req[c].kind # "restore"
        <4> DEFINE q == Ended(c, "ok")
        <4>1. Set(c, q) /\ q.doomed = {} /\ q.pc = "done"
          BY <1>1, <3>1, <3>3 DEF AfterPrune, End, Ended, Requests
        <4> HIDE DEF q
        <4>2. QED BY <2>1, <4>1
      <3>4. QED BY <3>2, <3>3
    <2>2. CASE req[c].doomed # {id}
      <3> DEFINE q == [req[c] EXCEPT !.doomed = @ \ {id}]
      <3>1. Set(c, q)
        BY <1>3, <2>2
      <3>2. q.doomed = req[c].doomed \ {id} /\ q.pc = "delete"
        BY <1>1, <1>4 DEF Requests
      <3> HIDE DEF q
      <3>3. QED BY <2>2, <3>1, <3>2
    <2>3. QED BY <2>1, <2>2
  <1>6. \A d \in Clients : req'[d] = IF d = c THEN r ELSE req[d]
    BY <1>1, <1>5 DEF Set
  <1>7. \A d \in Clients : req'[d].doomed \subseteq req[d].doomed
    BY <1>5, <1>6
  <1>8. snapshots' \in SUBSET snapshots /\ IsFiniteSet(snapshots')
    <2>1. snapshots' \in SUBSET snapshots
      BY <1>3
    <2>2. QED BY <1>1, <2>1, FS_Subset
  <1>9. \A s \in snapshots \ snapshots' :
          /\ s.type # "named"
          /\ Cardinality(Newer(snapshots', s)) >= Retention(s.type)
    <2>1. ASSUME NEW s \in snapshots, s.id = id
          PROVE  s.type # "named" /\ Cardinality(Newer(snapshots', s)) >= Retention(s.type)
      <3>1. Spare(snapshots, s)
        BY <1>2, <1>3, <2>1
      <3>2. Newer(snapshots', s) = Newer(snapshots, s)
        BY <1>1, <1>3, <2>1 DEF Newer
      <3>3. QED BY <3>1, <3>2 DEF Spare
    <2>2. QED BY <1>3, <2>1
  <1>10. PruneInv'
    <2>1. ASSUME NEW d \in Clients, NEW t \in snapshots', t.id \in req'[d].doomed
          PROVE  Spare(snapshots', t)
      <3>1. t \in snapshots /\ t.id # id /\ Spare(snapshots, t)
        BY <1>2, <1>3, <1>7, <2>1
      <3>2. CASE \A u \in snapshots : u.id # id
        <4>1. snapshots' = snapshots
          BY <1>3, <3>2
        <4>2. QED BY <3>1, <4>1
      <3>3. ASSUME NEW u \in snapshots, u.id = id
            PROVE  Spare(snapshots', t)
        <4>1. Spare(snapshots, u) /\ snapshots' = {s \in snapshots : s.id # u.id}
          BY <1>2, <1>3, <3>3
        <4>2. QED BY <3>1, <3>3, <4>1, RemovalSpares
      <3>4. QED BY <3>2, <3>3
    <2>2. /\ \A s \in snapshots' : s.id <= stamp'
          /\ \A s, t \in snapshots' : s.id = t.id => s = t
          /\ \A d \in Clients : \A x \in req'[d].doomed : x <= stamp'
      BY <1>2, <1>4, <1>7, <1>8
    <2>3. QED BY <1>8, <2>1, <2>2 DEF PruneInv, Spare, Newer
  <1>11. CASE req[c].doomed # {id}
    <2>1. Active' = Active /\ Deleting' = Deleting
      BY <1>4, <1>5, <1>6, <1>11 DEF Active, Deleting
    <2>2. ASSUME NEW type \in {"automatic", "pre-restore"}, NEW D \in SUBSET Deleting
          PROVE  Cardinality(Left(D, type)')
                   <= Retention(type) + failures' + Cardinality(Active \ D)
      <3>1. Left(D, type)' \in SUBSET Left(D, type)
        BY <1>3, <1>5, <1>6 DEF Left, Deleting
      <3>2. /\ Cardinality(Left(D, type)') <= Cardinality(Left(D, type))
            /\ Cardinality(Left(D, type)') \in Nat
        BY <1>1, <3>1, FS_Subset, FS_CardinalityType
      <3>3. Cardinality(Left(D, type)) <= Retention(type) + failures + Cardinality(Active \ D)
        BY DEF TidyInv, RetainInv
      <3>4. /\ Cardinality(Left(D, type)) \in Nat /\ Cardinality(Active \ D) \in Nat
            /\ Retention(type) \in Nat
        BY <1>1, RetentionType
      <3>5. QED BY <1>1, <1>4, <3>2, <3>3, <3>4
    <2>3. RetainInv'
      BY <1>1, <2>1, <2>2 DEF RetainInv
    <2>4. QED BY <1>9, <1>10, <2>3
  <1>12. CASE req[c].doomed = {id}
    <2>1. /\ Active' = Active \ {c} /\ Deleting' = Deleting \ {c} /\ c \in Deleting
      BY <1>4, <1>5, <1>6, <1>12 DEF Active, Deleting
    <2>2. IsFiniteSet(Active')
      BY <1>1, <2>1
    <2>3. ASSUME NEW type \in {"automatic", "pre-restore"}, NEW D \in SUBSET Deleting'
          PROVE  Cardinality(Left(D, type)')
                   <= Retention(type) + failures' + Cardinality(Active' \ D)
      <3> DEFINE E == D \cup {c}
      <3>1. E \in SUBSET Deleting /\ Active \ E = Active' \ D
        BY <2>1
      <3>2. Left(D, type)' = Left(E, type)
        BY <1>3, <1>5, <1>6, <1>12, <2>1 DEF Left, Deleting
      <3> HIDE DEF E
      <3>3. Cardinality(Left(E, type)) <= Retention(type) + failures + Cardinality(Active \ E)
        BY <3>1 DEF TidyInv, RetainInv
      <3>4. QED BY <1>4, <3>1, <3>2, <3>3
    <2>4. RetainInv'
      BY <2>2, <2>3 DEF RetainInv
    <2>5. QED BY <1>9, <1>10, <2>4
  <1>13. QED BY <1>11, <1>12

LEMMA ClearedIsTidy ==
    ASSUME StoreAssumption, TidyInv, deleteProject
    PROVE  PruneInv' /\ RetainInv'
  <1>1. /\ snapshots' = {} /\ stamp' = stamp /\ req' = req /\ failures' = failures
    BY DEF deleteProject
  <1>2. /\ IsFiniteSet({}) /\ Cardinality({}) = 0 /\ failures \in Nat
        /\ \A D : Cardinality(Active \ D) \in Nat
    BY FS_EmptySet, PruneTypes DEF TidyInv
  <1>3. PruneInv'
    BY <1>1, <1>2 DEF TidyInv, PruneInv
  <1>4. Active' = Active /\ Deleting' = Deleting
    BY <1>1 DEF Active, Deleting
  <1>5. ASSUME NEW type \in {"automatic", "pre-restore"}, NEW D \in SUBSET Deleting
        PROVE  Cardinality(Left(D, type)')
                 <= Retention(type) + failures' + Cardinality(Active \ D)
    <2>1. Left(D, type)' = {}
      BY <1>1 DEF Left
    <2>2. Cardinality(Active \ D) \in Nat /\ Retention(type) \in Nat
      BY <1>2, RetentionType
    <2>3. QED BY <1>1, <1>2, <2>1, <2>2
  <1>6. RetainInv'
    BY <1>4, <1>5 DEF TidyInv, RetainInv
  <1>7. QED BY <1>3, <1>6

(* The steps of a request that is not pruning.                             *)
QuietlyMoves(c) ==
    /\ req[c].pc \notin {"prune", "delete"}
    /\ snapshots' = snapshots /\ stamp' = stamp
    /\ failures' = failures \/ failures' = failures + 1
    /\ \E r : /\ Set(c, r) /\ r.pc \notin {"prune", "delete"}
              /\ r.doomed \subseteq req[c].doomed

LEMMA EndMoves ==
    ASSUME StoreInv, NEW c \in Clients, NEW o, End(c, o)
    PROVE  \E r : Set(c, r) /\ r.pc = "done" /\ r.doomed = {}
  <1> DEFINE r == Ended(c, o)
  <1>1. req[c] \in Requests
    BY InvTypes
  <1>2. Set(c, r) /\ r.pc = "done" /\ r.doomed = {}
    BY <1>1 DEF End, Ended, Requests
  <1> HIDE DEF r
  <1>3. QED BY <1>2

LEMMA StartsQuietly ==
    ASSUME StoreInv, NEW c \in Clients,
           \/ save(c) \/ rename(c) \/ createNamedVersion(c)
           \/ createAutomaticSnapshot(c) \/ restoreSnapshot(c)
    PROVE  QuietlyMoves(c)
  <1>1. ASSUME NEW pc \in {"load", "read"}, NEW kind, NEW e, NEW target, NEW doc,
               Start(c, pc, kind, e, target, doc)
        PROVE  QuietlyMoves(c)
    <2> DEFINE r == [Idle EXCEPT !.pc = pc, !.kind = kind, !.expected = e,
                                 !.target = target, !.doc = doc]
    <2>1. /\ Set(c, r) /\ r.pc = pc /\ r.doomed = {} /\ req[c].pc = "idle"
          /\ snapshots' = snapshots /\ stamp' = stamp /\ failures' = failures
      BY <1>1 DEF Start, Idle, At, Storage
    <2> HIDE DEF r
    <2>2. QED BY <2>1 DEF QuietlyMoves
  <1>2. CASE save(c)
    BY <1>1, <1>2 DEF save
  <1>3. CASE rename(c)
    BY <1>1, <1>3 DEF rename
  <1>4. CASE createNamedVersion(c)
    BY <1>1, <1>4 DEF createNamedVersion
  <1>5. CASE createAutomaticSnapshot(c)
    BY <1>1, <1>5 DEF createAutomaticSnapshot
  <1>6. CASE restoreSnapshot(c)
    BY <1>1, <1>6 DEF restoreSnapshot
  <1>7. QED BY <1>2, <1>3, <1>4, <1>5, <1>6

LEMMA MovesQuietly ==
    ASSUME StoreInv, NEW c \in Clients,
           \/ loadRow(c) \/ getSnapshot(c) \/ decideAutomatic(c)
           \/ insertSnapshot(c) /\ row = NoRow
           \/ readRow(c) \/ conditionalUpdate(c) \/ readBack(c) \/ respond(c)
           \/ fail(c) /\ req[c].pc \notin {"prune", "delete"}
    PROVE  QuietlyMoves(c)
  <1>1. req[c] \in Requests
    BY InvTypes
  <1>2. ASSUME NEW o, End(c, o), snapshots' = snapshots, stamp' = stamp,
               failures' = failures \/ failures' = failures + 1,
               req[c].pc \notin {"prune", "delete"}
        PROVE  QuietlyMoves(c)
    BY <1>2, EndMoves DEF QuietlyMoves
  <1>3. ASSUME NEW r, Set(c, r), snapshots' = snapshots, stamp' = stamp,
               failures' = failures, req[c].pc \notin {"prune", "delete"},
               r.pc \notin {"prune", "delete"}, r.doomed \subseteq req[c].doomed
        PROVE  QuietlyMoves(c)
    BY <1>3 DEF QuietlyMoves
  <1>4. CASE loadRow(c)
    <2>1. /\ req[c].pc = "load" /\ snapshots' = snapshots /\ stamp' = stamp
          /\ failures' = failures
      BY <1>4 DEF loadRow, At, Storage
    <2>2. (\E o : End(c, o)) \/ Set(c, Loaded(req[c]))
      BY <1>4 DEF loadRow
    <2>3. Loaded(req[c]).pc \in {"insert", "fetch", "read", "rows"}
          /\ Loaded(req[c]).doomed = req[c].doomed
      BY <1>1 DEF Loaded, Requests
    <2>4. QED BY <1>2, <1>3, <2>1, <2>2, <2>3
  <1>5. CASE getSnapshot(c)
    <2>1. /\ req[c].pc = "fetch" /\ snapshots' = snapshots /\ stamp' = stamp
          /\ failures' = failures
      BY <1>5 DEF getSnapshot, At, Storage
    <2>2. CASE End(c, "not-found")
      BY <1>2, <2>1, <2>2
    <2>3. ASSUME NEW s \in snapshots,
                 Set(c, [req[c] EXCEPT !.pc = "insert", !.doc = s.doc])
          PROVE  QuietlyMoves(c)
      <3> DEFINE q == [req[c] EXCEPT !.pc = "insert", !.doc = s.doc]
      <3>1. q.pc = "insert" /\ q.doomed = req[c].doomed /\ Set(c, q)
        BY <1>1, <2>3 DEF Requests
      <3> HIDE DEF q
      <3>2. QED BY <1>3, <2>1, <3>1
    <2>4. QED BY <1>5, <2>2, <2>3 DEF getSnapshot
  <1>6. CASE decideAutomatic(c)
    <2> DEFINE q == [req[c] EXCEPT !.pc = "insert"]
    <2>1. /\ req[c].pc = "rows" /\ snapshots' = snapshots /\ stamp' = stamp
          /\ failures' = failures /\ (End(c, "ok") \/ Set(c, q))
      BY <1>6 DEF decideAutomatic, At, Storage, GoTo
    <2>2. q.pc = "insert" /\ q.doomed = req[c].doomed
      BY <1>1 DEF Requests
    <2> HIDE DEF q
    <2>3. QED BY <1>2, <1>3, <2>1, <2>2
  <1>7. CASE insertSnapshot(c) /\ row = NoRow
    BY <1>2, <1>7 DEF insertSnapshot, At
  <1>8. CASE readRow(c)
    <2> DEFINE q == [req[c] EXCEPT !.pc = "cas", !.seen = row,
                                   !.doc = DocumentToWrite(req[c])]
    <2>1. /\ req[c].pc = "read" /\ snapshots' = snapshots /\ stamp' = stamp
          /\ failures' = failures /\ ((\E o : End(c, o)) \/ Set(c, q))
      BY <1>8 DEF readRow, At, Storage
    <2>2. q.pc = "cas" /\ q.doomed = req[c].doomed
      BY <1>1 DEF Requests
    <2> HIDE DEF q
    <2>3. QED BY <1>2, <1>3, <2>1, <2>2
  <1>9. CASE conditionalUpdate(c)
    <2> DEFINE q == [req[c] EXCEPT !.pc = "after"]
    <2>1. /\ req[c].pc = "cas" /\ snapshots' = snapshots /\ stamp' = stamp
          /\ failures' = failures /\ (End(c, "conflict") \/ Set(c, q))
      BY <1>9 DEF conditionalUpdate, At, GoTo
    <2>2. q.pc = "after" /\ q.doomed = req[c].doomed
      BY <1>1 DEF Requests
    <2> HIDE DEF q
    <2>3. QED BY <1>2, <1>3, <2>1, <2>2
  <1>10. CASE readBack(c)
    <2> DEFINE pc == IF req[c].kind \in {"save", "patch"} THEN "load" ELSE "done"
               q == [req[c] EXCEPT !.answer = row, !.outcome = "ok", !.pc = pc,
                                   !.seen = None]
    <2>1. /\ req[c].pc = "after" /\ snapshots' = snapshots /\ stamp' = stamp
          /\ failures' = failures
      BY <1>10 DEF readBack, At, Storage
    <2>2. End(c, "not-found") \/ Set(c, q)
      BY <1>1, <1>10 DEF readBack, Requests
    <2>3. q.pc \in {"load", "done"} /\ q.doomed = req[c].doomed
      BY <1>1 DEF Requests
    <2> HIDE DEF q
    <2>4. QED BY <1>2, <1>3, <2>1, <2>2, <2>3
  <1>11. CASE respond(c)
    BY <1>3, <1>11 DEF respond, At, Storage, Idle
  <1>12. CASE fail(c) /\ req[c].pc \notin {"prune", "delete"}
    BY <1>2, <1>12 DEF fail
  <1>13. QED
    BY <1>4, <1>5, <1>6, <1>7, <1>8, <1>9, <1>10, <1>11, <1>12

LEMMA TidyInit ==
    ASSUME StoreAssumption, Init
    PROVE  TidyInv
  <1>1. /\ snapshots = {} /\ failures = 0
        /\ req = [c \in Clients |-> Idle]
    BY DEF Init
  <1>2. Active = {}
    BY <1>1 DEF Active, Idle
  <1>3. PruneInv
    BY <1>1, FS_EmptySet DEF PruneInv, Idle
  <1>4. ASSUME NEW type \in {"automatic", "pre-restore"}, NEW D
        PROVE  Cardinality(Left(D, type))
                 <= Retention(type) + failures + Cardinality(Active \ D)
    <2>1. Left(D, type) = {} /\ Active \ D = {}
      BY <1>1, <1>2 DEF Left
    <2>2. Cardinality(Left(D, type)) = 0 /\ Cardinality(Active \ D) = 0
      BY <2>1, FS_EmptySet
    <2>3. Retention(type) \in Nat
      BY RetentionType
    <2>4. QED BY <1>1, <2>2, <2>3
  <1>5. RetainInv
    BY <1>2, <1>4, FS_EmptySet DEF RetainInv
  <1>6. QED BY <1>3, <1>5, InvInit DEF TidyInv

LEMMA TidyNext ==
    ASSUME StoreAssumption, TidyInv, [Next]_vars
    PROVE  /\ TidyInv'
           /\ row' # NoRow =>
                \A s \in snapshots \ snapshots' :
                  /\ s.type # "named"
                  /\ Cardinality(Newer(snapshots', s)) >= Retention(s.type)
  <1> DEFINE Spared == row' # NoRow =>
                \A s \in snapshots \ snapshots' :
                  /\ s.type # "named"
                  /\ Cardinality(Newer(snapshots', s)) >= Retention(s.type)
  <1> HIDE DEF Spared
  <1>1. StoreInv' /\ StoreInv
    BY InvNext DEF TidyInv
  <1>2. ASSUME NEW c \in Clients, QuietlyMoves(c)
        PROVE  PruneInv' /\ RetainInv' /\ Spared
    <2>1. PruneInv' /\ RetainInv'
      BY <1>2, QuietIsTidy DEF QuietlyMoves
    <2>2. QED BY <1>2, <2>1 DEF Spared, QuietlyMoves
  <1>3. ASSUME NEW c \in Clients, insertSnapshot(c), row # NoRow
        PROVE  PruneInv' /\ RetainInv' /\ Spared
    <2>1. snapshots \subseteq snapshots'
      BY <1>3 DEF insertSnapshot
    <2>2. QED BY <1>3, <2>1, InsertIsTidy DEF Spared
  <1>4. ASSUME NEW c \in Clients, pruneSnapshots(c)
        PROVE  PruneInv' /\ RetainInv' /\ Spared
    <2>1. snapshots' = snapshots
      BY <1>4 DEF pruneSnapshots, Storage
    <2>2. QED BY <1>4, <2>1, PruneIsTidy DEF Spared
  <1>5. ASSUME NEW c \in Clients, deletePruned(c)
        PROVE  PruneInv' /\ RetainInv' /\ Spared
    BY <1>5, DeleteIsTidy DEF Spared
  <1>6. ASSUME NEW c \in Clients, fail(c), req[c].pc \in {"prune", "delete"}
        PROVE  PruneInv' /\ RetainInv' /\ Spared
    <2>1. /\ snapshots' = snapshots /\ stamp' = stamp /\ failures' = failures + 1
          /\ End(c, "error")
      BY <1>6 DEF fail
    <2>2. PICK r : Set(c, r) /\ r.pc = "done" /\ r.doomed = {}
      BY <1>1, <2>1, EndMoves
    <2>3. QED BY <1>6, <2>1, <2>2, DyingIsTidy DEF Spared
  <1>7. ASSUME deleteProject
        PROVE  PruneInv' /\ RetainInv' /\ Spared
    BY <1>7, ClearedIsTidy DEF Spared, deleteProject
  <1>8. ASSUME UNCHANGED <<row, snapshots, stamp, req, failures, hist>>
        PROVE  PruneInv' /\ RetainInv' /\ Spared
    <2>1. PruneInv'
      BY <1>8 DEF TidyInv, PruneInv, Spare, Newer
    <2>2. RetainInv'
      BY <1>8 DEF TidyInv, RetainInv, Active, Deleting, Left
    <2>3. QED BY <1>8, <2>1, <2>2 DEF Spared
  <1>9. ASSUME NEW c \in Clients,
               \/ save(c) \/ rename(c) \/ createNamedVersion(c)
               \/ createAutomaticSnapshot(c) \/ restoreSnapshot(c)
               \/ loadRow(c) \/ getSnapshot(c) \/ decideAutomatic(c)
               \/ insertSnapshot(c) /\ row = NoRow
               \/ readRow(c) \/ conditionalUpdate(c) \/ readBack(c) \/ respond(c)
               \/ fail(c) /\ req[c].pc \notin {"prune", "delete"}
        PROVE  PruneInv' /\ RetainInv' /\ Spared
    <2>1. QuietlyMoves(c)
      BY <1>1, <1>9, StartsQuietly, MovesQuietly
    <2>2. QED BY <1>2, <2>1
  <1>10. PruneInv' /\ RetainInv' /\ Spared
    BY <1>3, <1>4, <1>5, <1>6, <1>7, <1>8, <1>9
       DEF Next, vars, intervalPasses
  <1>11. QED BY <1>1, <1>10 DEF TidyInv, Spared

(* Each type of snapshot stays within its retention, but for one more per  *)
(* request whose pruning is under way or died, however many requests       *)
(* insert and prune at once.                                               *)
THEOREM RetentionIsKept == Spec => []RetentionHolds
  <1>1. Init => TidyInv
    BY TidyInit, StoreAssumption
  <1>2. TidyInv /\ [Next]_vars => TidyInv'
    BY TidyNext, StoreAssumption
  <1>3. TidyInv => RetentionHolds
    <2>1. ASSUME TidyInv, NEW type \in {"automatic", "pre-restore"}
          PROVE  Cardinality({s \in snapshots : s.type = type})
                   <= Retention(type) + failures + Cardinality(Active)
      <3>1. {} \in SUBSET Deleting /\ Active \ {} = Active
        OBVIOUS
      <3>2. Left({}, type) = {s \in snapshots : s.type = type}
        BY DEF Left
      <3>3. Cardinality(Left({}, type))
              <= Retention(type) + failures + Cardinality(Active \ {})
        BY <2>1, <3>1 DEF TidyInv, RetainInv
      <3>4. QED BY <3>1, <3>2, <3>3
    <2>2. QED BY <2>1 DEF RetentionHolds, Active
  <1>4. QED BY <1>1, <1>2, <1>3, PTL DEF Spec

(* While the project exists, pruning removes no named version and only     *)
(* snapshots with a full retention of newer ones left behind, even when    *)
(* the list of ids it works from was overtaken by other requests' lists.   *)
THEOREM PruningIsSparing == Spec => PruningSparesNamedAndNewest
  <1>1. Init => TidyInv
    BY TidyInit, StoreAssumption
  <1>2. TidyInv /\ [Next]_vars => TidyInv'
    BY TidyNext, StoreAssumption
  <1>3. TidyInv /\ [Next]_vars =>
          [row' # NoRow =>
             \A s \in snapshots \ snapshots' :
               /\ s.type # "named"
               /\ Cardinality(Newer(snapshots', s)) >= Retention(s.type)]_vars
    BY TidyNext, StoreAssumption
  <1>4. QED BY <1>1, <1>2, <1>3, PTL DEF Spec, PruningSparesNamedAndNewest
====
