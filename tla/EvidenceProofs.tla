---- MODULE EvidenceProofs ----
(***************************************************************************)
(* Proofs about Evidence for every number of clients, every set of         *)
(* controls and every bound.  The invariants come in layers: what a        *)
(* request carries at each statement (Typed), what it may still assume of  *)
(* the version table (VersionsInv), of the files (FilesInv) and of the     *)
(* timelines (LinksInv).  Each layer is inductive given those before it.   *)
(***************************************************************************)
EXTENDS Evidence, EvidencePicker, FiniteSetTheorems, SequenceTheorems, WellFoundedInduction,
        TLAPS

(* What a request carries at the statement it has reached.                 *)
Shape(r, n) ==
    /\ r \in Requests
    /\ r.file \in 0..n
    /\ r.kind # "upload" => r.file = 0
    /\ r.pc \in {"find", "put"} => r.file = 0
    /\ r.pc = "find" => r.kind \in Kinds \ {"create"}
    /\ r.pc = "put" => r.kind = "upload"
    /\ r.pc = "check" => r.kind \in {"link", "unlink"}
    /\ r.pc \in {"number", "publish", "reread", "clean"} => r.kind = "upload" /\ r.file # 0
    /\ r.pc = "publish" => r.number # 0
    /\ r.pc \in {"keys", "clear", "erase", "remove", "sweep"} => r.kind = "delete"
    /\ r.kind = "update" /\ r.pc = "write" => r.status \in Statuses
    /\ r.kind = "create" /\ r.pc = "insert" => r.status \in {"draft", "active"}
    /\ r.pc \in {"newRecord", "note"} => r.control \in r.todo
    /\ r.kind \in {"create", "link"} /\ r.pc \notin {"idle", "done"} => r.note = "added"
    /\ r.kind = "unlink" /\ r.pc \notin {"idle", "done"} => r.note = "removed"
    /\ r.pc \in {"record", "newRecord", "note"} => r.kind \in {"create", "link", "unlink"}
    /\ r.kind \in {"link", "unlink"} /\ r.pc \in {"find", "check", "write"} =>
         r.control \in r.todo

Typed == TypeOK /\ \A c \in Clients : Shape(req[c], uploads)

(* What it may assume of the version table, whatever the others did        *)
(* meanwhile: the number it read is still next or taken, and what it       *)
(* published stays listed while the item lives.                            *)
Listed(f) == \E v \in versions : v.file = f

Ahead(r) ==
    /\ r.pc \in {"number", "publish"} => ~ Listed(r.file)
    /\ r.pc = "publish" /\ Exists => r.number \in 1 .. Cardinality(versions) + 1
    /\ (r.pc = "reread" \/ (r.kind = "upload" /\ r.pc = "done" /\ r.outcome = "ok"))
         /\ Exists => [number |-> r.number, file |-> r.file] \in versions
    /\ r.pc = "sweep" => item.status = "deleted"
    /\ item.status = "unborn" => r.kind \notin Kinds \ {"create"}

Numbered ==
    /\ IsFiniteSet(versions)
    /\ \A v, w \in versions : v.number = w.number \/ v.file = w.file => v = w
    /\ {v.number : v \in versions} = 1 .. Cardinality(versions)
    /\ \A v \in versions : v.file \in 1..uploads

VersionsInv ==
    /\ Numbered
    /\ \A c, d \in Clients : c # d => req[c].file # req[d].file \/ req[c].file = 0
    /\ ~ Exists => versions = {} /\ links = {}
    /\ item.status = "unborn" => files = {}
    /\ CurrentIsNewest
    /\ \A c \in Clients : Ahead(req[c])

(* Files: a version lost its file, or is about to, by a failure each; so   *)
(* was a file left that nobody refers to.                                  *)
Lost ==
    {v \in versions :
        \/ v.file \notin files
        \/ \E c \in Clients : req[c].pc = "clean" /\ req[c].file = v.file}

Orphans == {f \in files : ~ InUse(f)}

Held(r) ==
    /\ r.pc \in {"number", "publish"} /\ Exists => r.file \in files
    /\ r.pc = "clean" /\ failures = 0 => ~ Listed(r.file)
    /\ r.kind = "upload" /\ r.pc = "done" /\ r.outcome = "storage" /\ failures = 0 =>
         r.file \notin files /\ ~ Listed(r.file)

FilesInv ==
    /\ Cardinality(Lost) <= failures
    /\ Exists => Cardinality(Orphans) <= failures
    /\ \A c \in Clients : Held(req[c])

(* Timelines: a link that is not noted yet has a request that will note it. *)
WillNote(r, k) ==
    r.note = "added" /\ k \in r.todo /\ r.pc \in {"reget", "record", "newRecord", "note"}

LinksInv ==
    failures = 0 =>
        \A k \in links :
            "added" \in noted[k] \/ k \in beaten \/ \E c \in Clients : WillNote(req[c], k)

EvidenceInv == Typed /\ VersionsInv /\ FilesInv /\ LinksInv
----
(* Layer one: types.                                                       *)

LEMMA TypedFacts ==
    ASSUME Typed, NEW c \in Clients
    PROVE  /\ Shape(req[c], uploads) /\ req[c] \in Requests
           /\ item \in Items /\ versions \subseteq Versions
           /\ files \subseteq 1..uploads /\ uploads \in Nat /\ failures \in Nat
           /\ req \in [Clients -> Requests]
  BY DEF Typed, TypeOK

(* A step of one request, given the types of what else it changes.         *)
LEMMA TypedStep ==
    ASSUME Typed, NEW c \in Clients, NEW r, Set(c, r), Shape(r, uploads'),
           item' \in Items, versions' \subseteq Versions,
           links' \subseteq Controls, records' \subseteq Controls, beaten' \subseteq Controls,
           noted' \in [Controls -> SUBSET {"added", "removed"}],
           uploads' \in Nat, uploads' >= uploads, failures' \in Nat,
           files' \subseteq 1..uploads'
    PROVE  Typed'
  <1>1. req \in [Clients -> Requests] /\ uploads \in Nat
    BY DEF Typed, TypeOK
  <1>2. r \in Requests
    BY DEF Shape
  <1>3. ASSUME NEW d \in Clients PROVE Shape(req'[d], uploads')
    <2>1. CASE d = c
      BY <1>1, <2>1 DEF Set
    <2>2. CASE d # c
      <3>1. req'[d] = req[d] /\ Shape(req[d], uploads)
        BY <1>1, <2>2 DEF Set, Typed
      <3>2. 0..uploads \subseteq 0..uploads'
        BY <1>1
      <3>3. QED BY <3>1, <3>2 DEF Shape
    <2>3. QED BY <2>1, <2>2
  <1>4. req' \in [Clients -> Requests]
    BY <1>1, <1>2 DEF Set
  <1>5. QED BY <1>3, <1>4 DEF Typed, TypeOK

LEMMA QuietTyped ==
    ASSUME Typed, NEW c \in Clients, NEW r, Set(c, r), Shape(r, uploads),
           UNCHANGED <<Tables, files, uploads>>, failures' \in Nat
    PROVE  Typed'
  <1>1. /\ item' = item /\ versions' = versions /\ links' = links
        /\ records' = records /\ noted' = noted /\ beaten' = beaten
        /\ files' = files /\ uploads' = uploads
    BY DEF Tables
  <1>2. /\ item \in Items /\ versions \subseteq Versions
        /\ links \subseteq Controls /\ records \subseteq Controls /\ beaten \subseteq Controls
        /\ noted \in [Controls -> SUBSET {"added", "removed"}]
        /\ uploads \in Nat /\ files \subseteq 1..uploads
    BY DEF Typed, TypeOK
  <1>3. uploads' >= uploads
    BY <1>1, <1>2
  <1>4. Shape(r, uploads')
    BY <1>1
  <1>5. QED BY <1>1, <1>2, <1>3, <1>4, TypedStep

(* The request that End leaves.                                            *)
Ended(c, outcome) ==
    [Idle EXCEPT !.pc = "done", !.kind = req[c].kind, !.file = req[c].file,
                 !.number = req[c].number, !.outcome = outcome]

LEMMA EndedFacts ==
    ASSUME Typed, EvidenceAssumption, NEW c \in Clients, NEW o \in Outcomes
    PROVE  LET q == Ended(c, o) IN
           /\ Shape(q, uploads)
           /\ q.pc = "done" /\ q.outcome = o /\ q.todo = {} /\ q.note = None
           /\ q.kind = req[c].kind /\ q.file = req[c].file /\ q.number = req[c].number
           /\ End(c, o) => Set(c, q)
  <1>1. Shape(req[c], uploads)
    BY TypedFacts
  <1>2. /\ Ended(c, o).pc = "done" /\ Ended(c, o).outcome = o
        /\ Ended(c, o).todo = {} /\ Ended(c, o).note = None
        /\ Ended(c, o).kind = req[c].kind /\ Ended(c, o).file = req[c].file
        /\ Ended(c, o).number = req[c].number
    BY DEF Ended, Idle
  <1>3. Ended(c, o) \in Requests
    BY <1>1 DEF Ended, Idle, Requests, Steps, Shape
  <1>4. Shape(Ended(c, o), uploads)
    BY <1>1, <1>2, <1>3 DEF Shape
  <1>5. End(c, o) => Set(c, Ended(c, o))
    BY DEF End, Ended
  <1>6. QED BY <1>2, <1>4, <1>5

LEMMA IdleShape ==
    ASSUME EvidenceAssumption, NEW n \in Nat
    PROVE  Shape(Idle, n)
  <1>1. Idle \in Requests
    BY DEF Idle, Requests, Steps
  <1>2. QED BY <1>1, EvidenceAssumption DEF Idle, Shape, Kinds

----
(* Steps of a request that change no table and no file.  What the layers   *)
(* need to know of them is said once.                                      *)
Quietly(c, r) ==
    /\ Set(c, r) /\ Shape(r, uploads)
    /\ UNCHANGED <<Tables, files, uploads, failures>>
    /\ r.file = req[c].file \/ (req[c].pc \in {"idle", "done"} /\ r.file = 0)
    /\ item.status = "unborn" =>
         r.kind \notin Kinds \ {"create"} \/ r.kind = req[c].kind
    /\ r.pc \notin {"number", "reread", "sweep"}
    /\ r.pc = "publish" => req[c].pc = "number" /\ r.number = NextNumber
    /\ r.pc = "clean" => req[c].pc \in {"number", "publish"}
    /\ r.pc = "done" /\ r.kind = "upload" =>
         \/ r.outcome = "not-found"
         \/ r.outcome = "ok" /\ req[c].pc = "reread" /\ r.number = req[c].number
    /\ r.pc \in {"idle", "done"} /\ req[c].pc \notin {"idle", "done"} /\ r.file # 0 /\ Exists =>
         req[c].pc = "reread"
    /\ req[c].pc \in {"erase", "remove"} /\ Exists => r.pc = "remove"
    /\ Exists => \A k \in Controls : WillNote(req[c], k) => WillNote(r, k)

LEMMA StartQuietly ==
    ASSUME Typed, EvidenceAssumption, NEW c \in Clients, NEW r, Start(c, r),
           Shape(r, uploads), r.file = 0, r.pc \in {"find", "insert"},
           r.kind # "create" => item.status # "unborn"
    PROVE  Quietly(c, r)
  <1>1. /\ req[c].pc = "idle" /\ Set(c, r)
        /\ UNCHANGED <<Tables, files, uploads, failures>>
    BY DEF Start
  <1>2. QED BY <1>1 DEF Quietly, WillNote

LEMMA StartsQuietly ==
    ASSUME Typed, EvidenceAssumption, NEW c \in Clients,
           \/ create(c) \/ uploadVersion(c) \/ update(c) \/ deleteDraft(c)
           \/ associate(c) \/ dissociate(c)
    PROVE  \E r : Quietly(c, r)
  <1> USE DEF Idle
  <1>1. Shape(Idle, uploads) /\ Idle \in Requests
    BY IdleShape, TypedFacts DEF Shape
  <1>2. CASE create(c)
    <2>1. PICK status \in {"draft", "active"}, ks \in SUBSET Controls :
            Start(c, [Idle EXCEPT !.pc = "insert", !.kind = "create", !.todo = ks,
                                  !.status = status, !.note = "added"])
      BY <1>2 DEF create
    <2> DEFINE r == [Idle EXCEPT !.pc = "insert", !.kind = "create", !.todo = ks,
                                 !.status = status, !.note = "added"]
    <2>2. r.pc = "insert" /\ r.kind = "create" /\ r.file = 0
      OBVIOUS
    <2>3. r \in Requests
      BY <1>1 DEF Requests, Steps, Kinds, Statuses
    <2>4. Shape(r, uploads)
      BY <1>1, <2>3, EvidenceAssumption DEF Shape
    <2>5. Start(c, r)
      BY <2>1
    <2> HIDE DEF r
    <2>6. QED BY <2>2, <2>4, <2>5, StartQuietly
  <1>3. ASSUME NEW kind \in {"upload", "delete"}, Call(c, kind), item.status # "unborn"
        PROVE  \E r : Quietly(c, r)
    <2> DEFINE r == [Idle EXCEPT !.pc = "find", !.kind = kind]
    <2>1. r.pc = "find" /\ r.kind = kind /\ r.file = 0 /\ Start(c, r)
      BY <1>3 DEF Call
    <2>2. r \in Requests
      BY <1>1 DEF Requests, Steps, Kinds
    <2> HIDE DEF r
    <2>3. Shape(r, uploads)
      BY <1>1, <2>1, <2>2 DEF Shape, Kinds
    <2>4. QED BY <1>3, <2>1, <2>3, StartQuietly
  <1>4. CASE update(c)
    <2>1. PICK status \in Statuses \cup {None} :
            Start(c, [Idle EXCEPT !.pc = "find", !.kind = "update", !.status = status])
      BY <1>4 DEF update
    <2> DEFINE r == [Idle EXCEPT !.pc = "find", !.kind = "update", !.status = status]
    <2>2. r.pc = "find" /\ r.kind = "update" /\ r.file = 0 /\ Start(c, r)
      BY <2>1
    <2>3. r \in Requests
      BY <1>1 DEF Requests, Steps, Kinds
    <2> HIDE DEF r
    <2>4. Shape(r, uploads)
      BY <1>1, <2>2, <2>3 DEF Shape, Kinds
    <2>5. QED BY <1>4, <2>2, <2>4, StartQuietly DEF update
  <1>5. ASSUME NEW k \in Controls, NEW kind \in {"link", "unlink"},
               NEW note \in {"added", "removed"}, kind = "link" => note = "added",
               kind = "unlink" => note = "removed",
               item.status # "unborn",
               Start(c, [Idle EXCEPT !.pc = "find", !.kind = kind, !.control = k,
                                     !.todo = {k}, !.note = note])
        PROVE  \E r : Quietly(c, r)
    <2> DEFINE r == [Idle EXCEPT !.pc = "find", !.kind = kind, !.control = k,
                                 !.todo = {k}, !.note = note]
    <2>1. r.pc = "find" /\ r.kind = kind /\ r.file = 0 /\ Start(c, r)
          /\ r.control = k /\ r.note = note /\ r.todo = {k}
      BY <1>5
    <2>2. r \in Requests
      BY <1>1 DEF Requests, Steps, Kinds
    <2>3. note \in {"added", "removed"} /\ k \in Controls
      BY <1>5
    <2> HIDE DEF r
    <2>4. Shape(r, uploads)
      BY <1>1, <1>5, <2>1, <2>2, <2>3 DEF Shape, Kinds
    <2>5. QED BY <1>5, <2>1, <2>4, StartQuietly
  <1>6. QED BY <1>2, <1>3, <1>4, <1>5 DEF uploadVersion, deleteDraft, associate, dissociate

LEMMA EndQuietly ==
    ASSUME Typed, EvidenceAssumption, NEW c \in Clients, NEW o \in Outcomes, End(c, o),
           UNCHANGED <<Tables, files, uploads, failures>>,
           req[c].kind = "upload" =>
             o = "not-found" \/ (o = "ok" /\ req[c].pc = "reread"),
           Exists /\ req[c].file # 0 => req[c].pc = "reread",
           Exists => req[c].pc \notin {"erase", "remove", "reget", "record", "newRecord", "note"}
    PROVE  \E r : Quietly(c, r)
  <1> DEFINE r == Ended(c, o)
  <1>1. /\ Shape(r, uploads) /\ Set(c, r)
        /\ r.pc = "done" /\ r.outcome = o
        /\ r.kind = req[c].kind /\ r.file = req[c].file /\ r.number = req[c].number
    BY EndedFacts
  <1> HIDE DEF r
  <1>2. Quietly(c, r)
    BY <1>1 DEF Quietly, WillNote
  <1>3. QED BY <1>2

(* A step to another statement of the same operation.                      *)
LEMMA GoQuietly ==
    ASSUME Typed, NEW c \in Clients, NEW r, Set(c, r), Shape(r, uploads),
           UNCHANGED <<Tables, files, uploads, failures>>,
           \A f \in {"kind", "file", "note", "todo"} : r[f] = req[c][f],
           r.pc \in {"put", "write", "keys", "check", "publish", "clean", "clear", "remove",
                    "reget", "record", "note", "newRecord"},
           r.pc = "publish" => req[c].pc = "number" /\ r.number = NextNumber,
           r.pc = "clean" => req[c].pc \in {"number", "publish"},
           req[c].pc \in {"erase", "remove"} => r.pc = "remove",
           req[c].pc \in {"reget", "record", "newRecord", "note"} =>
             r.pc \in {"record", "newRecord", "note"}
    PROVE  \E x : Quietly(c, x)
  <1>1. Quietly(c, r)
    BY DEF Quietly, WillNote
  <1>2. QED BY <1>1

(* A step that changes nothing of a request but its statement.             *)
LEMMA GoToShape ==
    ASSUME Typed, NEW c \in Clients, NEW pc \in Steps, GoTo(c, pc)
    PROVE  \E q \in Requests :
             /\ Set(c, q) /\ q.pc = pc
             /\ \A f \in {"kind", "file", "number", "keys", "status", "control", "todo",
                          "note", "outcome"} : q[f] = req[c][f]
  <1> DEFINE q == [req[c] EXCEPT !.pc = pc]
  <1>1. req[c] \in Requests
    BY TypedFacts
  <1>2. q \in Requests /\ Set(c, q) /\ q.pc = pc
    BY <1>1 DEF Requests, GoTo
  <1>3. \A f \in {"kind", "file", "number", "keys", "status", "control", "todo",
                  "note", "outcome"} : q[f] = req[c][f]
    BY <1>1 DEF Requests
  <1> HIDE DEF q
  <1>4. QED BY <1>2, <1>3

LEMMA FindQuietly ==
    ASSUME Typed, EvidenceAssumption, NEW c \in Clients, getById(c)
    PROVE  \E r : Quietly(c, r)
  <1> DEFINE r == req[c]
  <1>1. /\ Shape(r, uploads) /\ r \in Requests /\ r.pc = "find" /\ r.file = 0
        /\ UNCHANGED <<Tables, files, uploads, failures>> /\ item \in Items
    BY TypedFacts DEF getById, Shape
  <1>2. ASSUME NEW o \in Outcomes, End(c, o), r.kind = "upload" => o = "not-found"
        PROVE  \E x : Quietly(c, x)
    BY <1>1, <1>2, EndQuietly
  <1>3. ASSUME NEW pc \in {"put", "keys", "check"}, GoTo(c, pc),
               pc = "put" => r.kind = "upload", pc = "keys" => r.kind = "delete",
               pc = "check" => r.kind \in {"link", "unlink"}
        PROVE  \E x : Quietly(c, x)
    <2> DEFINE q == [r EXCEPT !.pc = pc]
    <2>1. /\ q.pc = pc
          /\ \A f \in {"kind", "file", "number", "control", "note", "todo", "status"} :
               q[f] = r[f]
      BY <1>1 DEF Requests
    <2>2. q \in Requests /\ Set(c, q)
      BY <1>1, <1>3 DEF Requests, Steps, GoTo
    <2> HIDE DEF q
    <2>3. Shape(q, uploads)
      BY <1>1, <1>3, <2>1, <2>2 DEF Shape
    <2>4. QED BY <1>1, <1>3, <2>1, <2>2, <2>3, GoQuietly
  <1>4. CASE ~ Exists
    <2>1. End(c, "not-found")
      BY <1>4 DEF getById
    <2>2. QED BY <1>2, <2>1 DEF Outcomes
  <1>5. CASE Exists /\ r.kind = "update"
    <2> DEFINE q == [r EXCEPT !.pc = "write", !.status = IF @ = None THEN item.status ELSE @]
    <2>1. Set(c, q)
      BY <1>5 DEF getById, Found
    <2>2. /\ q.pc = "write" /\ q.status \in Statuses
          /\ \A f \in {"kind", "file", "number", "control", "note", "todo"} : q[f] = r[f]
      BY <1>1, <1>5 DEF Requests, Exists
    <2>3. q \in Requests
      BY <1>1, <2>2 DEF Requests, Steps
    <2> HIDE DEF q
    <2>4. Shape(q, uploads)
      BY <1>1, <2>2, <2>3 DEF Shape
    <2>5. QED BY <1>1, <2>1, <2>2, <2>4, GoQuietly
  <1>6. CASE Exists /\ r.kind # "update"
    <2>1. \/ \E o \in Outcomes \ {"error"} : End(c, o) /\ r.kind # "upload"
          \/ GoTo(c, "check") /\ r.kind \in {"link", "unlink"}
          \/ GoTo(c, "put") /\ r.kind = "upload"
          \/ GoTo(c, "keys") /\ r.kind = "delete"
      <3>1. r.kind \in {"upload", "delete", "link", "unlink"}
        BY <1>1, <1>6 DEF Shape, Kinds
      <3>2. CASE r.kind = "upload"
        BY <1>6, <3>2 DEF getById, Found
      <3>3. CASE r.kind = "delete"
        BY <1>6, <3>3 DEF getById, Found, Outcomes
      <3>4. CASE r.kind \in {"link", "unlink"}
        BY <1>6, <3>4 DEF getById, Found, Outcomes
      <3>5. QED BY <3>1, <3>2, <3>3, <3>4
    <2>2. QED BY <1>2, <1>3, <2>1
  <1>7. QED BY <1>4, <1>5, <1>6

LEMMA MaxOfInterval ==
    ASSUME NEW n \in Nat \ {0}
    PROVE  \A S : S = 1..n => Max(S) = n
  <1>1. SUFFICES ASSUME NEW S, S = 1..n PROVE Max(S) = n
    OBVIOUS
  <1>2. n \in S /\ \A x \in S : n >= x
    BY <1>1
  <1>3. Max(S) \in S /\ \A y \in S : Max(S) >= y
    BY <1>2 DEF Max
  <1>4. Max(S) \in Nat
    BY <1>1, <1>3
  <1>5. QED BY <1>2, <1>3, <1>4

LEMMA HighestIsCount ==
    ASSUME Numbered
    PROVE  /\ Highest = Cardinality(versions) /\ Highest \in Nat
           /\ NextNumber = Highest + 1
  <1>1. /\ Cardinality(versions) \in Nat
        /\ (Cardinality(versions) = 0 <=> versions = {})
        /\ {v.number : v \in versions} = 1 .. Cardinality(versions)
    BY FS_CardinalityType, FS_EmptySet DEF Numbered
  <1>2. CASE versions = {}
    BY <1>1, <1>2 DEF Highest, NextNumber
  <1>3. CASE versions # {}
    <2> DEFINE S == {v.number : v \in versions}
    <2>1. Highest = Max(S)
      BY <1>3 DEF Highest
    <2> HIDE DEF S
    <2>2. Max(S) = Cardinality(versions)
      BY <1>1, <1>3, MaxOfInterval DEF S
    <2>3. QED BY <1>1, <2>1, <2>2 DEF NextNumber
  <1>4. QED BY <1>2, <1>3

LEMMA ToCleanQuietly ==
    ASSUME Typed, NEW c \in Clients, GoTo(c, "clean"),
           req[c].pc \in {"number", "publish"},
           UNCHANGED <<Tables, files, uploads, failures>>
    PROVE  \E r : Quietly(c, r)
  <1>1. Shape(req[c], uploads) /\ "clean" \in Steps
    BY TypedFacts DEF Steps
  <1>2. PICK q \in Requests :
          /\ Set(c, q) /\ q.pc = "clean"
          /\ \A f \in {"kind", "file", "number", "keys", "status", "control", "todo",
                       "note", "outcome"} : q[f] = req[c][f]
    BY <1>1, GoToShape
  <1>3. Shape(q, uploads)
    BY <1>1, <1>2 DEF Shape
  <1>4. QED BY <1>1, <1>2, <1>3, GoQuietly

LEMMA NumberQuietly ==
    ASSUME Typed, Numbered, NEW c \in Clients, readNumber(c)
    PROVE  \E r : Quietly(c, r)
  <1> DEFINE r == req[c]
  <1>1. /\ Shape(r, uploads) /\ r \in Requests /\ r.pc = "number"
        /\ UNCHANGED <<Tables, files, uploads, failures>>
        /\ NextNumber \in Nat /\ NextNumber # 0
    BY TypedFacts, HighestIsCount DEF readNumber, At
  <1>2. CASE Exists
    <2> DEFINE q == [r EXCEPT !.pc = "publish", !.number = NextNumber]
    <2>1. /\ q.pc = "publish" /\ q.number = NextNumber
          /\ \A f \in {"kind", "file", "control", "note", "todo", "status"} : q[f] = r[f]
      BY <1>1 DEF Requests
    <2>2. q \in Requests /\ Set(c, q)
      BY <1>1, <1>2 DEF Requests, Steps, readNumber
    <2> HIDE DEF q
    <2>3. Shape(q, uploads)
      BY <1>1, <2>1, <2>2 DEF Shape
    <2>4. QED BY <1>1, <2>1, <2>2, <2>3, GoQuietly
  <1>3. CASE ~ Exists
    BY <1>1, <1>3, ToCleanQuietly DEF readNumber
  <1>4. QED BY <1>2, <1>3

LEMMA RefusedQuietly ==
    ASSUME Typed, NEW c \in Clients, publish(c), InsertFails(req[c])
    PROVE  \E r : Quietly(c, r)
  <1>1. GoTo(c, "clean") /\ UNCHANGED <<Tables, files, uploads, failures>>
        /\ req[c].pc = "publish"
    BY DEF publish, At, AfterRefusal, Tables
  <1>2. QED BY <1>1, ToCleanQuietly

LEMMA RereadQuietly ==
    ASSUME Typed, EvidenceAssumption, NEW c \in Clients, reread(c)
    PROVE  \E r : Quietly(c, r)
  <1>1. /\ req[c].pc = "reread" /\ UNCHANGED <<Tables, files, uploads, failures>>
        /\ End(c, "ok") \/ End(c, "not-found")
    BY DEF reread, At
  <1>2. QED BY <1>1, EndQuietly DEF Outcomes

LEMMA KeysQuietly ==
    ASSUME Typed, NEW c \in Clients, listStorageKeys(c)
    PROVE  \E r : Quietly(c, r)
  <1> DEFINE r == req[c]
             ks == {v.file : v \in versions}
             q == [r EXCEPT !.pc = "clear", !.keys = ks]
  <1>1. /\ Shape(r, uploads) /\ r \in Requests /\ r.pc = "keys" /\ r.kind = "delete"
        /\ UNCHANGED <<Tables, files, uploads, failures>>
        /\ ks \subseteq Nat /\ Set(c, q)
    BY TypedFacts DEF listStorageKeys, At, Versions
  <1> HIDE DEF ks
  <1>2. /\ q.pc = "clear"
        /\ \A f \in {"kind", "file", "number", "control", "note", "todo", "status"} :
             q[f] = r[f]
    BY <1>1 DEF Requests
  <1>3. q \in Requests
    BY <1>1 DEF Requests, Steps
  <1> HIDE DEF q
  <1>4. Shape(q, uploads)
    BY <1>1, <1>2, <1>3 DEF Shape
  <1>5. QED BY <1>1, <1>2, <1>4, GoQuietly

LEMMA EraseQuietly ==
    ASSUME Typed, EvidenceAssumption, NEW c \in Clients, eraseItem(c)
    PROVE  \E r : Quietly(c, r)
  <1>1. /\ Shape(req[c], uploads) /\ req[c].pc = "erase" /\ req[c].kind = "delete"
        /\ UNCHANGED <<Tables, files, uploads, failures>>
    BY TypedFacts DEF eraseItem, At
  <1>2. CASE Exists
    <2>1. GoTo(c, "remove") /\ "remove" \in Steps
      BY <1>2 DEF eraseItem, Steps
    <2>2. PICK q \in Requests :
            /\ Set(c, q) /\ q.pc = "remove"
            /\ \A f \in {"kind", "file", "number", "keys", "status", "control", "todo",
                         "note", "outcome"} : q[f] = req[c][f]
      BY <2>1, GoToShape
    <2>3. Shape(q, uploads)
      BY <1>1, <2>2 DEF Shape
    <2>4. QED BY <1>1, <2>2, <2>3, GoQuietly
  <1>3. CASE ~ Exists
    <2>1. End(c, "not-found")
      BY <1>3 DEF eraseItem
    <2>2. QED BY <1>1, <1>3, <2>1, EndQuietly DEF Outcomes
  <1>4. QED BY <1>2, <1>3

LEMMA CheckQuietly ==
    ASSUME Typed, EvidenceAssumption, NEW c \in Clients, checkAgain(c)
    PROVE  \E r : Quietly(c, r)
  <1>1. /\ Shape(req[c], uploads) /\ req[c].pc = "check"
        /\ req[c].kind \in {"link", "unlink"}
        /\ UNCHANGED <<Tables, files, uploads, failures>>
    BY TypedFacts DEF checkAgain, Shape
  <1>2. \/ End(c, "not-found")
        \/ \E pc \in {"write", "record", "reget"} : GoTo(c, pc)
    BY <1>1 DEF checkAgain
  <1>3. CASE End(c, "not-found")
    <2>1. req[c].file = 0 /\ req[c].kind # "upload"
      BY <1>1 DEF Shape
    <2>2. QED BY <1>1, <1>3, <2>1, EndQuietly DEF Outcomes
  <1>4. ASSUME NEW pc \in {"write", "record", "reget"}, GoTo(c, pc)
        PROVE  \E r : Quietly(c, r)
    <2>1. pc \in Steps
      BY DEF Steps
    <2>2. PICK q \in Requests :
            /\ Set(c, q) /\ q.pc = pc
            /\ \A f \in {"kind", "file", "number", "keys", "status", "control", "todo",
                         "note", "outcome"} : q[f] = req[c][f]
      BY <1>4, <2>1, GoToShape
    <2>3. Shape(q, uploads)
      BY <1>1, <2>2 DEF Shape
    <2>4. QED BY <1>1, <2>2, <2>3, GoQuietly
  <1>5. QED BY <1>2, <1>3, <1>4

LEMMA GetAgainQuietly ==
    ASSUME Typed, EvidenceAssumption, NEW c \in Clients, getAgain(c)
    PROVE  \E r : Quietly(c, r)
  <1>1. /\ Shape(req[c], uploads) /\ req[c].pc = "reget" /\ req[c].kind = "link"
        /\ UNCHANGED <<Tables, files, uploads, failures>>
    BY TypedFacts DEF getAgain, At
  <1>2. CASE Exists
    <2>1. GoTo(c, "record") /\ "record" \in Steps
      BY <1>2 DEF getAgain, Steps
    <2>2. PICK q \in Requests :
            /\ Set(c, q) /\ q.pc = "record"
            /\ \A f \in {"kind", "file", "number", "keys", "status", "control", "todo",
                         "note", "outcome"} : q[f] = req[c][f]
      BY <2>1, GoToShape
    <2>3. Shape(q, uploads)
      BY <1>1, <2>2 DEF Shape
    <2>4. QED BY <1>1, <2>2, <2>3, GoQuietly
  <1>3. CASE ~ Exists
    <2>1. End(c, "not-found")
      BY <1>3 DEF getAgain
    <2>2. QED BY <1>1, <1>3, <2>1, EndQuietly DEF Outcomes
  <1>4. QED BY <1>2, <1>3

LEMMA FindRecordQuietly ==
    ASSUME Typed, NEW c \in Clients, findRecord(c)
    PROVE  \E r : Quietly(c, r)
  <1> DEFINE r == req[c]
  <1>1. /\ Shape(r, uploads) /\ r \in Requests /\ r.pc = "record"
        /\ UNCHANGED <<Tables, files, uploads, failures>>
    BY TypedFacts DEF findRecord
  <1>2. PICK k \in r.todo :
          Set(c, [r EXCEPT !.control = k,
                           !.pc = IF k \in records THEN "note" ELSE "newRecord"])
    BY DEF findRecord
  <1> DEFINE q == [r EXCEPT !.control = k,
                            !.pc = IF k \in records THEN "note" ELSE "newRecord"]
  <1>3. /\ q.pc \in {"note", "newRecord"} /\ q.control = k /\ k \in Controls
        /\ \A f \in {"kind", "file", "number", "note", "todo", "status"} : q[f] = r[f]
    BY <1>1 DEF Requests
  <1>4. q \in Requests /\ Set(c, q)
    BY <1>1, <1>2, <1>3 DEF Requests, Steps
  <1> HIDE DEF q
  <1>5. Shape(q, uploads)
    BY <1>1, <1>3, <1>4 DEF Shape
  <1>6. QED BY <1>1, <1>3, <1>4, <1>5, GoQuietly

LEMMA RespondQuietly ==
    ASSUME Typed, EvidenceAssumption, NEW c \in Clients, respond(c)
    PROVE  \E r : Quietly(c, r)
  <1>1. /\ Shape(Idle, uploads) /\ req[c].pc = "done" /\ Set(c, Idle)
        /\ UNCHANGED <<Tables, files, uploads, failures>>
    BY IdleShape, TypedFacts DEF respond
  <1>2. Idle.pc = "idle" /\ Idle.kind = None /\ Idle.file = 0 /\ None \notin Kinds
    BY EvidenceAssumption DEF Idle
  <1>3. Quietly(c, Idle)
    BY <1>1, <1>2 DEF Quietly, WillNote
  <1>4. QED BY <1>3

(* insertLink that meets the row it would insert, or no item.              *)
LEMMA LinkRefusedQuietly ==
    ASSUME Typed, EvidenceAssumption, NEW c \in Clients, insertLink(c),
           ~ Exists \/ req[c].control \in links
    PROVE  \E r : Quietly(c, r)
  <1>1. /\ Shape(req[c], uploads) /\ req[c].pc = "write" /\ req[c].kind = "link"
        /\ UNCHANGED <<Tables, files, uploads, failures>> /\ End(c, "error")
    BY TypedFacts DEF insertLink, At, Tables
  <1>2. req[c].file = 0
    BY <1>1 DEF Shape
  <1>3. QED BY <1>1, <1>2, EndQuietly DEF Outcomes
----
(* Layer two: the version table.                                           *)

(* The other requests of a step of c.                                      *)
LEMMA Others ==
    ASSUME Typed, NEW c \in Clients, NEW r, Set(c, r)
    PROVE  /\ req'[c] = r
           /\ \A d \in Clients \ {c} : req'[d] = req[d]
  BY DEF Typed, TypeOK, Set

(* An upload's file is its own, and a new one nobody's.                    *)
DistinctFiles == \A c, d \in Clients : c # d => req[c].file # req[d].file \/ req[c].file = 0

LEMMA StillDistinct ==
    ASSUME Typed, DistinctFiles, NEW c \in Clients, NEW r, Set(c, r),
           r.file \in {0, req[c].file} \/ r.file = uploads + 1
    PROVE  DistinctFiles'
  <1>1. /\ req'[c] = r
        /\ \A d \in Clients \ {c} : req'[d] = req[d]
    BY Others
  <1>2. \A d \in Clients : req[d].file \in 0..uploads
    BY TypedFacts DEF Shape
  <1>3. uploads \in Nat
    BY TypedFacts
  <1>4. ASSUME NEW d \in Clients, NEW e \in Clients, d # e
        PROVE  req'[d].file # req'[e].file \/ req'[d].file = 0
    <2>1. CASE r.file = 0
      BY <1>1, <1>4, <2>1 DEF DistinctFiles
    <2>2. CASE r.file = req[c].file
      BY <1>1, <1>4, <2>2 DEF DistinctFiles
    <2>3. CASE r.file = uploads + 1
      <3>1. \A x \in Clients : req[x].file # uploads + 1
        BY <1>2, <1>3
      <3>2. QED BY <1>1, <1>4, <2>3, <3>1 DEF DistinctFiles
    <2>4. QED BY <2>1, <2>2, <2>3
  <1>5. QED BY <1>4 DEF DistinctFiles

LEMMA VersionsFacts ==
    ASSUME Typed, VersionsInv, NEW c \in Clients
    PROVE  /\ Numbered /\ DistinctFiles /\ Ahead(req[c]) /\ CurrentIsNewest
           /\ Shape(req[c], uploads)
           /\ ~ Exists => versions = {} /\ links = {}
           /\ item.status = "unborn" => files = {}
  BY TypedFacts DEF VersionsInv, DistinctFiles

(* A step that changes neither the rows of the version table nor whether   *)
(* there is an item, once its own request and the pointer are seen to.     *)
LEMMA AsideVersions ==
    ASSUME Typed, VersionsInv, NEW c \in Clients, NEW r, Set(c, r),
           versions' = versions, uploads' = uploads, files' \subseteq files,
           item'.status = item.status \/ (Exists /\ Exists'), ~ Exists => links' = {},
           r.file \in {0, req[c].file}, Ahead(r)', CurrentIsNewest'
    PROVE  VersionsInv'
  <1>1. /\ req'[c] = r
        /\ \A d \in Clients \ {c} : req'[d] = req[d]
    BY Others
  <1>2. Numbered' /\ DistinctFiles'
    BY VersionsFacts, StillDistinct DEF Numbered
  <1>3. Exists' <=> Exists
    BY DEF Exists
  <1>4. item'.status = "unborn" => item'.status = item.status
    BY DEF Exists, Statuses
  <1>5. item.status = "deleted" => item'.status = item.status
    BY DEF Exists, Statuses
  <1>6. (~ Exists => versions = {} /\ links = {})' /\ (item.status = "unborn" => files = {})'
    BY <1>3, <1>4, VersionsFacts
  <1>7. ASSUME NEW d \in Clients PROVE Ahead(req[d])'
    <2>1. CASE d = c
      BY <1>1, <2>1
    <2>2. CASE d # c
      <3>1. Ahead(req[d]) /\ req'[d] = req[d]
        BY <1>1, <2>2, VersionsFacts
      <3>2. QED BY <1>3, <1>4, <1>5, <3>1 DEF Ahead, Listed
    <2>3. QED BY <2>1, <2>2
  <1>8. QED BY <1>2, <1>6, <1>7 DEF VersionsInv, DistinctFiles

(* The pointer is as good as before when nobody clears it or just did.     *)
LEMMA PointerKept ==
    ASSUME Typed, VersionsInv, NEW c \in Clients, NEW r, Set(c, r),
           versions' = versions, failures' \in Nat, failures' >= failures,
           item'.current = item.current, Exists' => Exists,
           \/ req[c].pc \notin {"erase", "remove"}
           \/ r.kind = "delete" /\ r.pc = "remove"
           \/ failures' > 0
           \/ ~ Exists
    PROVE  CurrentIsNewest'
  <1>1. /\ req'[c] = r
        /\ \A d \in Clients \ {c} : req'[d] = req[d]
    BY Others
  <1>2. CurrentIsNewest /\ failures \in Nat
    BY VersionsFacts, TypedFacts
  <1>3. SUFFICES ASSUME Exists', versions' # {}
                 PROVE  \/ [number |-> Highest', file |-> item'.current] \in versions'
                        \/ /\ item'.current = 0
                           /\ \/ failures' > 0
                              \/ \E d \in Clients :
                                    At(d, "delete", "erase")' \/ At(d, "delete", "remove")'
    BY DEF CurrentIsNewest
  <1>4. Highest' = Highest
    BY DEF Highest
  <1>5. CASE [number |-> Highest, file |-> item.current] \in versions
    BY <1>4, <1>5
  <1>6. CASE item.current = 0 /\ failures > 0
    BY <1>2, <1>6
  <1>7. ASSUME NEW d \in Clients, At(d, "delete", "erase") \/ At(d, "delete", "remove"),
               item.current = 0
        PROVE  \/ failures' > 0
               \/ \E x \in Clients : At(x, "delete", "erase")' \/ At(x, "delete", "remove")'
    <2>1. CASE d # c
      BY <1>1, <1>7, <2>1 DEF At
    <2>2. CASE d = c
      BY <1>1, <1>3, <1>7, <2>2 DEF At
    <2>3. QED BY <2>1, <2>2
  <1>8. QED BY <1>2, <1>3, <1>5, <1>6, <1>7 DEF CurrentIsNewest

LEMMA QuietVersions ==
    ASSUME Typed, VersionsInv, NEW c \in Clients, NEW r, Quietly(c, r)
    PROVE  VersionsInv'
  <1>1. /\ Set(c, r) /\ Shape(r, uploads)
        /\ item' = item /\ versions' = versions /\ links' = links
        /\ files' = files /\ uploads' = uploads /\ failures' = failures
        /\ failures \in Nat
    BY TypedFacts DEF Quietly, Tables
  <1>2. Exists' <=> Exists
    BY <1>1 DEF Exists
  <1>3. /\ Ahead(req[c])
        /\ ~ Exists => links = {}
    BY VersionsFacts
  <1>4. CurrentIsNewest'
    <2>1. \/ req[c].pc \notin {"erase", "remove"}
          \/ r.kind = "delete" /\ r.pc = "remove"
          \/ ~ Exists
      BY <1>1 DEF Quietly, Shape
    <2>2. failures' \in Nat /\ failures' >= failures /\ item'.current = item.current
      BY <1>1
    <2>3. QED BY <1>1, <1>2, <2>1, <2>2, PointerKept
  <1>5. Ahead(r)'
    <2>1. r.pc # "number" /\ r.pc # "reread" /\ r.pc # "sweep"
      BY DEF Quietly
    <2>2. CASE r.pc = "publish"
      <3>1. req[c].pc = "number" /\ r.number = NextNumber /\ r.file = req[c].file
        BY <2>2 DEF Quietly
      <3>2. r.number = Cardinality(versions) + 1 /\ Cardinality(versions) \in Nat
        BY <3>1, HighestIsCount, VersionsFacts
      <3>3. ~ Listed(r.file)
        BY <1>3, <3>1 DEF Ahead
      <3>4. r.kind = "upload" /\ req[c].kind = "upload"
        BY <1>1, <2>2, <3>1, TypedFacts DEF Shape
      <3>5. r.number \in 1 .. Cardinality(versions) + 1
        BY <3>2
      <3>6. item.status # "unborn"
        BY <1>3, <3>4 DEF Ahead, Kinds
      <3>7. QED BY <1>1, <2>2, <3>3, <3>5, <3>6 DEF Ahead, Listed
    <2>3. CASE r.pc = "done" /\ r.kind = "upload" /\ r.outcome = "ok"
      <3>1. req[c].pc = "reread" /\ r.number = req[c].number /\ r.file = req[c].file
        BY <2>3 DEF Quietly
      <3>2. Exists => [number |-> r.number, file |-> r.file] \in versions
        BY <1>3, <3>1 DEF Ahead
      <3>3. item.status = "unborn" => r.kind \notin Kinds \ {"create"}
        BY <1>3 DEF Quietly, Ahead
      <3>4. QED BY <1>1, <1>2, <2>3, <3>2, <3>3 DEF Ahead
    <2>4. CASE r.pc # "publish" /\ ~ (r.pc = "done" /\ r.kind = "upload" /\ r.outcome = "ok")
      <3>1. item.status = "unborn" => r.kind \notin Kinds \ {"create"}
        BY <1>3 DEF Quietly, Ahead
      <3>2. QED BY <1>1, <2>1, <2>4, <3>1 DEF Ahead
    <2>5. QED BY <2>2, <2>3, <2>4
  <1>6. r.file \in {0, req[c].file}
    BY DEF Quietly
  <1>7. QED BY <1>1, <1>3, <1>4, <1>5, <1>6, AsideVersions
----
(* Layer three: the files.                                                 *)
LEMMA NoMore ==
    ASSUME NEW A, IsFiniteSet(A), NEW B \in SUBSET A, NEW m \in Nat, NEW n \in Nat,
           Cardinality(A) <= m, m <= n
    PROVE  Cardinality(B) <= n
  <1>1. IsFiniteSet(B) /\ Cardinality(B) <= Cardinality(A)
    BY FS_Subset
  <1>2. Cardinality(A) \in Nat /\ Cardinality(B) \in Nat
    BY <1>1, FS_CardinalityType
  <1>3. QED BY <1>1, <1>2

LEMMA OneMore ==
    ASSUME NEW A, IsFiniteSet(A), NEW x, NEW B \in SUBSET (A \cup {x}), NEW m \in Nat,
           Cardinality(A) <= m
    PROVE  Cardinality(B) <= m + 1
  <1>1. IsFiniteSet(A \cup {x})
        /\ (Cardinality(A \cup {x}) = Cardinality(A) \/ Cardinality(A \cup {x}) = Cardinality(A) + 1)
    BY FS_AddElement
  <1>2. Cardinality(A) \in Nat
    BY FS_CardinalityType
  <1>3. Cardinality(A \cup {x}) <= m + 1
    BY <1>1, <1>2
  <1>4. QED BY <1>1, <1>3, NoMore

LEMMA FilesFacts ==
    ASSUME Typed, VersionsInv
    PROVE  /\ IsFiniteSet(Lost) /\ IsFiniteSet(Orphans) /\ IsFiniteSet(versions)
           /\ IsFiniteSet(files) /\ failures \in Nat
  <1>1. IsFiniteSet(versions) /\ files \in SUBSET (1..uploads) /\ uploads \in Nat
        /\ failures \in Nat
    BY DEF Typed, TypeOK, VersionsInv, Numbered
  <1>2. IsFiniteSet(1..uploads)
    BY <1>1, FS_Interval
  <1>3. IsFiniteSet(files)
    BY <1>1, <1>2, FS_Subset
  <1>4. Lost \in SUBSET versions /\ Orphans \in SUBSET files
    BY DEF Lost, Orphans
  <1>5. QED BY <1>1, <1>3, <1>4, FS_Subset

(* A step that loses no file of a version, abandons no file and leaves     *)
(* every request with what it holds.                                       *)
LEMMA FilesStep ==
    ASSUME Typed, VersionsInv, FilesInv, failures' \in Nat, failures' >= failures,
           Lost' \subseteq Lost,
           Exists' => Exists /\ Orphans' \subseteq Orphans,
           \A d \in Clients : Held(req[d])'
    PROVE  FilesInv'
  <1>1. IsFiniteSet(Lost) /\ IsFiniteSet(Orphans) /\ failures \in Nat
    BY FilesFacts
  <1>2. Cardinality(Lost) <= failures /\ (Exists => Cardinality(Orphans) <= failures)
    BY DEF FilesInv
  <1>3. Cardinality(Lost') <= failures'
    BY <1>1, <1>2, NoMore
  <1>4. Exists' => Cardinality(Orphans') <= failures'
    BY <1>1, <1>2, NoMore
  <1>5. QED BY <1>3, <1>4 DEF FilesInv

(* A failure may lose one of each.                                         *)
LEMMA FilesFail ==
    ASSUME Typed, VersionsInv, FilesInv, failures' = failures + 1,
           NEW v, Lost' \subseteq Lost \cup {v},
           NEW f, Exists' => Exists /\ Orphans' \subseteq Orphans \cup {f},
           \A d \in Clients : req'[d].pc \in {"number", "publish"} /\ Exists' =>
             req'[d].file \in files'
    PROVE  FilesInv'
  <1>1. IsFiniteSet(Lost) /\ IsFiniteSet(Orphans) /\ failures \in Nat
    BY FilesFacts
  <1>2. Cardinality(Lost) <= failures /\ (Exists => Cardinality(Orphans) <= failures)
    BY DEF FilesInv
  <1>3. Cardinality(Lost') <= failures'
    BY <1>1, <1>2, OneMore
  <1>4. Exists' => Cardinality(Orphans') <= failures'
    BY <1>1, <1>2, OneMore
  <1>5. failures' # 0
    BY <1>1
  <1>6. QED BY <1>3, <1>4, <1>5 DEF FilesInv, Held

(* A step of a request that keeps its file, touches neither files nor      *)
(* versions, and is not an upload.                                         *)
LEMMA AsideFiles ==
    ASSUME Typed, VersionsInv, FilesInv, NEW c \in Clients, NEW r, Set(c, r),
           r.kind # "upload", r.pc \notin {"number", "publish", "clean"}, req[c].file = 0,
           versions' = versions, files' = files, failures' = failures, Exists' => Exists
    PROVE  FilesInv'
  <1>1. /\ req'[c] = r
        /\ \A d \in Clients \ {c} : req'[d] = req[d]
    BY Others
  <1>2. Lost' \subseteq Lost
    BY <1>1 DEF Lost
  <1>3. \A f \in files : f # 0
    BY TypedFacts
  <1>4. Orphans' \subseteq Orphans
    <2>1. ASSUME NEW f \in files, InUse(f) PROVE InUse(f)'
      <3>1. CASE \E v \in versions : v.file = f
        BY <3>1 DEF InUse
      <3>2. CASE \E d \in Clients : req[d].file = f /\ Busy(d)
        BY <1>1, <1>3, <3>2 DEF InUse, Busy
      <3>3. QED BY <2>1, <3>1, <3>2 DEF InUse
    <2>2. QED BY <2>1 DEF Orphans
  <1>5. ASSUME NEW d \in Clients PROVE Held(req[d])'
    <2>1. CASE d = c
      BY <1>1, <2>1 DEF Held
    <2>2. CASE d # c
      <3>1. Held(req[d]) /\ req'[d] = req[d]
        BY <1>1, <2>2 DEF FilesInv
      <3>2. QED BY <3>1 DEF Held, Listed
    <2>3. QED BY <2>1, <2>2
  <1>6. failures' \in Nat /\ failures' >= failures
    BY TypedFacts
  <1>7. QED BY <1>2, <1>4, <1>5, <1>6, FilesStep

LEMMA QuietFiles ==
    ASSUME Typed, VersionsInv, FilesInv, NEW c \in Clients, NEW r, Quietly(c, r)
    PROVE  FilesInv'
  <1>1. /\ Set(c, r) /\ Shape(r, uploads)
        /\ item' = item /\ versions' = versions
        /\ files' = files /\ failures' = failures /\ failures \in Nat
    BY TypedFacts DEF Quietly, Tables
  <1>2. /\ req'[c] = r
        /\ \A d \in Clients \ {c} : req'[d] = req[d]
    BY <1>1, Others
  <1>3. Exists' <=> Exists
    BY <1>1 DEF Exists
  <1>4. Ahead(req[c]) /\ Held(req[c])
    BY VersionsFacts DEF FilesInv
  <1>5. ASSUME NEW v \in versions, r.pc = "clean", r.file = v.file PROVE FALSE
    <2>1. req[c].pc \in {"number", "publish"} /\ r.file = req[c].file
      BY <1>5 DEF Quietly
    <2>2. QED BY <1>4, <1>5, <2>1 DEF Ahead, Listed
  <1>6. Lost' \subseteq Lost
    <2>1. ASSUME NEW v \in Lost' PROVE v \in Lost
      <3>1. v \in versions
        BY <1>1, <2>1 DEF Lost
      <3>2. CASE v.file \notin files
        BY <3>1, <3>2 DEF Lost
      <3>3. ASSUME NEW d \in Clients, req'[d].pc = "clean", req'[d].file = v.file
            PROVE  v \in Lost
        BY <1>2, <1>5, <3>1, <3>3 DEF Lost
      <3>4. QED BY <1>1, <2>1, <3>2, <3>3 DEF Lost
    <2>2. QED BY <2>1
  <1>7. ASSUME Exists PROVE Orphans' \subseteq Orphans
    <2>1. \A f \in files : f # 0
      BY TypedFacts
    <2>2. ASSUME NEW f \in files, InUse(f) PROVE InUse(f)'
      <3>1. CASE \E v \in versions : v.file = f
        BY <1>1, <3>1 DEF InUse
      <3>2. ASSUME NEW d \in Clients, req[d].file = f, Busy(d) PROVE InUse(f)'
        <4>1. CASE d # c
          BY <1>2, <3>2, <4>1 DEF InUse, Busy
        <4>2. CASE d = c /\ r.pc \notin {"idle", "done"}
          <5>1. r.file = f
            BY <3>2, <4>2 DEF Quietly, Busy
          <5>2. QED BY <1>2, <4>2, <5>1 DEF InUse, Busy
        <4>3. CASE d = c /\ r.pc \in {"idle", "done"}
          <5>1. r.file = f /\ f # 0
            BY <2>1, <3>2, <4>3 DEF Quietly, Busy
          <5>2. req[c].pc = "reread"
            BY <1>7, <3>2, <4>3, <5>1 DEF Quietly, Busy
          <5>3. [number |-> req[c].number, file |-> f] \in versions
            BY <1>4, <1>7, <3>2, <4>3, <5>2 DEF Ahead
          <5>4. [number |-> req[c].number, file |-> f].file = f
            OBVIOUS
          <5>5. \E v \in versions' : v.file = f
            BY <1>1, <5>3, <5>4
          <5>6. QED BY <5>5 DEF InUse
        <4>4. QED BY <4>1, <4>2, <4>3
      <3>3. QED BY <2>2, <3>1, <3>2 DEF InUse
    <2>3. QED BY <1>1, <2>2 DEF Orphans
  <1>8. ASSUME NEW d \in Clients PROVE Held(req[d])'
    <2>1. CASE d = c
      <3>1. r.pc \in {"number", "publish"} => r.pc = "publish" /\ req[c].pc = "number"
                                              /\ r.file = req[c].file
        BY DEF Quietly
      <3>2. r.pc \in {"number", "publish"} /\ Exists => r.file \in files
        BY <1>4, <3>1 DEF Held
      <3>3. ~ (r.kind = "upload" /\ r.pc = "done" /\ r.outcome = "storage")
        BY DEF Quietly
      <3>4. r.pc = "clean" => ~ Listed(r.file)
        BY <1>5 DEF Listed
      <3>5. QED BY <1>1, <1>2, <1>3, <2>1, <3>2, <3>3, <3>4 DEF Held, Listed
    <2>2. CASE d # c
      <3>1. Held(req[d]) /\ req'[d] = req[d]
        BY <1>2, <2>2 DEF FilesInv
      <3>2. QED BY <1>1, <1>3, <3>1 DEF Held, Listed
    <2>3. QED BY <2>1, <2>2
  <1>9. QED BY <1>1, <1>3, <1>6, <1>7, <1>8, FilesStep
----
(* Layer four: the timelines, and the layers together.                     *)
LEMMA LinksStep ==
    ASSUME Typed, LinksInv, NEW c \in Clients, NEW r, Set(c, r),
           failures' = failures, links' \subseteq links, beaten \subseteq beaten',
           \A k \in Controls : noted[k] \subseteq noted'[k],
           \A k \in links' : WillNote(req[c], k) =>
             "added" \in noted'[k] \/ k \in beaten' \/ WillNote(r, k)
    PROVE  LinksInv'
  <1>1. /\ req'[c] = r
        /\ \A d \in Clients \ {c} : req'[d] = req[d]
    BY Others
  <1>2. SUFFICES ASSUME failures = 0, NEW k \in links'
                 PROVE  \/ "added" \in noted'[k]
                        \/ k \in beaten'
                        \/ \E d \in Clients : WillNote(req'[d], k)
    BY DEF LinksInv, WillNote
  <1>3. k \in links /\ k \in Controls
    BY DEF Typed, TypeOK
  <1>4. "added" \in noted[k] \/ k \in beaten \/ \E d \in Clients : WillNote(req[d], k)
    BY <1>2, <1>3 DEF LinksInv
  <1>5. ASSUME NEW d \in Clients, WillNote(req[d], k)
        PROVE  \/ "added" \in noted'[k]
               \/ k \in beaten'
               \/ \E e \in Clients : WillNote(req'[e], k)
    <2>1. CASE d = c
      <3>1. "added" \in noted'[k] \/ k \in beaten' \/ WillNote(r, k)
        BY <1>5, <2>1
      <3>2. QED BY <1>1, <3>1
    <2>2. CASE d # c
      BY <1>1, <1>5, <2>2
    <2>3. QED BY <2>1, <2>2
  <1>6. QED BY <1>3, <1>4, <1>5

LEMMA QuietInv ==
    ASSUME EvidenceInv, NEW c \in Clients, NEW r, Quietly(c, r)
    PROVE  EvidenceInv'
  <1>1. Typed /\ VersionsInv /\ FilesInv /\ LinksInv
    BY DEF EvidenceInv
  <1>2. /\ Set(c, r) /\ Shape(r, uploads)
        /\ UNCHANGED <<Tables, files, uploads>> /\ failures' = failures /\ failures \in Nat
        /\ links' = links /\ noted' = noted /\ beaten' = beaten
    BY <1>1, TypedFacts DEF Quietly, Tables
  <1>3. Typed'
    BY <1>1, <1>2, QuietTyped
  <1>4. VersionsInv' /\ FilesInv'
    BY <1>1, QuietVersions, QuietFiles
  <1>5. links \subseteq Controls /\ (~ Exists => links = {})
    BY <1>1 DEF Typed, TypeOK, VersionsInv
  <1>6. \A k \in links : WillNote(req[c], k) => WillNote(r, k)
    BY <1>5 DEF Quietly
  <1>7. LinksInv'
    BY <1>1, <1>2, <1>6, LinksStep
  <1>8. QED BY <1>3, <1>4, <1>7 DEF EvidenceInv
----
(* A failure that changes no table and no file.                            *)
LEMMA FailureInv ==
    ASSUME EvidenceInv, NEW c \in Clients, NEW r, Set(c, r), Shape(r, uploads),
           UNCHANGED <<Tables, files, uploads>>, failures' = failures + 1,
           r.file = req[c].file, r.kind = req[c].kind, r.pc \in {"done", "clean", "sweep"},
           r.pc = "sweep" => req[c].pc = "sweep",
           r.pc = "done" /\ r.kind = "upload" => r.outcome # "ok"
    PROVE  EvidenceInv'
  <1>1. Typed /\ VersionsInv /\ FilesInv
    BY DEF EvidenceInv
  <1>2. /\ item' = item /\ versions' = versions /\ links' = links
        /\ files' = files /\ uploads' = uploads /\ failures \in Nat
    BY <1>1, TypedFacts DEF Tables
  <1>3. /\ req'[c] = r
        /\ \A d \in Clients \ {c} : req'[d] = req[d]
    BY <1>1, Others
  <1>4. (Exists' <=> Exists) /\ failures' \in Nat /\ failures' > 0 /\ failures' >= failures
    BY <1>2 DEF Exists
  <1>5. Typed'
    BY <1>1, <1>4, QuietTyped
  <1>6. VersionsInv'
    <2>1. CurrentIsNewest'
      BY <1>1, <1>2, <1>4, PointerKept
    <2>2. Ahead(r)'
      <3>1. Ahead(req[c])
        BY <1>1, VersionsFacts
      <3>2. QED BY <1>2, <3>1 DEF Ahead
    <2>3. ~ Exists => links' = {}
      BY <1>1, <1>2, VersionsFacts
    <2>4. QED BY <1>1, <1>2, <2>1, <2>2, <2>3, AsideVersions
  <1>7. FilesInv'
    <2>1. PICK v : \A w \in versions : w.file = r.file => w = v
      <3>1. CASE Listed(r.file)
        BY <1>1, <3>1 DEF VersionsInv, Numbered, Listed
      <3>2. CASE ~ Listed(r.file)
        BY <3>2 DEF Listed
      <3>3. QED BY <3>1, <3>2
    <2>2. Lost' \subseteq Lost \cup {v}
      BY <1>2, <1>3, <2>1 DEF Lost
    <2>3. Orphans' \subseteq Orphans \cup {r.file}
      <3>1. ASSUME NEW f \in files, f # r.file, InUse(f) PROVE InUse(f)'
        <4>1. CASE \E w \in versions : w.file = f
          BY <1>2, <4>1 DEF InUse
        <4>2. CASE \E d \in Clients : req[d].file = f /\ Busy(d)
          BY <1>3, <3>1, <4>2 DEF InUse, Busy
        <4>3. QED BY <3>1, <4>1, <4>2 DEF InUse
      <3>2. QED BY <1>2, <3>1 DEF Orphans
    <2>4. ASSUME NEW d \in Clients, req'[d].pc \in {"number", "publish"}, Exists'
          PROVE  req'[d].file \in files'
      BY <1>1, <1>2, <1>3, <1>4, <2>4 DEF FilesInv, Held
    <2>5. QED BY <1>1, <1>4, <2>2, <2>3, <2>4, FilesFail
  <1>8. LinksInv'
    BY <1>4 DEF LinksInv
  <1>9. QED BY <1>5, <1>6, <1>7, <1>8 DEF EvidenceInv

LEMMA CrashInv ==
    ASSUME EvidenceInv, EvidenceAssumption, NEW c \in Clients, crash(c)
    PROVE  EvidenceInv'
  <1> DEFINE r == Ended(c, "error")
  <1>1. Typed /\ End(c, "error") /\ "error" \in Outcomes
        /\ UNCHANGED <<Tables, files, uploads>> /\ failures' = failures + 1
    BY DEF EvidenceInv, crash, Fails, Outcomes
  <1>2. /\ Set(c, r) /\ Shape(r, uploads) /\ r.pc = "done" /\ r.outcome = "error"
        /\ r.kind = req[c].kind /\ r.file = req[c].file
    BY <1>1, EndedFacts
  <1> HIDE DEF r
  <1>3. QED BY <1>1, <1>2, FailureInv

(* What is left of a deletion after it has dealt with one key.             *)
LEMMA SweptFacts ==
    ASSUME Typed, EvidenceAssumption, NEW c \in Clients, At(c, "delete", "sweep"),
           NEW key \in req[c].keys, Swept(c, key)
    PROVE  \E r : /\ Set(c, r) /\ Shape(r, uploads) /\ r.kind = "delete" /\ r.file = 0
                  /\ r.pc \in {"done", "sweep"}
  <1>1. /\ req[c].kind = "delete" /\ req[c].pc = "sweep"
        /\ Shape(req[c], uploads) /\ req[c] \in Requests /\ req[c].file = 0
    BY TypedFacts DEF At, Shape
  <1>2. CASE req[c].keys = {key}
    <2> DEFINE r == Ended(c, "ok")
    <2>1. End(c, "ok") /\ "ok" \in Outcomes
      BY <1>2 DEF Swept, Outcomes
    <2>2. /\ Set(c, r) /\ Shape(r, uploads) /\ r.pc = "done" /\ r.kind = req[c].kind
          /\ r.file = req[c].file
      BY <2>1, EndedFacts
    <2> HIDE DEF r
    <2>3. QED BY <1>1, <2>2
  <1>3. CASE req[c].keys # {key}
    <2> DEFINE r == [req[c] EXCEPT !.keys = @ \ {key}]
    <2>1. Set(c, r) /\ r \in Requests
      BY <1>1, <1>3 DEF Swept, Requests
    <2>2. \A f \in {"pc", "kind", "file", "number", "status", "control", "todo", "note",
                    "outcome"} : r[f] = req[c][f]
      BY <1>1 DEF Requests
    <2> HIDE DEF r
    <2>3. Shape(r, uploads)
      BY <1>1, <2>1, <2>2 DEF Shape
    <2>4. QED BY <1>1, <2>1, <2>2, <2>3
  <1>4. QED BY <1>2, <1>3

LEMMA DeleteFailsInv ==
    ASSUME EvidenceInv, EvidenceAssumption, NEW c \in Clients, deleteFails(c)
    PROVE  EvidenceInv'
  <1>1. Typed /\ UNCHANGED <<Tables, files, uploads>> /\ failures' = failures + 1
    BY DEF EvidenceInv, deleteFails, Fails
  <1>2. CASE At(c, "upload", "clean") /\ End(c, "storage")
    <2> DEFINE r == Ended(c, "storage")
    <2>1. "storage" \in Outcomes
      BY DEF Outcomes
    <2>2. /\ Set(c, r) /\ Shape(r, uploads) /\ r.pc = "done" /\ r.outcome = "storage"
          /\ r.kind = req[c].kind /\ r.file = req[c].file
      BY <1>1, <1>2, <2>1, EndedFacts
    <2> HIDE DEF r
    <2>3. QED BY <1>1, <2>2, FailureInv
  <1>3. ASSUME At(c, "delete", "sweep"), NEW key \in req[c].keys, Swept(c, key)
        PROVE  EvidenceInv'
    <2>1. PICK r : /\ Set(c, r) /\ Shape(r, uploads) /\ r.kind = "delete" /\ r.file = 0
                   /\ r.pc \in {"done", "sweep"}
      BY <1>1, <1>3, SweptFacts
    <2>2. req[c].kind = "delete" /\ req[c].pc = "sweep" /\ req[c].file = 0
      BY <1>1, <1>3, TypedFacts DEF At, Shape
    <2>3. QED BY <1>1, <2>1, <2>2, FailureInv
  <1>4. QED BY <1>2, <1>3 DEF deleteFails

(* The database throws, and nothing was committed.                         *)
LEMMA NothingCommittedInv ==
    ASSUME EvidenceInv, NEW c \in Clients, req[c].pc \in {"number", "publish", "reread"},
           GoTo(c, "clean"), UNCHANGED <<Tables, files, uploads>>, failures' = failures + 1
    PROVE  EvidenceInv'
  <1>1. Typed /\ Shape(req[c], uploads) /\ "clean" \in Steps
    BY TypedFacts DEF EvidenceInv, Steps
  <1>2. PICK q \in Requests :
          /\ Set(c, q) /\ q.pc = "clean"
          /\ \A f \in {"kind", "file", "number", "keys", "status", "control", "todo",
                       "note", "outcome"} : q[f] = req[c][f]
    BY <1>1, GoToShape
  <1>3. Shape(q, uploads)
    BY <1>1, <1>2 DEF Shape
  <1>4. QED BY <1>2, <1>3, FailureInv
----
(* Upload.                                                                 *)
LEMMA PutTyped ==
    ASSUME Typed, NEW c \in Clients, NEW r, Set(c, r), Shape(r, uploads + 1),
           UNCHANGED Tables, uploads' = uploads + 1, failures' \in Nat,
           files' \in {files, files \cup {uploads + 1}}
    PROVE  Typed'
  <1>1. /\ item \in Items /\ versions \subseteq Versions
        /\ links \subseteq Controls /\ records \subseteq Controls /\ beaten \subseteq Controls
        /\ noted \in [Controls -> SUBSET {"added", "removed"}]
        /\ uploads \in Nat /\ files \subseteq 1..uploads
    BY DEF Typed, TypeOK
  <1>2. /\ item' = item /\ versions' = versions /\ links' = links
        /\ records' = records /\ noted' = noted /\ beaten' = beaten
    BY DEF Tables
  <1>3. uploads' \in Nat /\ uploads' >= uploads /\ files' \subseteq 1..uploads'
    BY <1>1
  <1>4. Shape(r, uploads')
    BY <1>1
  <1>5. QED BY <1>1, <1>2, <1>3, <1>4, TypedStep

(* A new file, or a number spent on one that may not be there.             *)
LEMMA PutVersions ==
    ASSUME Typed, VersionsInv, NEW c \in Clients, NEW r, Set(c, r),
           At(c, "upload", "put"), UNCHANGED Tables, uploads' = uploads + 1,
           failures' \in Nat, failures' >= failures,
           \/ r.pc = "number" /\ r.file = uploads + 1
           \/ r.pc = "done" /\ r.file = 0 /\ r.outcome # "ok"
    PROVE  VersionsInv'
  <1>1. /\ req'[c] = r
        /\ \A d \in Clients \ {c} : req'[d] = req[d]
    BY Others
  <1>2. /\ item' = item /\ versions' = versions /\ links' = links /\ uploads \in Nat
    BY TypedFacts DEF Tables
  <1>3. Exists' <=> Exists
    BY <1>2 DEF Exists
  <1>4. Ahead(req[c]) /\ Numbered /\ DistinctFiles /\ (~ Exists => versions = {} /\ links = {})
    BY VersionsFacts
  <1>5. item.status # "unborn"
    BY <1>4 DEF Ahead, At, Kinds
  <1>6. DistinctFiles'
    BY <1>4, StillDistinct
  <1>7. Numbered' /\ \A v \in versions : v.file # uploads + 1
    BY <1>2, <1>4 DEF Numbered
  <1>8. CurrentIsNewest'
    BY <1>2, <1>3, PointerKept DEF At
  <1>9. ASSUME NEW d \in Clients PROVE Ahead(req[d])'
    <2>1. CASE d = c
      BY <1>1, <1>2, <1>5, <1>7, <2>1 DEF Ahead, Listed
    <2>2. CASE d # c
      <3>1. Ahead(req[d]) /\ req'[d] = req[d]
        BY <1>1, <2>2, VersionsFacts
      <3>2. QED BY <1>2, <1>3, <3>1 DEF Ahead, Listed
    <2>3. QED BY <2>1, <2>2
  <1>10. QED BY <1>2, <1>3, <1>4, <1>5, <1>6, <1>7, <1>8, <1>9
           DEF VersionsInv, DistinctFiles

LEMMA PutInv ==
    ASSUME EvidenceInv, NEW c \in Clients, put(c)
    PROVE  EvidenceInv'
  <1> DEFINE q == [req[c] EXCEPT !.pc = "number", !.file = uploads + 1]
  <1>1. Typed /\ VersionsInv /\ FilesInv /\ LinksInv
    BY DEF EvidenceInv
  <1>2. /\ At(c, "upload", "put") /\ UNCHANGED Tables /\ uploads' = uploads + 1
        /\ files' = files \cup {uploads + 1} /\ failures' = failures
    BY DEF put
  <1>3. /\ req[c] \in Requests /\ Shape(req[c], uploads) /\ uploads \in Nat
        /\ files \subseteq 1..uploads /\ failures \in Nat
        /\ req[c].file = 0 /\ req[c].kind = "upload" /\ req[c].pc = "put"
    BY <1>1, <1>2, TypedFacts DEF At, Shape
  <1>4. /\ q.pc = "number" /\ q.file = uploads + 1 /\ q \in Requests /\ Set(c, q)
        /\ \A f \in {"kind", "number", "keys", "status", "control", "todo",
                     "note", "outcome"} : q[f] = req[c][f]
    <2>1. uploads + 1 \in Nat /\ "number" \in Steps
      BY <1>3 DEF Steps
    <2>2. q \in Requests
      BY <1>3, <2>1 DEF Requests
    <2>3. Set(c, q)
      BY <1>2 DEF put
    <2>4. QED BY <1>3, <2>2, <2>3 DEF Requests
  <1> HIDE DEF q
  <1>5. Shape(q, uploads + 1)
    BY <1>3, <1>4 DEF Shape
  <1>6. PICK r : r = q
    OBVIOUS
  <1>7. Set(c, r) /\ Shape(r, uploads + 1) /\ r.pc = "number" /\ r.file = uploads + 1
    BY <1>4, <1>5, <1>6
  <1>8. Typed' /\ VersionsInv'
    BY <1>1, <1>2, <1>3, <1>7, PutTyped, PutVersions
  <1>9. /\ req'[c] = r
        /\ \A d \in Clients \ {c} : req'[d] = req[d] /\ req[d].file \in 0..uploads
    BY <1>1, <1>7, Others, TypedFacts DEF Shape
  <1>10. /\ versions' = versions /\ item' = item /\ links' = links
         /\ noted' = noted /\ beaten' = beaten
    BY <1>2 DEF Tables
  <1>11. FilesInv'
    <2>1. Lost' \subseteq Lost
      BY <1>2, <1>7, <1>9, <1>10 DEF Lost
    <2>2. Orphans' \subseteq Orphans
      <3>1. ASSUME NEW f, f = uploads + 1 PROVE InUse(f)'
        BY <1>7, <1>9, <3>1 DEF InUse, Busy
      <3>2. ASSUME NEW f \in files, InUse(f) PROVE InUse(f)'
        <4>1. f # 0
          BY <1>3
        <4>2. CASE \E w \in versions : w.file = f
          BY <1>10, <4>2 DEF InUse
        <4>3. CASE \E d \in Clients : req[d].file = f /\ Busy(d)
          BY <1>3, <1>9, <4>1, <4>3 DEF InUse, Busy
        <4>4. QED BY <3>2, <4>2, <4>3 DEF InUse
      <3>3. QED BY <1>2, <3>1, <3>2 DEF Orphans
    <2>3. ASSUME NEW d \in Clients PROVE Held(req[d])'
      <3>1. CASE d = c
        BY <1>2, <1>7, <1>9, <3>1 DEF Held
      <3>2. CASE d # c
        <4>1. Held(req[d]) /\ req'[d] = req[d] /\ req[d].file # uploads + 1
          BY <1>1, <1>3, <1>9, <3>2 DEF FilesInv
        <4>2. QED BY <1>2, <1>10, <4>1 DEF Held, Listed, Exists
      <3>3. QED BY <3>1, <3>2
    <2>4. failures' \in Nat /\ failures' >= failures /\ (Exists' => Exists)
      BY <1>2, <1>3, <1>10 DEF Exists
    <2>5. QED BY <1>1, <2>1, <2>2, <2>3, <2>4, FilesStep
  <1>12. LinksInv'
    <2>1. \A k \in Controls : ~ WillNote(req[c], k)
      BY <1>3 DEF WillNote
    <2>2. links \subseteq Controls
      BY <1>1 DEF Typed, TypeOK
    <2>3. QED BY <1>1, <1>2, <1>7, <1>10, <2>1, <2>2, LinksStep
  <1>13. QED BY <1>8, <1>11, <1>12 DEF EvidenceInv

LEMMA PutFailsInv ==
    ASSUME EvidenceInv, EvidenceAssumption, NEW c \in Clients, putFails(c)
    PROVE  EvidenceInv'
  <1>1. Typed /\ VersionsInv /\ FilesInv
    BY DEF EvidenceInv
  <1>2. /\ At(c, "upload", "put") /\ UNCHANGED Tables /\ uploads' = uploads + 1
        /\ files' \in {files, files \cup {uploads + 1}} /\ failures' = failures + 1
        /\ End(c, "storage") /\ "storage" \in Outcomes
    BY DEF putFails, Fails, Outcomes
  <1>3. /\ uploads \in Nat /\ files \subseteq 1..uploads /\ failures \in Nat
        /\ req[c].file = 0 /\ req[c].pc = "put"
    BY <1>1, <1>2, TypedFacts DEF At, Shape
  <1>4. PICK r : r = Ended(c, "storage")
    OBVIOUS
  <1>5. /\ Set(c, r) /\ Shape(r, uploads) /\ r.pc = "done" /\ r.outcome = "storage"
        /\ r.file = 0
    BY <1>1, <1>2, <1>3, <1>4, EndedFacts
  <1>6. Shape(r, uploads + 1)
    BY <1>3, <1>5 DEF Shape
  <1>7. failures' \in Nat /\ failures' >= failures /\ failures' > 0
    BY <1>2, <1>3
  <1>8. Typed' /\ VersionsInv'
    BY <1>1, <1>2, <1>5, <1>6, <1>7, PutTyped, PutVersions
  <1>9. /\ req'[c] = r
        /\ \A d \in Clients \ {c} : req'[d] = req[d]
    BY <1>1, <1>5, Others
  <1>10. versions' = versions /\ item' = item
    BY <1>2 DEF Tables
  <1>11. FilesInv'
    <2>1. \A v : Lost' \subseteq Lost \cup {v}
      BY <1>2, <1>5, <1>9, <1>10 DEF Lost
    <2>2. Orphans' \subseteq Orphans \cup {uploads + 1}
      <3>1. ASSUME NEW f \in files, InUse(f) PROVE InUse(f)'
        <4>1. f # 0
          BY <1>3
        <4>2. CASE \E w \in versions : w.file = f
          BY <1>10, <4>2 DEF InUse
        <4>3. CASE \E d \in Clients : req[d].file = f /\ Busy(d)
          BY <1>3, <1>9, <4>1, <4>3 DEF InUse, Busy
        <4>4. QED BY <3>1, <4>2, <4>3 DEF InUse
      <3>2. QED BY <1>2, <3>1 DEF Orphans
    <2>3. Exists' => Exists
      BY <1>10 DEF Exists
    <2>4. ASSUME NEW d \in Clients, req'[d].pc \in {"number", "publish"}, Exists'
          PROVE  req'[d].file \in files'
      BY <1>1, <1>2, <1>5, <1>9, <2>3, <2>4 DEF FilesInv, Held
    <2>5. QED BY <1>1, <1>2, <2>1, <2>2, <2>3, <2>4, FilesFail
  <1>12. LinksInv'
    BY <1>7 DEF LinksInv
  <1>13. QED BY <1>8, <1>11, <1>12 DEF EvidenceInv

(* The INSERT of a version that is accepted, whether or not the service    *)
(* learns of it.                                                           *)
LEMMA PublishedTyped ==
    ASSUME Typed, NEW c \in Clients, NEW r, Set(c, r), Shape(r, uploads),
           At(c, "upload", "publish"), Published(req[c]),
           UNCHANGED <<links, records, noted, files, uploads, beaten>>, failures' \in Nat
    PROVE  Typed'
  <1>1. /\ item \in Items /\ versions \subseteq Versions
        /\ links \subseteq Controls /\ records \subseteq Controls /\ beaten \subseteq Controls
        /\ noted \in [Controls -> SUBSET {"added", "removed"}]
        /\ uploads \in Nat /\ files \subseteq 1..uploads
    BY DEF Typed, TypeOK
  <1>2. req[c] \in Requests /\ req[c].file # 0 /\ req[c].number # 0
    BY TypedFacts DEF Shape, At
  <1>3. item' \in Items /\ versions' \subseteq Versions
    BY <1>1, <1>2 DEF Published, Items, Versions, Requests
  <1>4. uploads' >= uploads /\ Shape(r, uploads')
    BY <1>1
  <1>5. QED BY <1>1, <1>3, <1>4, TypedStep

LEMMA PublishedNumbers ==
    ASSUME Typed, VersionsInv, NEW c \in Clients, At(c, "upload", "publish"),
           ~ InsertFails(req[c]), Published(req[c]), uploads' = uploads
    PROVE  /\ Numbered' /\ Exists /\ Exists'
           /\ req[c].number = Cardinality(versions) + 1
           /\ Cardinality(versions') = Cardinality(versions) + 1
           /\ Cardinality(versions) \in Nat
           /\ Highest' = Cardinality(versions')
  <1> DEFINE N == Cardinality(versions)
             new == [number |-> req[c].number, file |-> req[c].file]
  <1>1. /\ Numbered /\ Ahead(req[c]) /\ Shape(req[c], uploads) /\ item \in Items
        /\ uploads \in Nat
    BY VersionsFacts, TypedFacts
  <1>2. /\ Exists /\ (\A v \in versions : v.number # req[c].number)
        /\ ~ Listed(req[c].file) /\ req[c].number \in 1 .. N + 1
    BY <1>1 DEF InsertFails, Ahead, At
  <1>3. N \in Nat /\ {v.number : v \in versions} = 1..N /\ IsFiniteSet(versions)
    BY <1>1, FS_CardinalityType DEF Numbered
  <1>4. req[c].number = N + 1
    BY <1>2, <1>3
  <1>5. versions' = versions \cup {new} /\ new \notin versions
    BY <1>2 DEF Published
  <1>6. IsFiniteSet(versions') /\ Cardinality(versions') = N + 1
    BY <1>3, <1>5, FS_AddElement
  <1>7. {v.number : v \in versions'} = {v.number : v \in versions} \cup {N + 1}
    BY <1>4, <1>5
  <1>8. {v.number : v \in versions'} = 1 .. Cardinality(versions')
    <2>1. (1..N) \cup {N + 1} = 1 .. N + 1
      BY <1>3
    <2> HIDE DEF N
    <2>2. QED BY <1>3, <1>6, <1>7, <2>1
  <1>9. req[c].file \in 1..uploads
    BY <1>1 DEF Shape, At
  <1>10. Numbered'
    <2>1. ASSUME NEW v \in versions', NEW w \in versions',
                 v.number = w.number \/ v.file = w.file
          PROVE  v = w
      BY <1>1, <1>2, <1>5, <2>1 DEF Numbered, Listed
    <2>2. \A v \in versions' : v.file \in 1..uploads'
      BY <1>1, <1>5, <1>9 DEF Numbered
    <2>3. QED BY <1>6, <1>8, <2>1, <2>2 DEF Numbered
  <1>11. Exists'
    BY <1>1, <1>2 DEF Published, Exists, Items
  <1>12. Highest' = Cardinality(versions')
    <2> DEFINE S == {v.number : v \in versions'}
    <2>1. Highest' = Max(S)
      BY <1>5 DEF Highest
    <2>2. S = 1 .. Cardinality(versions')
      BY <1>8
    <2>3. Cardinality(versions') \in Nat \ {0}
      BY <1>3, <1>6
    <2> HIDE DEF S
    <2>4. QED BY <2>1, <2>2, <2>3, MaxOfInterval
  <1>13. QED BY <1>2, <1>3, <1>4, <1>6, <1>10, <1>11, <1>12

LEMMA PublishedVersions ==
    ASSUME Typed, VersionsInv, Typed', NEW c \in Clients, NEW r, Set(c, r),
           At(c, "upload", "publish"), ~ InsertFails(req[c]), Published(req[c]),
           UNCHANGED <<links, files, uploads>>,
           r.file = req[c].file, r.number = req[c].number, r.kind = req[c].kind,
           r.pc \in {"reread", "clean"}
    PROVE  VersionsInv'
  <1> DEFINE new == [number |-> req[c].number, file |-> req[c].file]
  <1>1. /\ req'[c] = r
        /\ \A d \in Clients \ {c} : req'[d] = req[d]
    BY Others
  <1>2. /\ Numbered' /\ Exists /\ Exists'
        /\ req[c].number = Cardinality(versions) + 1
        /\ Cardinality(versions') = Cardinality(versions) + 1
        /\ Cardinality(versions) \in Nat
        /\ Highest' = Cardinality(versions')
    BY PublishedNumbers
  <1>3. /\ DistinctFiles /\ Shape(req[c], uploads) /\ item \in Items
    BY VersionsFacts, TypedFacts
  <1>4. versions' = versions \cup {new} /\ item'.current = req[c].file
    BY <1>3 DEF Published, Items
  <1>5. item'.status # "unborn" /\ item'.status # "deleted"
    BY <1>2 DEF Exists, Statuses
  <1>6. DistinctFiles'
    BY <1>3, StillDistinct
  <1>7. CurrentIsNewest'
    <2>1. [number |-> Highest', file |-> item'.current] \in versions'
      BY <1>2, <1>4
    <2>2. QED BY <2>1 DEF CurrentIsNewest
  <1>8. req[c].file # 0
    BY <1>3 DEF Shape, At
  <1>9. ASSUME NEW d \in Clients PROVE Ahead(req[d])'
    <2>1. CASE d = c
      BY <1>1, <1>4, <1>5, <2>1 DEF Ahead
    <2>2. CASE d # c
      <3>1. /\ Ahead(req[d]) /\ req'[d] = req[d] /\ Shape(req[d], uploads)
            /\ req[d].file # req[c].file
        BY <1>1, <1>3, <1>8, <2>2, VersionsFacts DEF DistinctFiles
      <3>2. req[d].pc \in {"number", "publish"} => ~ Listed(req[d].file)'
        BY <1>4, <3>1 DEF Ahead, Listed
      <3>3. req[d].pc = "publish" => req[d].number \in 1 .. Cardinality(versions') + 1
        BY <1>2, <3>1 DEF Ahead
      <3>4. req[d].pc # "sweep"
        BY <1>2, <3>1 DEF Ahead, Exists, Statuses
      <3>5. QED BY <1>2, <1>4, <1>5, <3>1, <3>2, <3>3, <3>4 DEF Ahead, Listed
    <2>3. QED BY <2>1, <2>2
  <1>10. QED BY <1>2, <1>5, <1>6, <1>7, <1>9 DEF VersionsInv, DistinctFiles

(* What c alone is about to put in the table is in nobody's use but its own. *)
LEMMA PublishedUses ==
    ASSUME Typed, VersionsInv, FilesInv, NEW c \in Clients, NEW r, Set(c, r),
           At(c, "upload", "publish"), Published(req[c]), files' = files,
           r.file = req[c].file, r.pc \notin {"idle", "done"}
    PROVE  /\ Orphans' \subseteq Orphans
           /\ Lost' \subseteq Lost \cup {[number |-> req[c].number, file |-> req[c].file]}
           /\ \A d \in Clients \ {c} :
                /\ req'[d] = req[d]
                /\ req[d].file # req[c].file
                /\ Listed(req[d].file)' => Listed(req[d].file)
  <1>1. /\ req'[c] = r
        /\ \A d \in Clients \ {c} : req'[d] = req[d]
    BY Others
  <1>2. DistinctFiles /\ Shape(req[c], uploads)
    BY VersionsFacts
  <1>3. versions' = versions \cup {[number |-> req[c].number, file |-> req[c].file]}
    BY DEF Published
  <1>4. \A d \in Clients \ {c} : req[d].file # req[c].file
    BY <1>2 DEF DistinctFiles, Shape, At
  <1>5. \A d \in Clients \ {c} : Listed(req[d].file)' => Listed(req[d].file)
    BY <1>1, <1>3, <1>4 DEF Listed
  <1>6. Orphans' \subseteq Orphans
    <2>1. ASSUME NEW f \in files, InUse(f) PROVE InUse(f)'
      <3>1. CASE \E w \in versions : w.file = f
        BY <1>3, <3>1 DEF InUse
      <3>2. CASE \E d \in Clients : req[d].file = f /\ Busy(d)
        BY <1>1, <3>2 DEF InUse, Busy
      <3>3. QED BY <2>1, <3>1, <3>2 DEF InUse
    <2>2. QED BY <2>1 DEF Orphans
  <1>7. ASSUME NEW v \in versions, v \in Lost' PROVE v \in Lost
    <2>1. CASE v.file \notin files
      BY <1>7, <2>1 DEF Lost
    <2>2. ASSUME NEW d \in Clients, req'[d].pc = "clean", req'[d].file = v.file
          PROVE  v \in Lost
      <3>1. CASE d = c
        <4>1. ~ Listed(req[c].file)
          BY VersionsFacts DEF Ahead, At
        <4>2. QED BY <1>1, <2>2, <3>1, <4>1 DEF Listed
      <3>2. CASE d # c
        BY <1>1, <2>2, <3>2 DEF Lost
      <3>3. QED BY <3>1, <3>2
    <2>3. QED BY <1>7, <2>1, <2>2 DEF Lost
  <1>8. Lost' \subseteq versions'
    BY DEF Lost
  <1>9. QED BY <1>1, <1>3, <1>4, <1>5, <1>6, <1>7, <1>8

LEMMA PublishInv ==
    ASSUME EvidenceInv, NEW c \in Clients, publish(c)
    PROVE  EvidenceInv'
  <1>1. Typed /\ VersionsInv /\ FilesInv /\ LinksInv /\ Numbered
    BY DEF EvidenceInv, VersionsInv
  <1>2. CASE InsertFails(req[c])
    <2>1. PICK r : Quietly(c, r)
      BY <1>1, <1>2, RefusedQuietly
    <2>2. QED BY <2>1, QuietInv
  <1>3. CASE ~ InsertFails(req[c])
    <2>1. /\ At(c, "upload", "publish") /\ GoTo(c, "reread") /\ Published(req[c])
          /\ UNCHANGED <<links, records, noted, files, uploads, beaten>>
          /\ failures' = failures /\ "reread" \in Steps
      BY <1>3 DEF publish, Steps
    <2>2. PICK r \in Requests :
            /\ Set(c, r) /\ r.pc = "reread"
            /\ \A f \in {"kind", "file", "number", "keys", "status", "control", "todo",
                         "note", "outcome"} : r[f] = req[c][f]
      BY <1>1, <2>1, GoToShape
    <2>3. /\ Shape(req[c], uploads) /\ req[c].pc = "publish" /\ req[c].kind = "upload"
          /\ failures \in Nat /\ Held(req[c])
      BY <1>1, <2>1, TypedFacts DEF At, FilesInv
    <2>4. Shape(r, uploads)
      BY <2>2, <2>3 DEF Shape
    <2>5. Typed'
      BY <1>1, <2>1, <2>2, <2>3, <2>4, PublishedTyped
    <2>6. VersionsInv'
      BY <1>1, <1>3, <2>1, <2>2, <2>5, PublishedVersions
    <2>7. Exists /\ Exists'
      BY <1>1, <1>3, <2>1, PublishedNumbers
    <2>8. req'[c] = r
      BY <1>1, <2>2, Others
    <2>9. /\ Orphans' \subseteq Orphans
          /\ Lost' \subseteq Lost \cup {[number |-> req[c].number, file |-> req[c].file]}
          /\ \A d \in Clients \ {c} :
               /\ req'[d] = req[d]
               /\ req[d].file # req[c].file
               /\ Listed(req[d].file)' => Listed(req[d].file)
      BY <1>1, <2>1, <2>2, PublishedUses
    <2>10. FilesInv'
      <3>1. req[c].file \in files
        BY <2>3, <2>7 DEF Held
      <3>2. [number |-> req[c].number, file |-> req[c].file] \notin Lost'
        BY <2>1, <2>2, <2>8, <2>9, <3>1 DEF Lost
      <3>3. ASSUME NEW d \in Clients PROVE Held(req[d])'
        <4>1. CASE d = c
          BY <2>2, <2>8, <4>1 DEF Held
        <4>2. CASE d # c
          <5>1. Held(req[d]) /\ req'[d] = req[d]
            BY <1>1, <2>9, <4>2 DEF FilesInv
          <5>2. Listed(req[d].file)' => Listed(req[d].file)
            BY <2>9, <4>2
          <5>3. QED BY <2>1, <2>7, <5>1, <5>2 DEF Held
        <4>3. QED BY <4>1, <4>2
      <3>4. failures' \in Nat /\ failures' >= failures
        BY <2>1, <2>3
      <3>5. Lost' \subseteq Lost
        BY <2>9, <3>2
      <3>6. QED BY <1>1, <2>7, <2>9, <3>3, <3>4, <3>5, FilesStep
    <2>11. LinksInv'
      <3>1. \A k \in links' : ~ WillNote(req[c], k)
        BY <2>3 DEF WillNote
      <3>2. QED BY <1>1, <2>1, <2>2, <3>1, LinksStep
    <2>12. QED BY <2>5, <2>6, <2>10, <2>11 DEF EvidenceInv
  <1>4. QED BY <1>2, <1>3

LEMMA DatabaseFailsInv ==
    ASSUME EvidenceInv, NEW c \in Clients, databaseFails(c)
    PROVE  EvidenceInv'
  <1>1. Typed /\ VersionsInv /\ FilesInv
    BY DEF EvidenceInv
  <1>2. /\ req[c].pc \in {"number", "publish", "reread"} /\ GoTo(c, "clean")
        /\ failures' = failures + 1 /\ "clean" \in Steps
        /\ UNCHANGED <<links, records, noted, files, uploads, beaten>>
    BY DEF databaseFails, Fails, Steps
  <1>3. CASE UNCHANGED <<item, versions>>
    <2>1. UNCHANGED <<Tables, files, uploads>>
      BY <1>2, <1>3 DEF Tables
    <2>2. QED BY <1>2, <2>1, NothingCommittedInv
  <1>4. CASE At(c, "upload", "publish") /\ ~ InsertFails(req[c]) /\ Published(req[c])
    <2>1. PICK r \in Requests :
            /\ Set(c, r) /\ r.pc = "clean"
            /\ \A f \in {"kind", "file", "number", "keys", "status", "control", "todo",
                         "note", "outcome"} : r[f] = req[c][f]
      BY <1>1, <1>2, GoToShape
    <2>2. Shape(req[c], uploads) /\ req[c].kind = "upload" /\ failures \in Nat
          /\ req[c].pc = "publish"
      BY <1>1, <1>4, TypedFacts DEF At
    <2>3. Shape(r, uploads)
      BY <2>1, <2>2 DEF Shape
    <2>4. failures' \in Nat /\ failures' # 0
      BY <1>2, <2>2
    <2>5. Typed'
      BY <1>1, <1>2, <1>4, <2>1, <2>3, <2>4, PublishedTyped
    <2>6. VersionsInv'
      BY <1>1, <1>2, <1>4, <2>1, <2>5, PublishedVersions
    <2>7. Exists /\ Exists'
      BY <1>1, <1>2, <1>4, PublishedNumbers
    <2>8. req'[c] = r
      BY <1>1, <2>1, Others
    <2>9. /\ Orphans' \subseteq Orphans
          /\ Lost' \subseteq Lost \cup {[number |-> req[c].number, file |-> req[c].file]}
          /\ \A d \in Clients \ {c} : req'[d] = req[d]
      BY <1>1, <1>2, <1>4, <2>1, PublishedUses
    <2>10. ASSUME NEW d \in Clients, req'[d].pc \in {"number", "publish"}, Exists'
           PROVE  req'[d].file \in files'
      BY <1>1, <1>2, <2>1, <2>7, <2>8, <2>9, <2>10 DEF FilesInv, Held
    <2>11. FilesInv'
      BY <1>1, <1>2, <2>7, <2>9, <2>10, FilesFail
    <2>12. LinksInv'
      BY <2>4 DEF LinksInv
    <2>13. QED BY <2>5, <2>6, <2>11, <2>12 DEF EvidenceInv
  <1>5. QED BY <1>3, <1>4 DEF databaseFails

(* The catch block deletes the file; the upload ends.                      *)
LEMMA CleanInv ==
    ASSUME EvidenceInv, EvidenceAssumption, NEW c \in Clients, clean(c)
    PROVE  EvidenceInv'
  <1>1. Typed /\ VersionsInv /\ FilesInv /\ LinksInv
    BY DEF EvidenceInv
  <1>2. /\ req[c].pc = "clean" /\ req[c].kind = "upload" /\ UNCHANGED <<Tables, uploads>>
        /\ files' = files \ {req[c].file} /\ failures' = failures
        /\ End(c, "storage") /\ "storage" \in Outcomes
    BY DEF clean, At, Discarded, Outcomes
  <1>3. PICK r : r = Ended(c, "storage")
    OBVIOUS
  <1>4. /\ Set(c, r) /\ Shape(r, uploads) /\ r.pc = "done" /\ r.outcome = "storage"
        /\ r.file = req[c].file /\ r.kind = req[c].kind /\ r.todo = {}
    BY <1>1, <1>2, <1>3, EndedFacts
  <1>5. /\ item' = item /\ versions' = versions /\ links' = links /\ records' = records
        /\ noted' = noted /\ beaten' = beaten /\ uploads' = uploads
    BY <1>2 DEF Tables
  <1>6. /\ req'[c] = r
        /\ \A d \in Clients \ {c} : req'[d] = req[d]
    BY <1>1, <1>4, Others
  <1>7. /\ Shape(req[c], uploads) /\ Ahead(req[c]) /\ Held(req[c]) /\ DistinctFiles
        /\ files \subseteq 1..uploads /\ failures \in Nat /\ uploads \in Nat
    BY <1>1, TypedFacts, VersionsFacts DEF FilesInv
  <1>8. Typed'
    <2>1. /\ item' \in Items /\ versions' \subseteq Versions
          /\ links' \subseteq Controls /\ records' \subseteq Controls
          /\ beaten' \subseteq Controls
          /\ noted' \in [Controls -> SUBSET {"added", "removed"}]
      BY <1>1, <1>5 DEF Typed, TypeOK
    <2>2. files' \subseteq 1..uploads'
      <3>1. files' \subseteq files
        BY <1>2
      <3>2. QED BY <1>5, <1>7, <3>1
    <2>3. /\ uploads' \in Nat /\ uploads' >= uploads /\ failures' \in Nat
          /\ Shape(r, uploads')
      BY <1>2, <1>4, <1>5, <1>7
    <2>4. QED BY <1>1, <1>4, <2>1, <2>2, <2>3, TypedStep
  <1>9. VersionsInv'
    <2>1. CurrentIsNewest'
      BY <1>1, <1>2, <1>4, <1>5, <1>7, PointerKept DEF Exists
    <2>2. Ahead(r)'
      BY <1>2, <1>4, <1>5, <1>7 DEF Ahead
    <2>3. ~ Exists => links' = {}
      BY <1>1, <1>5, VersionsFacts
    <2>4. QED BY <1>1, <1>2, <1>4, <1>5, <2>1, <2>2, <2>3, AsideVersions
  <1>10. FilesInv'
    <2>1. Lost' \subseteq Lost
      BY <1>2, <1>4, <1>5, <1>6 DEF Lost
    <2>2. Orphans' \subseteq Orphans
      <3>1. ASSUME NEW f \in files', InUse(f) PROVE InUse(f)'
        <4>1. f # req[c].file
          BY <1>2
        <4>2. CASE \E w \in versions : w.file = f
          BY <1>5, <4>2 DEF InUse
        <4>3. CASE \E d \in Clients : req[d].file = f /\ Busy(d)
          BY <1>6, <4>1, <4>3 DEF InUse, Busy
        <4>4. QED BY <3>1, <4>2, <4>3 DEF InUse
      <3>2. QED BY <1>2, <3>1 DEF Orphans
    <2>3. ASSUME NEW d \in Clients PROVE Held(req[d])'
      <3>1. CASE d = c
        <4>1. failures = 0 => ~ Listed(r.file)
          BY <1>2, <1>4, <1>7 DEF Held
        <4>2. QED BY <1>2, <1>4, <1>5, <1>6, <3>1, <4>1 DEF Held, Listed
      <3>2. CASE d # c
        <4>1. Held(req[d]) /\ req'[d] = req[d] /\ req[d].file # req[c].file
          BY <1>1, <1>2, <1>6, <1>7, <3>2 DEF FilesInv, DistinctFiles, Shape
        <4>2. QED BY <1>2, <1>5, <4>1 DEF Held, Listed, Exists
      <3>3. QED BY <3>1, <3>2
    <2>4. failures' \in Nat /\ failures' >= failures /\ (Exists' => Exists)
      BY <1>2, <1>5, <1>7 DEF Exists
    <2>5. QED BY <1>1, <2>1, <2>2, <2>3, <2>4, FilesStep
  <1>11. LinksInv'
    <2>1. \A k \in links' : ~ WillNote(req[c], k)
      BY <1>2 DEF WillNote
    <2>2. QED BY <1>1, <1>2, <1>4, <1>5, <2>1, LinksStep
  <1>12. QED BY <1>8, <1>9, <1>10, <1>11 DEF EvidenceInv
----
(* Creation and deletion.                                                  *)

LEMMA InsertItemInv ==
    ASSUME EvidenceInv, EvidenceAssumption, NEW c \in Clients, insertItem(c)
    PROVE  EvidenceInv'
  <1>1. Typed /\ VersionsInv /\ FilesInv /\ LinksInv
    BY DEF EvidenceInv
  <1>2. /\ req[c].kind = "create" /\ req[c].pc = "insert" /\ item.status = "unborn"
        /\ item' = [status |-> req[c].status, current |-> 0] /\ links' = req[c].todo
        /\ UNCHANGED <<versions, files, uploads, records, noted, failures, beaten>>
        /\ "ok" \in Outcomes /\ "record" \in Steps
    BY DEF insertItem, At, Outcomes, Steps
  <1>3. /\ Shape(req[c], uploads) /\ req[c] \in Requests /\ req[c].file = 0
        /\ req[c].note = "added" /\ req[c].status \in {"draft", "active"}
    BY <1>1, <1>2, TypedFacts DEF Shape
  <1>4. PICK r : /\ Set(c, r) /\ Shape(r, uploads) /\ r.file = 0 /\ r.kind = "create"
                 /\ r.pc \in {"done", "record"}
                 /\ \A k \in req[c].todo : WillNote(r, k)
    <2>1. CASE req[c].todo = {}
      <3> DEFINE q == Ended(c, "ok")
      <3>1. /\ Set(c, q) /\ Shape(q, uploads) /\ q.pc = "done" /\ q.file = 0
            /\ q.kind = "create"
        BY <1>1, <1>2, <1>3, <2>1, EndedFacts DEF insertItem
      <3> HIDE DEF q
      <3>2. QED BY <2>1, <3>1
    <2>2. CASE req[c].todo # {}
      <3>1. GoTo(c, "record")
        BY <2>2 DEF insertItem
      <3>2. PICK q \in Requests :
              /\ Set(c, q) /\ q.pc = "record"
              /\ \A f \in {"kind", "file", "number", "keys", "status", "control", "todo",
                           "note", "outcome"} : q[f] = req[c][f]
        BY <1>1, <1>2, <3>1, GoToShape
      <3>3. Shape(q, uploads)
        BY <1>2, <1>3, <3>2 DEF Shape
      <3>4. QED BY <1>2, <1>3, <3>2, <3>3 DEF WillNote
    <2>3. QED BY <2>1, <2>2
  <1>5. /\ req'[c] = r
        /\ \A d \in Clients \ {c} : req'[d] = req[d]
    BY <1>1, <1>4, Others
  <1>6. /\ Exists' /\ ~ Exists /\ versions = {} /\ files = {} /\ uploads \in Nat
        /\ failures \in Nat /\ files \subseteq 1..uploads /\ Numbered /\ DistinctFiles
        /\ item'.status # "unborn"
    BY <1>1, <1>2, <1>3, TypedFacts, VersionsFacts DEF Exists, Statuses
  <1>7. Typed'
    <2>1. item' \in Items /\ links' \subseteq Controls
      BY <1>2, <1>3 DEF Items, Statuses, Requests
    <2>2. /\ versions' \subseteq Versions /\ records' \subseteq Controls
          /\ beaten' \subseteq Controls
          /\ noted' \in [Controls -> SUBSET {"added", "removed"}]
      BY <1>1, <1>2 DEF Typed, TypeOK
    <2>3. /\ uploads' \in Nat /\ uploads' >= uploads /\ failures' \in Nat
          /\ files' \subseteq 1..uploads' /\ Shape(r, uploads')
      BY <1>2, <1>4, <1>6
    <2>4. QED BY <1>1, <1>4, <2>1, <2>2, <2>3, TypedStep
  <1>8. ASSUME NEW d \in Clients
        PROVE  /\ req'[d].kind \notin Kinds \ {"create"}
               /\ req'[d].pc \notin {"number", "publish", "reread", "sweep", "clean"}
    <2>1. Ahead(req[d]) /\ Shape(req[d], uploads)
      BY <1>1, VersionsFacts
    <2>2. req[d].kind \notin Kinds \ {"create"}
      BY <1>2, <2>1 DEF Ahead
    <2>3. req'[d].kind = req[d].kind /\ Shape(req'[d], uploads)
      BY <1>2, <1>4, <1>5, <2>1
    <2>4. QED BY <2>2, <2>3 DEF Shape, Kinds
  <1>9. VersionsInv'
    <2>1. DistinctFiles'
      BY <1>1, <1>4, <1>6, StillDistinct
    <2>2. Numbered' /\ CurrentIsNewest'
      BY <1>2, <1>6 DEF Numbered, CurrentIsNewest
    <2>3. \A d \in Clients : Ahead(req[d])'
      BY <1>6, <1>8 DEF Ahead, Kinds
    <2>4. QED BY <1>6, <2>1, <2>2, <2>3 DEF VersionsInv, DistinctFiles
  <1>10. FilesInv'
    <2>1. Lost' = {} /\ Orphans' = {}
      BY <1>2, <1>6 DEF Lost, Orphans
    <2>2. Cardinality(Lost') <= failures' /\ Cardinality(Orphans') <= failures'
      BY <1>2, <1>6, <2>1, FS_EmptySet
    <2>3. \A d \in Clients : Held(req[d])'
      BY <1>8 DEF Held, Kinds
    <2>4. QED BY <2>2, <2>3 DEF FilesInv
  <1>11. LinksInv'
    BY <1>2, <1>4, <1>5 DEF LinksInv, WillNote
  <1>12. QED BY <1>7, <1>9, <1>10, <1>11 DEF EvidenceInv

(* The row goes, and its versions and links with it.                       *)
LEMMA RemoveItemInv ==
    ASSUME EvidenceInv, EvidenceAssumption, NEW c \in Clients, removeItem(c)
    PROVE  EvidenceInv'
  <1>1. Typed /\ VersionsInv /\ FilesInv /\ LinksInv
    BY DEF EvidenceInv
  <1>2. /\ req[c].kind = "delete" /\ req[c].pc = "remove"
        /\ item' = [status |-> "deleted", current |-> 0] /\ links' = {} /\ versions' = {}
        /\ UNCHANGED <<files, uploads, records, noted, failures, beaten>>
        /\ "ok" \in Outcomes /\ "sweep" \in Steps
    BY DEF removeItem, At, Outcomes, Steps
  <1>3. Shape(req[c], uploads) /\ req[c].file = 0
    BY <1>1, <1>2, TypedFacts DEF Shape
  <1>4. PICK r : /\ Set(c, r) /\ Shape(r, uploads) /\ r.file = 0 /\ r.kind = "delete"
                 /\ r.pc \in {"done", "sweep"}
    <2>1. CASE req[c].keys = {}
      <3> DEFINE q == Ended(c, "ok")
      <3>1. /\ Set(c, q) /\ Shape(q, uploads) /\ q.pc = "done" /\ q.file = 0
            /\ q.kind = "delete"
        BY <1>1, <1>2, <1>3, <2>1, EndedFacts DEF removeItem
      <3> HIDE DEF q
      <3>2. QED BY <3>1
    <2>2. CASE req[c].keys # {}
      <3>1. GoTo(c, "sweep")
        BY <2>2 DEF removeItem
      <3>2. PICK q \in Requests :
              /\ Set(c, q) /\ q.pc = "sweep"
              /\ \A f \in {"kind", "file", "number", "keys", "status", "control", "todo",
                           "note", "outcome"} : q[f] = req[c][f]
        BY <1>1, <1>2, <3>1, GoToShape
      <3>3. Shape(q, uploads)
        BY <1>2, <1>3, <3>2 DEF Shape
      <3>4. QED BY <1>2, <1>3, <3>2, <3>3
    <2>3. QED BY <2>1, <2>2
  <1>5. /\ req'[c] = r
        /\ \A d \in Clients \ {c} : req'[d] = req[d]
    BY <1>1, <1>4, Others
  <1>6. /\ ~ Exists' /\ uploads \in Nat /\ failures \in Nat
        /\ files \subseteq 1..uploads /\ Numbered /\ DistinctFiles
        /\ item'.status = "deleted"
    BY <1>1, <1>2, TypedFacts, VersionsFacts DEF Exists, Statuses
  <1>7. Typed'
    <2>1. item' \in Items /\ links' \subseteq Controls /\ versions' \subseteq Versions
      BY <1>2 DEF Items
    <2>2. /\ records' \subseteq Controls /\ beaten' \subseteq Controls
          /\ noted' \in [Controls -> SUBSET {"added", "removed"}]
      BY <1>1, <1>2 DEF Typed, TypeOK
    <2>3. /\ uploads' \in Nat /\ uploads' >= uploads /\ failures' \in Nat
          /\ files' \subseteq 1..uploads' /\ Shape(r, uploads')
      BY <1>2, <1>4, <1>6
    <2>4. QED BY <1>1, <1>4, <2>1, <2>2, <2>3, TypedStep
  <1>8. VersionsInv'
    <2>1. DistinctFiles'
      BY <1>1, <1>4, <1>6, StillDistinct
    <2>2. Numbered'
      <3>1. IsFiniteSet(versions') /\ Cardinality(versions') = 0
        BY <1>2, FS_EmptySet
      <3>2. {v.number : v \in versions'} = {} /\ 1..0 = {}
        BY <1>2
      <3>3. QED BY <1>2, <3>1, <3>2 DEF Numbered
    <2>3. CurrentIsNewest'
      BY <1>2 DEF CurrentIsNewest
    <2>4. \A d \in Clients : Ahead(req[d])'
      BY <1>2, <1>6 DEF Ahead, Listed
    <2>5. QED BY <1>2, <1>6, <2>1, <2>2, <2>3, <2>4 DEF VersionsInv, DistinctFiles
  <1>9. FilesInv'
    <2>1. Lost' \subseteq Lost
      BY <1>2 DEF Lost
    <2>2. ASSUME NEW d \in Clients PROVE Held(req[d])'
      <3>1. CASE d = c
        BY <1>4, <1>5, <3>1 DEF Held
      <3>2. CASE d # c
        <4>1. Held(req[d]) /\ req'[d] = req[d]
          BY <1>1, <1>5, <3>2 DEF FilesInv
        <4>2. QED BY <1>2, <1>6, <4>1 DEF Held, Listed
      <3>3. QED BY <3>1, <3>2
    <2>3. failures' \in Nat /\ failures' >= failures
      BY <1>2, <1>6
    <2>4. QED BY <1>1, <1>6, <2>1, <2>2, <2>3, FilesStep
  <1>10. LinksInv'
    BY <1>2 DEF LinksInv
  <1>11. QED BY <1>7, <1>8, <1>9, <1>10 DEF EvidenceInv

LEMMA CleanupInv ==
    ASSUME EvidenceInv, EvidenceAssumption, NEW c \in Clients, cleanupStorageForEvidence(c)
    PROVE  EvidenceInv'
  <1>1. Typed /\ VersionsInv /\ FilesInv /\ LinksInv
    BY DEF EvidenceInv
  <1>2. PICK key \in req[c].keys : files' = files \ {key} /\ Swept(c, key)
    BY DEF cleanupStorageForEvidence
  <1>3. /\ req[c].kind = "delete" /\ req[c].pc = "sweep" /\ At(c, "delete", "sweep")
        /\ UNCHANGED <<Tables, uploads>> /\ failures' = failures
    BY DEF cleanupStorageForEvidence, At
  <1>4. PICK r : /\ Set(c, r) /\ Shape(r, uploads) /\ r.kind = "delete" /\ r.file = 0
                 /\ r.pc \in {"done", "sweep"}
    BY <1>1, <1>2, <1>3, SweptFacts
  <1>5. /\ item' = item /\ versions' = versions /\ links' = links /\ records' = records
        /\ noted' = noted /\ beaten' = beaten /\ uploads' = uploads
    BY <1>3 DEF Tables
  <1>6. /\ req'[c] = r
        /\ \A d \in Clients \ {c} : req'[d] = req[d]
    BY <1>1, <1>4, Others
  <1>7. /\ Ahead(req[c]) /\ item.status = "deleted" /\ ~ Exists
        /\ files \subseteq 1..uploads /\ failures \in Nat /\ uploads \in Nat
    BY <1>1, <1>3, TypedFacts, VersionsFacts DEF Ahead, Exists, Statuses
  <1>8. Typed'
    <2>1. /\ item' \in Items /\ versions' \subseteq Versions
          /\ links' \subseteq Controls /\ records' \subseteq Controls
          /\ beaten' \subseteq Controls
          /\ noted' \in [Controls -> SUBSET {"added", "removed"}]
      BY <1>1, <1>5 DEF Typed, TypeOK
    <2>2. files' \subseteq 1..uploads'
      <3>1. files' \subseteq files
        BY <1>2
      <3>2. QED BY <1>5, <1>7, <3>1
    <2>3. /\ uploads' \in Nat /\ uploads' >= uploads /\ failures' \in Nat
          /\ Shape(r, uploads')
      BY <1>2, <1>3, <1>4, <1>5, <1>7
    <2>4. QED BY <1>1, <1>4, <2>1, <2>2, <2>3, TypedStep
  <1>9. links = {} /\ versions = {}
    BY <1>1, <1>7, VersionsFacts
  <1>10. VersionsInv'
    <2>1. CurrentIsNewest'
      BY <1>5, <1>9 DEF CurrentIsNewest
    <2>2. Ahead(r)'
      BY <1>4, <1>5, <1>7 DEF Ahead
    <2>3. files' \subseteq files
      BY <1>2
    <2>4. QED BY <1>1, <1>4, <1>5, <1>9, <2>1, <2>2, <2>3, AsideVersions
  <1>11. FilesInv'
    <2>1. Lost' \subseteq Lost /\ ~ Exists'
      BY <1>5, <1>7, <1>9 DEF Lost, Exists
    <2>2. ASSUME NEW d \in Clients PROVE Held(req[d])'
      <3>1. CASE d = c
        BY <1>4, <1>6, <3>1 DEF Held
      <3>2. CASE d # c
        <4>1. Held(req[d]) /\ req'[d] = req[d]
          BY <1>1, <1>6, <3>2 DEF FilesInv
        <4>2. QED BY <1>2, <1>3, <1>5, <2>1, <4>1 DEF Held, Listed
      <3>3. QED BY <3>1, <3>2
    <2>3. failures' \in Nat /\ failures' >= failures
      BY <1>3, <1>7
    <2>4. QED BY <1>1, <2>1, <2>2, <2>3, FilesStep
  <1>12. LinksInv'
    BY <1>5, <1>9 DEF LinksInv
  <1>13. QED BY <1>8, <1>10, <1>11, <1>12 DEF EvidenceInv
----
(* Metadata, links and timelines: requests that are no upload and leave    *)
(* files and versions alone.                                               *)
LEMMA AsideInv ==
    ASSUME EvidenceInv, NEW c \in Clients, NEW r, Set(c, r), Shape(r, uploads),
           r.kind # "upload", r.kind = req[c].kind, r.pc # "sweep",
           UNCHANGED <<versions, files, uploads, failures>>,
           item' \in Items, links' \subseteq Controls, records' \subseteq Controls,
           beaten' \subseteq Controls,
           noted' \in [Controls -> SUBSET {"added", "removed"}],
           item'.status = item.status \/ (Exists /\ Exists'), ~ Exists => links' = {},
           CurrentIsNewest', LinksInv'
    PROVE  EvidenceInv'
  <1>1. Typed /\ VersionsInv /\ FilesInv
    BY DEF EvidenceInv
  <1>2. /\ versions \subseteq Versions /\ uploads \in Nat /\ files \subseteq 1..uploads
        /\ failures \in Nat /\ Shape(req[c], uploads) /\ Ahead(req[c])
    BY <1>1, TypedFacts, VersionsFacts
  <1>3. req[c].file = 0 /\ r.file = 0
    BY <1>2 DEF Shape
  <1>4. r.pc \notin {"number", "publish", "reread", "clean"}
    BY DEF Shape
  <1>5. Typed'
    <2>1. Shape(r, uploads') /\ uploads' >= uploads
      BY <1>2
    <2>2. QED BY <1>1, <1>2, <2>1, TypedStep
  <1>6. Exists' => Exists
    BY DEF Exists
  <1>7. item'.status = "unborn" => item.status = "unborn"
    BY DEF Exists, Statuses
  <1>8. Ahead(r)'
    BY <1>2, <1>4, <1>7 DEF Ahead
  <1>9. VersionsInv'
    BY <1>1, <1>3, <1>8, AsideVersions
  <1>10. FilesInv'
    BY <1>1, <1>3, <1>4, <1>6, AsideFiles
  <1>11. QED BY <1>5, <1>9, <1>10 DEF EvidenceInv

LEMMA InvFacts ==
    ASSUME EvidenceInv, NEW c \in Clients
    PROVE  /\ Typed /\ VersionsInv /\ LinksInv /\ failures \in Nat
           /\ Shape(req[c], uploads) /\ req[c] \in Requests
           /\ item \in Items /\ links \subseteq Controls /\ records \subseteq Controls
           /\ beaten \subseteq Controls
           /\ noted \in [Controls -> SUBSET {"added", "removed"}]
           /\ ~ Exists => links = {}
           /\ CurrentIsNewest
  <1>1. Typed /\ VersionsInv /\ LinksInv
    BY DEF EvidenceInv
  <1>2. /\ ~ Exists => links = {}
        /\ CurrentIsNewest
    BY <1>1 DEF VersionsInv
  <1>3. /\ item \in Items /\ links \subseteq Controls /\ records \subseteq Controls
        /\ beaten \subseteq Controls /\ failures \in Nat
        /\ noted \in [Controls -> SUBSET {"added", "removed"}]
    BY <1>1 DEF Typed, TypeOK
  <1>4. Shape(req[c], uploads) /\ req[c] \in Requests
    BY <1>1, TypedFacts
  <1>5. QED BY <1>1, <1>2, <1>3, <1>4

LEMMA ClearCurrentInv ==
    ASSUME EvidenceInv, NEW c \in Clients, clearCurrent(c)
    PROVE  EvidenceInv'
  <1>1. /\ req[c].kind = "delete" /\ req[c].pc = "clear" /\ GoTo(c, "erase")
        /\ item' = [item EXCEPT !.current = 0] /\ "erase" \in Steps
        /\ UNCHANGED <<versions, links, records, noted, files, uploads, failures, beaten>>
    BY DEF clearCurrent, At, Steps
  <1>2. /\ Typed /\ LinksInv /\ item \in Items /\ Shape(req[c], uploads)
        /\ links \subseteq Controls /\ records \subseteq Controls
        /\ beaten \subseteq Controls
        /\ noted \in [Controls -> SUBSET {"added", "removed"}]
        /\ (~ Exists => links = {})
    BY InvFacts
  <1>3. PICK r \in Requests :
          /\ Set(c, r) /\ r.pc = "erase"
          /\ \A f \in {"kind", "file", "number", "keys", "status", "control", "todo",
                       "note", "outcome"} : r[f] = req[c][f]
    BY <1>1, <1>2, GoToShape
  <1>4. Shape(r, uploads)
    BY <1>1, <1>2, <1>3 DEF Shape
  <1>5. item' \in Items /\ item'.status = item.status /\ item'.current = 0
    BY <1>1, <1>2 DEF Items, Statuses
  <1>6. req'[c] = r
    BY <1>2, <1>3, Others
  <1>7. CurrentIsNewest'
    BY <1>1, <1>3, <1>5, <1>6 DEF CurrentIsNewest, At
  <1>8. LinksInv'
    <2>1. \A k \in links' : ~ WillNote(req[c], k)
      BY <1>1 DEF WillNote
    <2>2. QED BY <1>1, <1>2, <1>3, <2>1, LinksStep
  <1>9. QED BY <1>1, <1>2, <1>3, <1>4, <1>5, <1>7, <1>8, AsideInv

LEMMA WriteUpdateInv ==
    ASSUME EvidenceInv, EvidenceAssumption, NEW c \in Clients, writeUpdate(c)
    PROVE  EvidenceInv'
  <1>1. /\ req[c].kind = "update" /\ req[c].pc = "write" /\ End(c, "ok")
        /\ item' = IF Exists THEN [item EXCEPT !.status = req[c].status] ELSE item
        /\ UNCHANGED <<versions, links, records, noted, files, uploads, failures, beaten>>
        /\ "ok" \in Outcomes
    BY DEF writeUpdate, At, Outcomes
  <1>2. /\ Typed /\ VersionsInv /\ LinksInv /\ item \in Items /\ Shape(req[c], uploads)
        /\ links \subseteq Controls /\ records \subseteq Controls
        /\ beaten \subseteq Controls /\ failures \in Nat
        /\ noted \in [Controls -> SUBSET {"added", "removed"}]
        /\ (~ Exists => links = {})
    BY InvFacts
  <1>3. PICK r : r = Ended(c, "ok")
    OBVIOUS
  <1>4. Set(c, r) /\ Shape(r, uploads) /\ r.pc = "done" /\ r.kind = req[c].kind
    BY <1>1, <1>2, <1>3, EndedFacts
  <1>5. req[c].status \in Statuses
    BY <1>1, <1>2 DEF Shape
  <1>6. /\ item' \in Items /\ item'.current = item.current
        /\ item'.status = item.status \/ (Exists /\ Exists')
    BY <1>1, <1>2, <1>5 DEF Items, Exists
  <1>7. Exists' => Exists
    BY <1>6 DEF Exists
  <1>8. CurrentIsNewest'
    BY <1>1, <1>2, <1>4, <1>6, <1>7, PointerKept
  <1>9. LinksInv'
    <2>1. \A k \in links' : ~ WillNote(req[c], k)
      BY <1>1 DEF WillNote
    <2>2. QED BY <1>1, <1>2, <1>4, <2>1, LinksStep
  <1>10. QED BY <1>1, <1>2, <1>4, <1>6, <1>8, <1>9, AsideInv

LEMMA InsertLinkInv ==
    ASSUME EvidenceInv, EvidenceAssumption, NEW c \in Clients, insertLink(c)
    PROVE  EvidenceInv'
  <1>1. CASE ~ Exists \/ req[c].control \in links
    <2>1. PICK r : Quietly(c, r)
      BY <1>1, InvFacts, LinkRefusedQuietly
    <2>2. QED BY <2>1, QuietInv
  <1>2. CASE Exists /\ req[c].control \notin links
    <2>1. /\ req[c].kind = "link" /\ req[c].pc = "write" /\ GoTo(c, "reget")
          /\ links' = links \cup {req[c].control} /\ "reget" \in Steps
          /\ UNCHANGED <<item, versions, records, noted, files, uploads, failures, beaten>>
      BY <1>2 DEF insertLink, At, Steps
    <2>2. /\ Typed /\ VersionsInv /\ LinksInv /\ item \in Items /\ Shape(req[c], uploads)
          /\ links \subseteq Controls /\ records \subseteq Controls /\ req[c] \in Requests
          /\ beaten \subseteq Controls /\ failures \in Nat
          /\ noted \in [Controls -> SUBSET {"added", "removed"}]
      BY InvFacts
    <2>3. PICK r \in Requests :
            /\ Set(c, r) /\ r.pc = "reget"
            /\ \A f \in {"kind", "file", "number", "keys", "status", "control", "todo",
                         "note", "outcome"} : r[f] = req[c][f]
      BY <2>1, <2>2, GoToShape
    <2>4. Shape(r, uploads)
      BY <2>1, <2>2, <2>3 DEF Shape
    <2>5. r.control \in r.todo /\ r.note = "added" /\ r.todo \subseteq Controls
      BY <2>1, <2>2, <2>3 DEF Shape, Requests
    <2>6. links' \subseteq Controls
      BY <2>1, <2>2, <2>3, <2>5
    <2>7. Exists'
      BY <1>2, <2>1 DEF Exists
    <2>8. CurrentIsNewest'
      BY <1>2, <2>1, <2>2, <2>3, PointerKept
    <2>9. /\ req'[c] = r
          /\ \A d \in Clients \ {c} : req'[d] = req[d]
      BY <2>2, <2>3, Others
    <2>10. LinksInv'
      <3>1. WillNote(req'[c], req[c].control)
        BY <2>3, <2>5, <2>9 DEF WillNote
      <3>2. ASSUME NEW d \in Clients, NEW k \in links, WillNote(req[d], k)
            PROVE  WillNote(req'[d], k)
        BY <2>1, <2>9, <3>2 DEF WillNote
      <3>3. QED BY <2>1, <2>2, <3>1, <3>2 DEF LinksInv, WillNote
    <2>11. QED BY <1>2, <2>1, <2>2, <2>3, <2>4, <2>6, <2>7, <2>8, <2>10, AsideInv
  <1>3. QED BY <1>1, <1>2

LEMMA DeleteLinkInv ==
    ASSUME EvidenceInv, NEW c \in Clients, deleteLink(c)
    PROVE  EvidenceInv'
  <1>1. /\ req[c].kind = "unlink" /\ req[c].pc = "write" /\ GoTo(c, "record")
        /\ links' = links \ {req[c].control} /\ "record" \in Steps
        /\ UNCHANGED <<item, versions, records, noted, files, uploads, failures, beaten>>
    BY DEF deleteLink, At, Steps
  <1>2. /\ Typed /\ VersionsInv /\ LinksInv /\ item \in Items /\ Shape(req[c], uploads)
        /\ links \subseteq Controls /\ records \subseteq Controls
        /\ beaten \subseteq Controls /\ failures \in Nat
        /\ noted \in [Controls -> SUBSET {"added", "removed"}]
        /\ (~ Exists => links = {})
    BY InvFacts
  <1>3. PICK r \in Requests :
          /\ Set(c, r) /\ r.pc = "record"
          /\ \A f \in {"kind", "file", "number", "keys", "status", "control", "todo",
                       "note", "outcome"} : r[f] = req[c][f]
    BY <1>1, <1>2, GoToShape
  <1>4. Shape(r, uploads)
    BY <1>1, <1>2, <1>3 DEF Shape
  <1>5. links' \subseteq links /\ links' \subseteq Controls /\ (~ Exists => links' = {})
    BY <1>1, <1>2
  <1>6. Exists' => Exists
    BY <1>1 DEF Exists
  <1>7. CurrentIsNewest'
    BY <1>1, <1>2, <1>3, <1>6, PointerKept
  <1>8. LinksInv'
    <2>1. \A k \in links' : ~ WillNote(req[c], k)
      BY <1>1 DEF WillNote
    <2>2. QED BY <1>1, <1>2, <1>3, <1>5, <2>1, LinksStep
  <1>9. QED BY <1>1, <1>2, <1>3, <1>4, <1>5, <1>7, <1>8, AsideInv

(* A request that is writing to timelines is no upload.                    *)
LEMMA Noting ==
    ASSUME EvidenceInv, EvidenceAssumption, NEW c \in Clients,
           req[c].pc \in {"newRecord", "note"}
    PROVE  /\ req[c].control \in req[c].todo /\ req[c].control \in Controls
           /\ req[c].todo \subseteq Controls /\ req[c].note \in {"added", "removed"}
  <1>1. Shape(req[c], uploads) /\ req[c] \in Requests
    BY InvFacts
  <1>2. QED BY <1>1 DEF Shape, Requests

LEMMA InsertRecordInv ==
    ASSUME EvidenceInv, EvidenceAssumption, NEW c \in Clients, insertRecord(c)
    PROVE  EvidenceInv'
  <1>1. /\ req[c].pc = "newRecord"
        /\ UNCHANGED <<item, versions, links, noted, files, uploads, failures>>
        /\ "error" \in Outcomes /\ "note" \in Steps
    BY DEF insertRecord, Outcomes, Steps
  <1>2. /\ Typed /\ VersionsInv /\ LinksInv /\ item \in Items /\ Shape(req[c], uploads)
        /\ links \subseteq Controls /\ records \subseteq Controls
        /\ beaten \subseteq Controls /\ failures \in Nat
        /\ noted \in [Controls -> SUBSET {"added", "removed"}]
        /\ (~ Exists => links = {})
    BY InvFacts
  <1>3. /\ req[c].control \in req[c].todo /\ req[c].control \in Controls
        /\ req[c].todo \subseteq Controls /\ req[c].kind # "upload"
    BY <1>1, <1>2, Noting DEF Shape
  <1>4. Exists' => Exists
    BY <1>1 DEF Exists
  <1>5. PICK r : /\ Set(c, r) /\ Shape(r, uploads) /\ r.kind = req[c].kind
                 /\ r.pc \in {"done", "note"}
                 /\ records' \subseteq Controls /\ beaten' \subseteq Controls
                 /\ beaten \subseteq beaten'
                 /\ \A k \in links' : WillNote(req[c], k) => k \in beaten' \/ WillNote(r, k)
    <2>1. CASE req[c].control \in records
      <3> DEFINE q == Ended(c, "error")
      <3>1. /\ End(c, "error") /\ records' = records /\ beaten' = beaten \cup req[c].todo
        BY <2>1 DEF insertRecord
      <3>2. Set(c, q) /\ Shape(q, uploads) /\ q.pc = "done" /\ q.kind = req[c].kind
        BY <1>1, <1>2, <3>1, EndedFacts
      <3> HIDE DEF q
      <3>3. QED BY <1>2, <1>3, <3>1, <3>2 DEF WillNote
    <2>2. CASE req[c].control \notin records
      <3>1. GoTo(c, "note") /\ records' = records \cup {req[c].control} /\ beaten' = beaten
        BY <2>2 DEF insertRecord
      <3>2. PICK q \in Requests :
              /\ Set(c, q) /\ q.pc = "note"
              /\ \A f \in {"kind", "file", "number", "keys", "status", "control", "todo",
                           "note", "outcome"} : q[f] = req[c][f]
        BY <1>1, <1>2, <3>1, GoToShape
      <3>3. Shape(q, uploads)
        BY <1>1, <1>2, <3>2 DEF Shape
      <3>4. QED BY <1>2, <1>3, <3>1, <3>2, <3>3 DEF WillNote
    <2>3. QED BY <2>1, <2>2
  <1>6. CurrentIsNewest'
    BY <1>1, <1>2, <1>4, <1>5, PointerKept
  <1>7. LinksInv'
    BY <1>1, <1>2, <1>5, LinksStep
  <1>8. QED BY <1>1, <1>2, <1>3, <1>5, <1>6, <1>7, AsideInv

LEMMA AppendInv ==
    ASSUME EvidenceInv, EvidenceAssumption, NEW c \in Clients, appendLinkActivities(c)
    PROVE  EvidenceInv'
  <1>1. /\ req[c].pc = "note"
        /\ noted' = [noted EXCEPT ![req[c].control] = @ \cup {req[c].note}]
        /\ UNCHANGED <<item, versions, links, records, files, uploads, failures, beaten>>
        /\ "ok" \in Outcomes
    BY DEF appendLinkActivities, Outcomes
  <1>2. /\ Typed /\ VersionsInv /\ LinksInv /\ item \in Items /\ Shape(req[c], uploads)
        /\ links \subseteq Controls /\ records \subseteq Controls /\ req[c] \in Requests
        /\ beaten \subseteq Controls /\ failures \in Nat
        /\ noted \in [Controls -> SUBSET {"added", "removed"}]
        /\ (~ Exists => links = {})
    BY InvFacts
  <1>3. /\ req[c].control \in req[c].todo /\ req[c].control \in Controls
        /\ req[c].todo \subseteq Controls /\ req[c].note \in {"added", "removed"}
    BY <1>1, Noting
  <1>4. /\ noted' \in [Controls -> SUBSET {"added", "removed"}]
        /\ \A k \in Controls : noted[k] \subseteq noted'[k]
        /\ req[c].note \in noted'[req[c].control]
    BY <1>1, <1>2, <1>3
  <1>5. Exists' => Exists
    BY <1>1 DEF Exists
  <1>6. req[c].kind # "upload"
    BY <1>1, <1>2 DEF Shape
  <1>7. PICK r : /\ Set(c, r) /\ Shape(r, uploads) /\ r.kind = req[c].kind
                 /\ r.pc \in {"done", "record"}
                 /\ \A k \in req[c].todo \ {req[c].control} :
                      WillNote(req[c], k) => WillNote(r, k)
    <2>1. CASE req[c].todo = {req[c].control}
      <3> DEFINE q == Ended(c, "ok")
      <3>1. End(c, "ok")
        BY <2>1 DEF appendLinkActivities
      <3>2. Set(c, q) /\ Shape(q, uploads) /\ q.pc = "done" /\ q.kind = req[c].kind
        BY <1>1, <1>2, <3>1, EndedFacts
      <3> HIDE DEF q
      <3>3. QED BY <2>1, <3>2
    <2>2. CASE req[c].todo # {req[c].control}
      <3> DEFINE q == [req[c] EXCEPT !.pc = "record", !.todo = @ \ {req[c].control}]
      <3>1. Set(c, q)
        BY <2>2 DEF appendLinkActivities
      <3>2. q \in Requests
        BY <1>2 DEF Requests, Steps
      <3>3. /\ q.pc = "record" /\ q.todo = req[c].todo \ {req[c].control}
            /\ \A f \in {"kind", "file", "number", "status", "control", "note"} :
                 q[f] = req[c][f]
        BY <1>2 DEF Requests
      <3> HIDE DEF q
      <3>4. Shape(q, uploads)
        BY <1>1, <1>2, <1>3, <3>2, <3>3 DEF Shape
      <3>5. QED BY <3>1, <3>3, <3>4 DEF WillNote
    <2>3. QED BY <2>1, <2>2
  <1>8. CurrentIsNewest'
    BY <1>1, <1>2, <1>5, <1>7, PointerKept
  <1>9. LinksInv'
    <2>1. \A k \in links' : WillNote(req[c], k) => "added" \in noted'[k] \/ WillNote(r, k)
      BY <1>4, <1>7 DEF WillNote
    <2>2. QED BY <1>1, <1>2, <1>4, <1>7, <2>1, LinksStep
  <1>10. QED BY <1>1, <1>2, <1>4, <1>6, <1>7, <1>8, <1>9, AsideInv

LEMMA RecordElsewhereInv ==
    ASSUME EvidenceInv, recordElsewhere
    PROVE  EvidenceInv'
  <1>1. PICK k \in Controls \ records : records' = records \cup {k}
    BY DEF recordElsewhere
  <1>2. /\ item' = item /\ versions' = versions /\ links' = links /\ noted' = noted
        /\ files' = files /\ uploads' = uploads /\ req' = req /\ failures' = failures
        /\ beaten' = beaten
    BY DEF recordElsewhere
  <1>3. Typed'
    BY <1>1, <1>2 DEF EvidenceInv, Typed, TypeOK
  <1>4. VersionsInv'
    BY <1>2 DEF EvidenceInv, VersionsInv, Numbered, Exists, CurrentIsNewest, Highest, At,
                Ahead, Listed
  <1>5. FilesInv'
    BY <1>2 DEF EvidenceInv, FilesInv, Lost, Orphans, InUse, Busy, Exists, Held, Listed
  <1>6. LinksInv'
    BY <1>2 DEF EvidenceInv, LinksInv, WillNote
  <1>7. QED BY <1>3, <1>4, <1>5, <1>6 DEF EvidenceInv
----
(* The first state, every step, and the properties.                        *)
LEMMA InitInv ==
    ASSUME EvidenceAssumption, Init
    PROVE  EvidenceInv
  <1>1. /\ item = [status |-> "unborn", current |-> 0]
        /\ versions = {} /\ links = {} /\ files = {} /\ uploads = 0
        /\ records = {} /\ noted = [k \in Controls |-> {}]
        /\ req = [c \in Clients |-> Idle] /\ failures = 0 /\ beaten = {}
    BY DEF Init
  <1>2. Shape(Idle, 0) /\ Idle \in Requests
    BY IdleShape DEF Shape
  <1>3. /\ Idle.pc = "idle" /\ Idle.kind = None /\ Idle.file = 0 /\ None \notin Kinds
        /\ \A c \in Clients : req[c] = Idle
    BY <1>1, EvidenceAssumption DEF Idle
  <1>4. Typed
    <2>1. item \in Items
      BY <1>1 DEF Items
    <2>2. noted \in [Controls -> SUBSET {"added", "removed"}] /\ req \in [Clients -> Requests]
      BY <1>1, <1>2
    <2>3. \A c \in Clients : Shape(req[c], uploads)
      BY <1>1, <1>2, <1>3
    <2>4. QED BY <1>1, <2>1, <2>2, <2>3 DEF Typed, TypeOK
  <1>5. ~ Exists
    BY <1>1 DEF Exists, Statuses
  <1>6. VersionsInv
    <2>1. Numbered
      <3>1. IsFiniteSet(versions) /\ Cardinality(versions) = 0
        BY <1>1, FS_EmptySet
      <3>2. {v.number : v \in versions} = {} /\ 1..0 = {}
        BY <1>1
      <3>3. QED BY <1>1, <3>1, <3>2 DEF Numbered
    <2>2. CurrentIsNewest
      BY <1>1 DEF CurrentIsNewest
    <2>3. \A c \in Clients : Ahead(req[c])
      BY <1>1, <1>3 DEF Ahead
    <2>4. \A c, d \in Clients : c # d => req[c].file # req[d].file \/ req[c].file = 0
      BY <1>3
    <2>5. QED BY <1>1, <2>1, <2>2, <2>3, <2>4 DEF VersionsInv
  <1>7. FilesInv
    <2>1. Lost = {} /\ Cardinality({}) = 0
      BY <1>1, FS_EmptySet DEF Lost
    <2>2. \A c \in Clients : Held(req[c])
      BY <1>3 DEF Held
    <2>3. QED BY <1>1, <1>5, <2>1, <2>2 DEF FilesInv
  <1>8. LinksInv
    BY <1>1 DEF LinksInv
  <1>9. QED BY <1>4, <1>6, <1>7, <1>8 DEF EvidenceInv

LEMMA StepInv ==
    ASSUME EvidenceAssumption, EvidenceInv, [Next]_vars
    PROVE  EvidenceInv'
  <1>1. CASE UNCHANGED vars
    <2>1. /\ item' = item /\ versions' = versions /\ links' = links /\ noted' = noted
          /\ files' = files /\ uploads' = uploads /\ req' = req /\ failures' = failures
          /\ beaten' = beaten /\ records' = records
      BY <1>1 DEF vars
    <2>2. Typed'
      BY <2>1 DEF EvidenceInv, Typed, TypeOK
    <2>3. VersionsInv'
      BY <2>1 DEF EvidenceInv, VersionsInv, Numbered, Exists, CurrentIsNewest, Highest, At,
                  Ahead, Listed
    <2>4. FilesInv'
      BY <2>1 DEF EvidenceInv, FilesInv, Lost, Orphans, InUse, Busy, Exists, Held, Listed
    <2>5. LinksInv'
      BY <2>1 DEF EvidenceInv, LinksInv, WillNote
    <2>6. QED BY <2>2, <2>3, <2>4, <2>5 DEF EvidenceInv
  <1>2. ASSUME NEW c \in Clients, NEW r, Quietly(c, r) PROVE EvidenceInv'
    BY <1>2, QuietInv
  <1>3. Typed /\ Numbered
    BY DEF EvidenceInv, VersionsInv
  <1>4. ASSUME NEW c \in Clients,
               \/ create(c) \/ uploadVersion(c) \/ update(c) \/ deleteDraft(c)
               \/ associate(c) \/ dissociate(c)
        PROVE  EvidenceInv'
    BY <1>2, <1>3, <1>4, StartsQuietly
  <1>5. ASSUME NEW c \in Clients,
               getById(c) \/ checkAgain(c) \/ getAgain(c) \/ findRecord(c) \/ respond(c)
        PROVE  EvidenceInv'
    BY <1>2, <1>3, <1>5, FindQuietly, CheckQuietly, GetAgainQuietly, FindRecordQuietly,
       RespondQuietly
  <1>6. ASSUME NEW c \in Clients,
               readNumber(c) \/ reread(c) \/ listStorageKeys(c) \/ eraseItem(c)
        PROVE  EvidenceInv'
    BY <1>2, <1>3, <1>6, NumberQuietly, RereadQuietly, KeysQuietly, EraseQuietly
  <1>7. ASSUME NEW c \in Clients,
               \/ insertItem(c) \/ put(c) \/ publish(c) \/ clean(c) \/ clearCurrent(c)
               \/ removeItem(c) \/ cleanupStorageForEvidence(c)
        PROVE  EvidenceInv'
    BY <1>7, InsertItemInv, PutInv, PublishInv, CleanInv, ClearCurrentInv, RemoveItemInv,
       CleanupInv
  <1>8. ASSUME NEW c \in Clients,
               \/ writeUpdate(c) \/ insertLink(c) \/ deleteLink(c) \/ insertRecord(c)
               \/ appendLinkActivities(c)
        PROVE  EvidenceInv'
    BY <1>8, WriteUpdateInv, InsertLinkInv, DeleteLinkInv, InsertRecordInv, AppendInv
  <1>9. ASSUME NEW c \in Clients,
               crash(c) \/ putFails(c) \/ databaseFails(c) \/ deleteFails(c)
        PROVE  EvidenceInv'
    BY <1>9, CrashInv, PutFailsInv, DatabaseFailsInv, DeleteFailsInv
  <1>10. QED BY <1>1, <1>4, <1>5, <1>6, <1>7, <1>8, <1>9, RecordElsewhereInv DEF Next

LEMMA Invariance == Spec => []EvidenceInv
  <1>1. Init => EvidenceInv
    BY InitInv, EvidenceAssumption
  <1>2. EvidenceInv /\ [Next]_vars => EvidenceInv'
    BY StepInv, EvidenceAssumption
  <1>3. QED BY <1>1, <1>2, PTL DEF Spec

(* The versions of an item are numbered 1, 2, 3 ... without a gap or a     *)
(* repetition, and its current one is the highest, unless a deletion       *)
(* cleared it or a failure did: for any number of uploads that read the    *)
(* same maximum (evidence-version-repository.ts:123).                      *)
THEOREM VersionsStayConsistent == Spec => []VersionsAreConsistent
  <1>1. EvidenceInv => VersionsAreConsistent
    BY DEF EvidenceInv, Typed, VersionsInv, Numbered, VersionsAreConsistent,
           VersionsAreNumbered
  <1>2. QED BY <1>1, Invariance, PTL

(* Files and versions disagree by failures only, one for each: no deletion *)
(* and no cleanup takes the file of a version that is still listed, and an *)
(* upload that loses its race removes its file                             *)
(* (evidence-version-service.ts:111).                                      *)
THEOREM FilesKeepMatching == Spec => []FilesMatchVersions
  <1>1. EvidenceInv => FilesMatchVersions
    <2>1. SUFFICES ASSUME EvidenceInv PROVE FilesMatchVersions
      OBVIOUS
    <2>2. Typed /\ VersionsInv /\ FilesInv
      BY <2>1 DEF EvidenceInv
    <2>3. IsFiniteSet(Lost) /\ failures \in Nat
      BY <2>2, FilesFacts
    <2> DEFINE gone == {v \in versions : v.file \notin files}
    <2>4. gone \in SUBSET Lost
      BY DEF Lost
    <2> HIDE DEF gone
    <2>5. Cardinality(gone) <= failures
      BY <2>2, <2>3, <2>4, NoMore DEF FilesInv
    <2>6. QED BY <2>2, <2>5 DEF FilesInv, FilesMatchVersions, Orphans, gone
  <1>2. QED BY <1>1, Invariance, PTL

(* An upload answered ok is listed as long as the item lives, and one      *)
(* answered "storage" without a failure left neither a version nor a file, *)
(* whatever the other requests did between its statements                  *)
(* (evidence-version-service.ts:85-120).                                   *)
THEOREM UploadAnswersStayTrue == Spec => []UploadAnswersAreTrue
  <1>1. EvidenceInv => UploadAnswersAreTrue
    <2>1. SUFFICES ASSUME EvidenceInv, NEW c \in Clients
                   PROVE  /\ At(c, "upload", "done") /\ req[c].outcome = "ok" /\ Exists =>
                               [number |-> req[c].number, file |-> req[c].file] \in versions
                          /\ At(c, "upload", "done") /\ req[c].outcome = "storage"
                               /\ failures = 0 =>
                               req[c].file \notin files
                               /\ \A v \in versions : v.file # req[c].file
      BY DEF UploadAnswersAreTrue
    <2>2. Ahead(req[c]) /\ Held(req[c])
      BY <2>1 DEF EvidenceInv, VersionsInv, FilesInv
    <2>3. QED BY <2>2 DEF Ahead, Held, Listed, At
  <1>2. QED BY <1>1, Invariance, PTL

(* A link that is on nobody's timeline, nor about to be put there, is the  *)
(* work of a failure or of the race in ensureControlRecord, whose SELECT   *)
(* and INSERT are two statements (evidence-service.ts:32).                 *)
THEOREM LinksStayAudited == Spec => []LinksAreAudited
  <1>1. EvidenceInv => LinksAreAudited
    BY DEF EvidenceInv, LinksInv, LinksAreAudited, WillNote, Busy
  <1>2. QED BY <1>1, Invariance, PTL

----
(***************************************************************************)
(* Proofs about EvidencePicker for every set of records, every page size,  *)
(* and every number of changes.  Fits says what the dialog, its searches   *)
(* and the table owe each other: a list that is Current is an answer to    *)
(* the filter on the screen, and the latest search is owed one that will   *)
(* be, wherever it is on its way.  The list lemmas say that a page after a *)
(* page is again a beginning of the sorted search, whatever was touched    *)
(* between the two.                                                        *)
(***************************************************************************)

(* The search of a table.                                                  *)
RowEntry(table, i) == [id |-> i, text |-> table[i].text, at |-> table[i].at]

Findable(table, f) ==
    {RowEntry(table, i) : i \in {j \in Records :
        table[j].status = "live" /\ ~table[j].linked /\ Matches(RowEntry(table, j), f)}}

(* What a list says of records is no newer than the table.                 *)
Seen(table, list) == \A n \in DOMAIN list : list[n].at <= table[list[n].id].at

(* Of what was found the list has everything, or, if there is more,        *)
(* everything up to its last row, but for the records touched.             *)
Holds(found, list, more, touched) ==
    \A e \in found : \/ \E n \in DOMAIN list : list[n] = e
                     \/ more /\ Newer(Last(list), e)
                     \/ e.id \in touched

(* The list is an answer to the search for f.                              *)
Answers(table, list, more, f, touched) ==
    /\ InOrder(list)
    /\ \A n \in DOMAIN list : Matches(list[n], f)
    /\ Holds(Findable(table, f), list, more, touched)

FilterOf(p) == [text |-> p.debounced, type |-> p.type]

(* The list is to be that of the filter on the screen.                     *)
Current(p) == p.open /\ ~p.due /\ ~p.loading /\ ~p.error /\ ~p.overtaken

(* What the picker will take the answer to its latest search for.          *)
Awaits(table, p, r) ==
    /\ p.open /\ ~p.error
    /\ ~p.due => r.filter = FilterOf(p)
    /\ r.mode = "replace" =>
          /\ p.loading /\ r.cursor = Null
          /\ r.answer = "page" =>
                Answers(table, r.page.items, r.page.more, r.filter, r.touched)
    /\ r.mode = "append" =>
          /\ p.more /\ r.cursor = Last(p.items)
          /\ ~p.overtaken => ~p.loading
          /\ r.answer = "page" /\ ~p.due /\ ~p.overtaken =>
                Answers(table, p.items \o r.page.items, r.page.more, r.filter, p.touched)

Dated(table, now, p, R) ==
    /\ \A i \in Records : table[i].at <= now
    /\ Seen(table, p.items)
    /\ \A r \in R : Seen(table, r.page.items)

Sequenced(p, R) ==
    /\ \A r \in R : r.id <= p.id
    /\ \A r, s \in R : r.id = s.id => r = s

Paged(p, R) ==
    /\ p.more => p.items # <<>>
    /\ \A r \in R : r.page.more => r.page.items # <<>>

Shut(p, R) ==
    ~p.open => ~p.due /\ p.query = p.debounced /\ \A r \in R : r.id # p.id

Shows(table, p) ==
    Current(p) => Answers(table, p.items, p.more, FilterOf(p), p.touched)

Fits(table, now, p, R) ==
    /\ Dated(table, now, p, R) /\ Sequenced(p, R) /\ Paged(p, R) /\ Shut(p, R)
    /\ Shows(table, p)
    /\ \A r \in R : r.id = p.id => Awaits(table, p, r)

PickerInv == PickerTypeOK /\ Fits(evidence, clock, picker, requests)
----
(* Sorting a finite set of entries.                                        *)

(* A set of numbers has a least one.                                       *)
LEMMA Least ==
    ASSUME NEW U, U \subseteq Nat, U # {}
    PROVE  \E x \in U : \A y \in U : x <= y
  <1> DEFINE R == OpToRel(<, Nat)
  <1>1. IsWellFoundedOn(R, Nat)
    BY NatLessThanWellFounded
  <1>2. \A x, y \in Nat : <<x, y>> \in R <=> x < y
    BY DEF OpToRel
  <1> HIDE DEF R
  <1>3. PICK x \in U : \A y \in U : <<y, x>> \notin R
    BY <1>1, WFMin
  <1>4. x \in Nat /\ \A y \in U : y \in Nat /\ ~ (y < x)
    BY <1>2, <1>3
  <1>5. \A y \in U : x <= y
    BY <1>4
  <1>6. QED BY <1>5

(* Induction for a set of numbers: the library's induction theorem is      *)
(* about a predicate, which the provers cannot be given.                   *)
LEMMA SetInduction ==
    ASSUME NEW T, 0 \in T, \A n \in Nat : n \in T => n + 1 \in T
    PROVE  Nat \subseteq T
  <1> DEFINE U == Nat \ T
  <1>1. SUFFICES ASSUME U # {} PROVE FALSE
    OBVIOUS
  <1>2. PICK x \in U : \A y \in U : x <= y
    <2>1. U \subseteq Nat
      OBVIOUS
    <2> HIDE DEF U
    <2>2. QED BY <1>1, <2>1, Least
  <1>3. x # 0 /\ x \in Nat /\ x - 1 \in Nat /\ ~(x <= x - 1)
    BY <1>2
  <1>4. x - 1 \in T
    BY <1>2, <1>3
  <1>5. QED BY <1>2, <1>3, <1>4

LEMMA EntryFields ==
    ASSUME PickerAssumption, NEW e \in Entries
    PROVE  e.id \in Nat /\ e.id \in Records /\ e.at \in Nat /\ e.text \in Texts
  BY DEF PickerAssumption, Entries

(* No two entries of a search are about one record.                        *)
Distinct(S) == \A e, g \in S : e.id = g.id => e = g

LEMMA NewerOrders ==
    ASSUME PickerAssumption, NEW e \in Entries, NEW g \in Entries, NEW h \in Entries
    PROVE  /\ ~Newer(e, e)
           /\ Newer(e, g) /\ Newer(g, h) => Newer(e, h)
           /\ e.id # g.id => Newer(e, g) \/ Newer(g, e)
           /\ Newer(e, g) => ~Newer(g, e)
  <1>1. e.id \in Nat /\ g.id \in Nat /\ h.id \in Nat /\ e.at \in Nat /\ g.at \in Nat /\ h.at \in Nat
    BY EntryFields
  <1>2. QED BY <1>1 DEF Newer

LEMMA Oldest ==
    ASSUME PickerAssumption, NEW S, S \subseteq Entries, Distinct(S), S # {}
    PROVE  \E x \in S : \A y \in S \ {x} : Newer(y, x)
  <1> DEFINE U == {e.at : e \in S}
  <1>1. \A e \in S : e.at \in Nat /\ e.id \in Nat
    BY EntryFields
  <1>2. PICK a \in U : \A b \in U : a <= b
    <2>1. U \subseteq Nat /\ U # {}
      BY <1>1
    <2> HIDE DEF U
    <2>2. QED BY <2>1, Least
  <1> DEFINE V == {e.id : e \in {g \in S : g.at = a}}
  <1>3. PICK i \in V : \A j \in V : i <= j
    <2>1. V \subseteq Nat /\ V # {}
      BY <1>1, <1>2
    <2> HIDE DEF V
    <2>2. QED BY <2>1, Least
  <1>4. PICK x \in S : x.at = a /\ x.id = i
    BY <1>3
  <1>5. ASSUME NEW y \in S \ {x} PROVE Newer(y, x)
    <2>1. a <= y.at /\ (y.at = a => i <= y.id) /\ y.id # i
      BY <1>2, <1>3, <1>4, <1>5 DEF Distinct
    <2>2. a \in Nat /\ i \in Nat /\ y.at \in Nat /\ y.id \in Nat
      BY <1>1, <1>4
    <2>3. QED BY <1>4, <2>1, <2>2 DEF Newer
  <1>6. QED BY <1>4, <1>5

IsOrdering(rows, S) ==
    /\ rows \in [1..Cardinality(S) -> S]
    /\ \A m, n \in DOMAIN rows : m < n => Newer(rows[m], rows[n])

(* The oldest entry goes behind the others.                                *)
LEMMA OrderingExists ==
    ASSUME PickerAssumption, NEW S, S \subseteq Entries, Distinct(S), IsFiniteSet(S)
    PROVE  \E rows : IsOrdering(rows, S)
  <1> DEFINE Sorts(C) ==
               C \subseteq Entries /\ Distinct(C) /\ IsFiniteSet(C) => \E rows : IsOrdering(rows, C)
             T == {n \in Nat : \A C : Cardinality(C) = n => Sorts(C)}
  <1>1. 0 \in T
    <2>1. ASSUME NEW C, Cardinality(C) = 0, IsFiniteSet(C) PROVE IsOrdering(<<>>, C)
      <3>1. C = {}
        BY <2>1, FS_EmptySet
      <3>2. 1..0 = {}
        OBVIOUS
      <3>3. QED BY <2>1, <3>1, <3>2 DEF IsOrdering
    <2>2. QED BY <2>1
  <1>2. ASSUME NEW n \in Nat, n \in T, NEW C, Cardinality(C) = n + 1,
               C \subseteq Entries, Distinct(C), IsFiniteSet(C)
        PROVE  \E rows : IsOrdering(rows, C)
    <2>1. C # {}
      BY <1>2, FS_EmptySet
    <2>2. PICK x \in C : \A y \in C \ {x} : Newer(y, x)
      BY <1>2, <2>1, Oldest
    <2> DEFINE D == C \ {x}
    <2>3. IsFiniteSet(D) /\ Cardinality(D) = n
      <3>1. IsFiniteSet(D) /\ Cardinality(D) = Cardinality(C) - 1
        BY <1>2, <2>2, FS_RemoveElement
      <3>2. QED BY <1>2, <3>1
    <2>4. D \subseteq Entries /\ Distinct(D)
      BY <1>2 DEF Distinct
    <2>5. Sorts(D)
      BY <1>2, <2>3
    <2>6. PICK rows : IsOrdering(rows, D)
      BY <2>3, <2>4, <2>5
    <2> DEFINE more == [m \in 1..(n + 1) |-> IF m = n + 1 THEN x ELSE rows[m]]
    <2>7. rows \in [1..n -> D] /\ \A m, k \in 1..n : m < k => Newer(rows[m], rows[k])
      BY <2>3, <2>6 DEF IsOrdering
    <2>8. more \in [1..(n + 1) -> C]
      BY <2>7
    <2>9. ASSUME NEW m \in 1..(n + 1), NEW k \in 1..(n + 1), m < k
          PROVE  Newer(more[m], more[k])
      <3>1. m \in 1..n /\ more[m] = rows[m] /\ rows[m] \in C \ {x}
        BY <2>7, <2>9
      <3>2. CASE k = n + 1
        BY <2>2, <3>1, <3>2
      <3>3. CASE k # n + 1
        BY <2>7, <2>9, <3>1, <3>3
      <3>4. QED BY <3>2, <3>3
    <2> HIDE DEF more
    <2>10. QED BY <1>2, <2>8, <2>9 DEF IsOrdering
  <1>3. \A n \in Nat : n \in T => n + 1 \in T
    <2> SUFFICES ASSUME NEW n \in Nat, n \in T PROVE n + 1 \in T
      OBVIOUS
    <2>1. \A C : Cardinality(C) = n + 1 => Sorts(C)
      BY <1>2
    <2> HIDE DEF Sorts
    <2>2. QED BY <2>1
  <1>4. Nat \subseteq T
    <2> HIDE DEF T
    <2>1. QED BY <1>1, <1>3, SetInduction
  <1>5. Cardinality(S) \in Nat
    BY FS_CardinalityType
  <1>6. Sorts(S)
    <2> HIDE DEF Sorts
    <2>1. QED BY <1>4, <1>5
  <1>7. QED BY <1>6

LEMMA OrderedFacts ==
    ASSUME PickerAssumption, NEW S, S \subseteq Entries, Distinct(S), IsFiniteSet(S)
    PROVE  /\ Ordered(S) \in Seq(S)
           /\ \A m, n \in DOMAIN Ordered(S) : m < n => Newer(Ordered(S)[m], Ordered(S)[n])
           /\ \A e \in S : \E n \in DOMAIN Ordered(S) : Ordered(S)[n] = e
  <1> DEFINE rows == Ordered(S)
  <1>1. IsOrdering(rows, S)
    <2>1. \E o \in [1..Cardinality(S) -> S] :
             \A m, n \in DOMAIN o : m < n => Newer(o[m], o[n])
      BY OrderingExists DEF IsOrdering
    <2>2. QED BY <2>1 DEF Ordered, IsOrdering
  <1> HIDE DEF rows
  <1>2. Cardinality(S) \in Nat
    BY FS_CardinalityType
  <1>3. rows \in Seq(S)
    BY <1>1, <1>2 DEF IsOrdering
  <1>4. rows \in Injection(1..Cardinality(S), S)
    <2>1. ASSUME NEW m \in 1..Cardinality(S), NEW n \in 1..Cardinality(S), rows[m] = rows[n]
          PROVE  m = n
      <3>1. \A e \in S : ~Newer(e, e)
        BY NewerOrders
      <3>2. ~(m < n) /\ ~(n < m)
        BY <1>1, <2>1, <3>1 DEF IsOrdering
      <3>3. QED BY <1>2, <3>2
    <2>2. rows \in [1..Cardinality(S) -> S]
      BY <1>1 DEF IsOrdering
    <2>3. QED BY <2>1, <2>2 DEF Injection, IsInjective
  <1>5. rows \in Surjection(1..Cardinality(S), S)
    <2>1. IsFiniteSet(1..Cardinality(S)) /\ Cardinality(1..Cardinality(S)) = Cardinality(S)
      BY <1>2, FS_Interval
    <2>2. QED BY <1>4, <2>1, FS_Injection
  <1>6. \A e \in S : \E n \in DOMAIN rows : rows[n] = e
    BY <1>1, <1>5 DEF Surjection, IsOrdering
  <1>7. QED BY <1>1, <1>3, <1>6 DEF rows, IsOrdering
----
(* The search.                                                             *)

LEMMA EligibleFacts ==
    ASSUME PickerAssumption, PickerTypeOK, NEW f
    PROVE  /\ Eligible(f) \subseteq Entries /\ Distinct(Eligible(f)) /\ IsFiniteSet(Eligible(f))
           /\ \A e \in Eligible(f) : e = Entry(e.id) /\ Matches(e, f) /\ e.at = evidence[e.id].at
  <1> DEFINE J == {j \in Records : /\ evidence[j].status = "live" /\ ~evidence[j].linked
                                   /\ Matches(Entry(j), f)}
  <1>1. \A i \in Records : Entry(i) \in Entries /\ Entry(i).id = i /\ Entry(i).at = evidence[i].at
    BY DEF Entry, Entries, PickerTypeOK, Rows
  <1>2. Eligible(f) = {Entry(i) : i \in J}
    BY DEF Eligible
  <1>3. IsFiniteSet(J)
    BY FS_Subset DEF PickerAssumption
  <1>4. IsFiniteSet({Entry(i) : i \in J})
    <2> DEFINE T == {Entry(i) : i \in J}
               map == [i \in J |-> Entry(i)]
    <2>1. map \in Surjection(J, T)
      BY DEF Surjection
    <2> HIDE DEF J, T, map
    <2>2. IsFiniteSet(T)
      BY <1>3, <2>1, FS_Surjection
    <2>3. QED BY <2>2 DEF T
  <1>5. Eligible(f) \subseteq Entries
    BY <1>1, <1>2
  <1>6. \A e \in Eligible(f) : e = Entry(e.id) /\ Matches(e, f) /\ e.at = evidence[e.id].at
    BY <1>1, <1>2
  <1>7. Distinct(Eligible(f))
    BY <1>6 DEF Distinct
  <1>8. QED BY <1>2, <1>4, <1>5, <1>6, <1>7

(* How many rows a page takes.                                             *)
LEMMA Limited ==
    ASSUME NEW n \in Nat, NEW limit \in Nat \ {0}, NEW k,
           k = IF n > limit THEN limit ELSE n
    PROVE  /\ k \in Nat /\ k <= n
           /\ n > limit => k = limit /\ k \in 1..k /\ k < n
           /\ \A m \in 1..k : m \in 1..n
           /\ \A m \in 1..n : m \in 1..k \/ (n > limit /\ k < m)
  OBVIOUS

(* What one SELECT answers.                                                *)
LEMMA SearchFacts ==
    ASSUME PickerAssumption, PickerTypeOK, NEW f, NEW cursor
    PROVE  LET found == {e \in Eligible(f) : cursor = Null \/ After(cursor, e)}
               page == search(f, cursor)
           IN  /\ page \in Pages
               /\ page.more => page.items # <<>>
               /\ \A n \in DOMAIN page.items : page.items[n] \in found
               /\ InOrder(page.items)
               /\ \A e \in found : \/ \E n \in DOMAIN page.items : page.items[n] = e
                                   \/ page.more /\ Newer(Last(page.items), e)
  <1> DEFINE found == {e \in Eligible(f) : cursor = Null \/ After(cursor, e)}
             rows == Ordered(found)
             k == IF Len(rows) > PageSize THEN PageSize ELSE Len(rows)
             items == SubSeq(rows, 1, k)
             page == search(f, cursor)
  <1>1. found \subseteq Entries /\ Distinct(found) /\ IsFiniteSet(found)
    <2>1. found \in SUBSET Eligible(f)
      OBVIOUS
    <2>2. IsFiniteSet(found)
      BY <2>1, EligibleFacts, FS_Subset
    <2>3. QED BY <2>1, <2>2, EligibleFacts DEF Distinct
  <1> DEFINE isLong == Len(rows) > PageSize
  <1>2. page = [items |-> items, more |-> isLong]
    BY DEF search
  <1>3. /\ rows \in Seq(found)
        /\ \A m, n \in DOMAIN rows : m < n => Newer(rows[m], rows[n])
        /\ \A e \in found : \E n \in DOMAIN rows : rows[n] = e
    <2> HIDE DEF found
    <2>1. QED BY <1>1, OrderedFacts
  <1> HIDE DEF rows, found
  <1>0. page.items = items /\ page.more = isLong /\ isLong \in BOOLEAN
    <2>1. isLong \in BOOLEAN
      OBVIOUS
    <2> HIDE DEF isLong
    <2>2. QED BY <1>2, <2>1
  <1>4. Len(rows) \in Nat /\ DOMAIN rows = 1..Len(rows) /\ PageSize \in Nat \ {0}
    BY <1>3 DEF PickerAssumption
  <1>5. /\ k \in Nat /\ k <= Len(rows)
        /\ Len(rows) > PageSize => k = PageSize /\ k \in 1..k /\ k < Len(rows)
        /\ \A m \in 1..k : m \in 1..Len(rows)
        /\ \A m \in 1..Len(rows) : m \in 1..k \/ (Len(rows) > PageSize /\ k < m)
    BY <1>4, Limited
  <1> HIDE DEF k
  <1>6. \A n \in 1..k : n \in DOMAIN rows /\ rows[n] \in found
    BY <1>3, <1>4, <1>5
  <1>7. /\ items \in Seq(found) /\ Len(items) = k
        /\ \A n \in 1..k : items[n] = rows[n]
    <2>1. /\ SubSeq(rows, 1, k) \in Seq(found)
          /\ Len(SubSeq(rows, 1, k)) = IF 1 <= k THEN k - 1 + 1 ELSE 0
          /\ \A n \in 1..(k - 1 + 1) : SubSeq(rows, 1, k)[n] = rows[1 + n - 1]
      BY <1>5, <1>6, SubSeqProperties
    <2>2. QED BY <1>5, <2>1
  <1> HIDE DEF items
  <1>8. DOMAIN items = 1..k
    BY <1>7
  <1>9. page \in Pages
    <2>1. items \in Seq(Entries)
      BY <1>1, <1>7
    <2>2. QED BY <1>2, <2>1 DEF Pages
  <1>10. page.more => page.items # <<>> /\ Last(page.items) = rows[k]
    <2>1. page.more => Len(items) # 0
      BY <1>0, <1>4, <1>5, <1>7
    <2>2. page.more => k \in 1..k
      BY <1>0, <1>5
    <2>3. QED BY <1>2, <1>7, <2>1, <2>2 DEF Last
  <1>11. \A n \in DOMAIN page.items : page.items[n] \in found
    BY <1>2, <1>6, <1>7, <1>8
  <1>12. InOrder(page.items)
    <2>1. ASSUME NEW m \in 1..k, NEW n \in 1..k, m < n
          PROVE  Newer(items[m], items[n]) /\ items[m].id # items[n].id
      <3>1. Newer(items[m], items[n])
        BY <1>3, <1>6, <1>7, <2>1
      <3>2. items[m] \in found /\ items[n] \in found
        BY <1>6, <1>7
      <3>3. items[m] # items[n]
        BY <1>1, <3>1, <3>2, NewerOrders
      <3>4. QED BY <1>1, <3>1, <3>2, <3>3 DEF Distinct
    <2>2. QED BY <1>2, <1>8, <2>1 DEF InOrder
  <1>13. ASSUME NEW e \in found
         PROVE  \/ \E n \in DOMAIN page.items : page.items[n] = e
                \/ page.more /\ Newer(Last(page.items), e)
    <2>1. PICK n \in 1..Len(rows) : rows[n] = e
      BY <1>3, <1>4
    <2>2. CASE n \in 1..k
      BY <1>2, <1>7, <1>8, <2>1, <2>2
    <2>3. CASE Len(rows) > PageSize /\ k < n
      <3>1. k \in DOMAIN rows /\ n \in DOMAIN rows
        BY <1>4, <1>5, <2>1, <2>3
      <3>2. Newer(rows[k], e)
        BY <1>3, <2>1, <2>3, <3>1
      <3>3. QED BY <1>0, <1>10, <2>3, <3>2
    <2>4. QED BY <1>5, <2>1, <2>2, <2>3
  <1>14. QED BY <1>9, <1>10, <1>11, <1>12, <1>13 DEF found
----
(* Answers and the table.                                                  *)

LEMMA EligibleIsFound ==
    ASSUME NEW f
    PROVE  Eligible(f) = Findable(evidence, f)
  BY DEF Eligible, Findable, Entry, RowEntry

(* Another row of a record touches what was found of that record.          *)
LEMMA FoundChanges ==
    ASSUME NEW table \in [Records -> Rows], NEW i \in Records, NEW row \in Rows, NEW f,
           NEW e \in Findable([table EXCEPT ![i] = row], f), e.id # i
    PROVE  e \in Findable(table, f)
  <1> DEFINE next == [table EXCEPT ![i] = row]
  <1>1. \A j \in Records \ {i} : next[j] = table[j]
    OBVIOUS
  <1> HIDE DEF next
  <1>2. PICK j \in Records : /\ e = RowEntry(next, j)
                             /\ next[j].status = "live" /\ ~next[j].linked
                             /\ Matches(RowEntry(next, j), f)
    BY DEF Findable, next
  <1>3. j # i
    BY <1>2 DEF RowEntry
  <1>4. RowEntry(next, j) = RowEntry(table, j)
    BY <1>1, <1>3 DEF RowEntry
  <1>5. QED BY <1>1, <1>2, <1>3, <1>4 DEF Findable

LEMMA AnswersStay ==
    ASSUME NEW table \in [Records -> Rows], NEW i \in Records, NEW row \in Rows,
           NEW list, NEW more, NEW f, NEW touched, Answers(table, list, more, f, touched)
    PROVE  Answers([table EXCEPT ![i] = row], list, more, f, touched \cup {i})
  <1>1. \A e \in Findable([table EXCEPT ![i] = row], f) : e.id = i \/ e \in Findable(table, f)
    BY FoundChanges
  <1>2. QED BY <1>1 DEF Answers, Holds

LEMMA SeenStays ==
    ASSUME PickerAssumption, NEW table \in [Records -> Rows], NEW i \in Records, NEW row \in Rows,
           table[i].at <= row.at, NEW list \in Seq(Entries), Seen(table, list)
    PROVE  Seen([table EXCEPT ![i] = row], list)
  <1> DEFINE next == [table EXCEPT ![i] = row]
  <1>1. \A j \in Records : table[j].at <= next[j].at /\ table[j].at \in Nat /\ next[j].at \in Nat
    BY DEF Rows
  <1> HIDE DEF next
  <1>2. \A n \in DOMAIN list : list[n].id \in Records /\ list[n].at \in Nat
    <2>1. \A n \in DOMAIN list : list[n] \in Entries
      OBVIOUS
    <2>2. QED BY <2>1, EntryFields
  <1>3. ASSUME NEW n \in DOMAIN list PROVE list[n].at <= next[list[n].id].at
    <2>1. list[n].at <= table[list[n].id].at
      BY DEF Seen
    <2>2. /\ list[n].at \in Nat /\ table[list[n].id].at \in Nat /\ next[list[n].id].at \in Nat
          /\ table[list[n].id].at <= next[list[n].id].at
      BY <1>1, <1>2
    <2>3. QED BY <2>1, <2>2
  <1>4. QED BY <1>3 DEF Seen, next

LEMMA NothingSeen ==
    ASSUME NEW table
    PROVE  Seen(table, <<>>)
  BY DEF Seen

(* The first page of a search.                                             *)
LEMMA FirstPage ==
    ASSUME PickerAssumption, PickerTypeOK, NEW f
    PROVE  /\ Answers(evidence, search(f, Null).items, search(f, Null).more, f, {})
           /\ Seen(evidence, search(f, Null).items)
  <1> DEFINE page == search(f, Null)
  <1>1. /\ \A n \in DOMAIN page.items : page.items[n] \in Eligible(f)
        /\ InOrder(page.items)
        /\ \A e \in Eligible(f) : \/ \E n \in DOMAIN page.items : page.items[n] = e
                                  \/ page.more /\ Newer(Last(page.items), e)
    BY SearchFacts
  <1> HIDE DEF page
  <1>2. \A e \in Eligible(f) : Matches(e, f) /\ e.at = evidence[e.id].at /\ e \in Entries
    BY EligibleFacts
  <1>3. ASSUME NEW e \in Eligible(f) PROVE e.at <= evidence[e.id].at
    <2>1. e.at \in Nat /\ e.at = evidence[e.id].at
      BY <1>2, EntryFields
    <2>2. QED BY <2>1
  <1>4. Answers(evidence, page.items, page.more, f, {})
    BY <1>1, <1>2, EligibleIsFound DEF Answers, Holds
  <1>5. Seen(evidence, page.items)
    BY <1>1, <1>3 DEF Seen
  <1>6. QED BY <1>4, <1>5 DEF page

(* A page behind the last row of a list: what was changed since it was     *)
(* listed is not older.                                                    *)
LEMMA NextPage ==
    ASSUME PickerAssumption, PickerTypeOK, NEW f, NEW touched,
           NEW list \in Seq(Entries), list # <<>>, Seen(evidence, list),
           Answers(evidence, list, TRUE, f, touched)
    PROVE  LET page == search(f, Last(list))
           IN  /\ Answers(evidence, list \o page.items, page.more, f, touched)
               /\ Seen(evidence, page.items)
  <1> DEFINE cursor == Last(list)
             page == search(f, cursor)
             all == list \o page.items
             l == Len(list)
  <1>1. cursor \in Entries /\ cursor # Null /\ l \in DOMAIN list /\ cursor = list[l] /\ l \in Nat
        /\ DOMAIN list = 1..l
    BY DEF Last, PickerAssumption
  <1> HIDE DEF cursor, l
  <1>2. /\ page \in Pages
        /\ page.more => page.items # <<>>
        /\ \A n \in DOMAIN page.items : /\ page.items[n] \in Eligible(f)
                                        /\ Newer(cursor, page.items[n])
        /\ InOrder(page.items)
        /\ \A e \in Eligible(f) : Newer(cursor, e) =>
              \/ \E n \in DOMAIN page.items : page.items[n] = e
              \/ page.more /\ Newer(Last(page.items), e)
    BY <1>1, SearchFacts DEF After
  <1> HIDE DEF page
  <1>3. page.items \in Seq(Entries)
    BY <1>2 DEF Pages
  <1> DEFINE k == Len(page.items)
  <1>4. k \in Nat /\ DOMAIN page.items = 1..k
    BY <1>3
  <1>5. /\ DOMAIN all = 1..(l + k)
        /\ \A n \in 1..l : all[n] = list[n]
        /\ \A n \in 1..k : all[l + n] = page.items[n]
        /\ \A n \in 1..(l + k) : n \in 1..l \/ (n - l \in 1..k /\ n = l + (n - l))
    <2>1. /\ all \in Seq(Entries) /\ Len(all) = l + k
          /\ \A n \in 1..(l + k) : all[n] = IF n <= l THEN list[n] ELSE page.items[n - l]
      BY <1>3, ConcatProperties DEF l
    <2> HIDE DEF all, k
    <2>2. DOMAIN all = 1..(l + k)
      BY <2>1
    <2>3. \A n \in 1..l : n \in 1..(l + k) /\ n <= l
      BY <1>1, <1>4
    <2>4. \A n \in 1..k : l + n \in 1..(l + k) /\ ~(l + n <= l) /\ (l + n) - l = n
      BY <1>1, <1>4
    <2>5. \A n \in 1..(l + k) : n \in 1..l \/ (n - l \in 1..k /\ n = l + (n - l))
      BY <1>1, <1>4
    <2>6. QED BY <2>1, <2>2, <2>3, <2>4, <2>5
  <1> HIDE DEF all, k
  <1>6. \A e \in Eligible(f) : Matches(e, f) /\ e.at = evidence[e.id].at /\ e \in Entries
    BY EligibleFacts
  <1>7. ASSUME NEW m \in 1..l, NEW n \in 1..k
        PROVE  Newer(list[m], page.items[n]) /\ list[m].id # page.items[n].id
    <2> DEFINE a == list[m]
               e == page.items[n]
    <2>1. a \in Entries /\ e \in Entries /\ Newer(cursor, e) /\ e.at = evidence[e.id].at
          /\ a.at <= evidence[a.id].at
      BY <1>1, <1>2, <1>4, <1>6 DEF Seen
    <2>2. a = cursor \/ Newer(a, cursor)
      BY <1>1 DEF Answers, InOrder
    <2> HIDE DEF a, e
    <2>3. Newer(a, e)
      BY <1>1, <2>1, <2>2, NewerOrders
    <2>4. a.id # e.id
      <3>1. a.at \in Nat /\ e.at \in Nat /\ a.id \in Nat /\ e.id \in Nat
        BY <2>1, EntryFields
      <3>2. SUFFICES ASSUME a.id = e.id PROVE FALSE
        OBVIOUS
      <3>3. a.at <= e.at
        BY <2>1, <3>2
      <3>4. QED BY <2>3, <3>1, <3>2, <3>3 DEF Newer
    <2>5. QED BY <2>3, <2>4 DEF a, e
  <1>8. InOrder(all)
    <2> SUFFICES ASSUME NEW m \in 1..(l + k), NEW n \in 1..(l + k), m < n
                 PROVE  Newer(all[m], all[n]) /\ all[m].id # all[n].id
      BY <1>5 DEF InOrder
    <2>1. CASE m \in 1..l /\ n \in 1..l
      BY <1>1, <1>5, <2>1 DEF Answers, InOrder
    <2>2. CASE m \in 1..l /\ n - l \in 1..k /\ n = l + (n - l)
      BY <1>5, <1>7, <2>2
    <2>3. CASE m - l \in 1..k /\ n - l \in 1..k /\ m = l + (m - l) /\ n = l + (n - l)
      <3>1. m - l < n - l
        BY <1>1
      <3>2. all[m] = page.items[m - l] /\ all[n] = page.items[n - l]
        BY <1>5, <2>3
      <3>3. QED BY <1>2, <1>4, <2>3, <3>1, <3>2 DEF InOrder
    <2>4. ~(m - l \in 1..k /\ n \in 1..l)
      BY <1>1, <1>4
    <2>5. QED BY <1>5, <2>1, <2>2, <2>3, <2>4
  <1>9. \A n \in DOMAIN all : Matches(all[n], f)
    <2>1. \A n \in 1..l : Matches(list[n], f)
      BY <1>1 DEF Answers
    <2>2. \A n \in 1..k : Matches(page.items[n], f)
      BY <1>2, <1>4, <1>6
    <2>3. QED BY <1>5, <2>1, <2>2
  <1>10. page.more => Last(all) = Last(page.items)
    <2>1. page.more => k \in 1..k /\ Len(page.items) = k
      BY <1>2, <1>3, <1>4 DEF k
    <2>2. Len(all) = l + k
      BY <1>3, ConcatProperties DEF all, k, l
    <2>3. QED BY <1>5, <2>1, <2>2 DEF Last
  <1>11. Holds(Findable(evidence, f), all, page.more, touched)
    <2> SUFFICES ASSUME NEW e \in Eligible(f), e.id \notin touched,
                        ~(page.more /\ Newer(Last(all), e))
                 PROVE  \E n \in DOMAIN all : all[n] = e
      BY EligibleIsFound DEF Holds
    <2>1. (\E n \in DOMAIN list : list[n] = e) \/ Newer(cursor, e)
      BY EligibleIsFound DEF Answers, Holds, cursor
    <2>2. CASE \E n \in DOMAIN list : list[n] = e
      <3>1. PICK n \in 1..l : list[n] = e
        BY <1>1, <2>2
      <3>2. n \in 1..(l + k)
        BY <1>1, <1>4
      <3>3. QED BY <1>5, <3>1, <3>2
    <2>3. CASE Newer(cursor, e)
      <3>1. PICK n \in 1..k : page.items[n] = e
        BY <1>2, <1>4, <1>10, <2>3
      <3>2. l + n \in 1..(l + k)
        BY <1>1, <1>4
      <3>3. QED BY <1>5, <3>1, <3>2
    <2>4. QED BY <2>1, <2>2, <2>3
  <1>12. Seen(evidence, page.items)
    <2>1. ASSUME NEW e \in Eligible(f) PROVE e.at <= evidence[e.id].at
      <3>1. e.at \in Nat /\ e.at = evidence[e.id].at
        BY <1>6, EntryFields
      <3>2. QED BY <3>1
    <2>2. QED BY <1>2, <2>1 DEF Seen
  <1>13. Answers(evidence, all, page.more, f, touched)
    BY <1>8, <1>9, <1>11 DEF Answers
  <1>14. QED BY <1>12, <1>13 DEF all, page, cursor
----
(* What the steps do to the dialog and to its searches.                    *)

WellTyped(table, now, p, R) ==
    /\ table \in [Records -> Rows] /\ now \in Nat
    /\ p \in Pickers /\ \A r \in R : r \in Searches

LEMMA PickerFields ==
    ASSUME NEW p \in Pickers
    PROVE  /\ p.open \in BOOLEAN /\ p.due \in BOOLEAN /\ p.more \in BOOLEAN
           /\ p.loading \in BOOLEAN /\ p.error \in BOOLEAN /\ p.overtaken \in BOOLEAN
           /\ p.items \in Seq(Entries) /\ p.id \in Nat /\ FilterOf(p) \in Filters
  BY DEF Pickers, FilterOf, Filters

LEMMA SearchFields ==
    ASSUME NEW r \in Searches
    PROVE  /\ r.id \in Nat /\ r.mode \in {"replace", "append"} /\ r.page \in Pages
           /\ r.page.items \in Seq(Entries) /\ r.page.more \in BOOLEAN
           /\ r.filter \in Filters /\ r.cursor \in Entries \cup {Null}
           /\ r.answer \in {"none", "page", "refused", "thrown"}
  BY DEF Searches, Pages

(* Typing, choosing a filter and opening the dialog leave its list alone;  *)
(* a search follows, or its filter stays.                                  *)
LEMMA FilterMoves ==
    ASSUME NEW table, NEW now, NEW R, NEW p, NEW q, Fits(table, now, p, R),
           q.items = p.items, q.more = p.more, q.loading = p.loading, q.error = p.error,
           q.id = p.id, q.touched = p.touched, q.overtaken = p.overtaken,
           q.open, q.due \/ (~q.due /\ ~p.due /\ FilterOf(q) = FilterOf(p) /\ p.open)
    PROVE  Fits(table, now, q, R)
  <1>1. Dated(table, now, q, R) /\ Sequenced(q, R) /\ Paged(q, R)
    BY DEF Fits, Dated, Sequenced, Paged
  <1>2. Shut(q, R)
    BY DEF Shut
  <1>3. Shows(table, q)
    BY DEF Fits, Shows, Current
  <1>4. ASSUME NEW r \in R, r.id = q.id PROVE Awaits(table, q, r)
    <2>1. Awaits(table, p, r)
      BY <1>4 DEF Fits
    <2>2. CASE q.due
      BY <2>1, <2>2 DEF Awaits
    <2>3. CASE ~q.due
      BY <2>1, <2>3 DEF Awaits
    <2>4. QED BY <2>2, <2>3
  <1>5. QED BY <1>1, <1>2, <1>3, <1>4 DEF Fits

(* A search of its own number is sent.                                     *)
LEMMA SearchMoves ==
    ASSUME NEW table, NEW now, NEW R, NEW p, NEW q, NEW new,
           WellTyped(table, now, p, R), Fits(table, now, p, R),
           p.open, q.open, ~q.error, FilterOf(q) = FilterOf(p),
           q.items = p.items, q.more = p.more, q.touched = p.touched, q.id = p.id + 1,
           new.id = q.id, new.filter = FilterOf(q), new.answer = "none", new.page = NoPage,
           \/ new.mode = "replace" /\ new.cursor = Null /\ q.loading
           \/ /\ new.mode = "append" /\ new.cursor = Last(p.items) /\ p.more /\ ~p.error
              /\ q.due = p.due /\ q.loading = p.loading
              /\ ~q.overtaken => ~p.overtaken /\ ~p.loading
    PROVE  Fits(table, now, q, R \cup {new})
  <1>1. p.id \in Nat /\ \A r \in R : r.id \in Nat /\ r.id <= p.id
    BY PickerFields, SearchFields DEF WellTyped, Fits, Sequenced
  <1>2. q.id \in Nat /\ p.id < q.id /\ \A r \in R : r.id < q.id
    BY <1>1
  <1>3. Dated(table, now, q, R \cup {new})
    BY NothingSeen DEF Fits, Dated, NoPage
  <1>4. Sequenced(q, R \cup {new})
    <2>1. \A r \in R : r.id <= q.id /\ r.id # new.id
      BY <1>1, <1>2
    <2>2. new.id <= q.id
      BY <1>2
    <2>3. QED BY <2>1, <2>2 DEF Fits, Sequenced
  <1>5. Paged(q, R \cup {new})
    BY DEF Fits, Paged, NoPage
  <1>6. Shut(q, R \cup {new})
    BY DEF Shut
  <1>7. Shows(table, q)
    BY DEF Fits, Shows, Current
  <1>8. Awaits(table, q, new)
    BY DEF Awaits
  <1>9. \A r \in R : r.id # q.id
    BY <1>1, <1>2
  <1>10. QED BY <1>3, <1>4, <1>5, <1>6, <1>7, <1>8, <1>9 DEF Fits

(* A closed dialog awaits nothing.                                         *)
LEMMA ResetMoves ==
    ASSUME NEW table, NEW now, NEW R, NEW p,
           WellTyped(table, now, p, R), Dated(table, now, p, R), Sequenced(p, R), Paged(p, R)
    PROVE  Fits(table, now, Reset(p), R)
  <1> DEFINE q == Reset(p)
  <1>1. /\ q.open = FALSE /\ q.due = FALSE /\ q.items = <<>> /\ q.more = FALSE
        /\ q.query = q.debounced /\ q.id = p.id + 1
    BY DEF Reset, WellTyped, Pickers
  <1>2. p.id \in Nat /\ \A r \in R : r.id \in Nat /\ r.id <= p.id
    BY PickerFields, SearchFields DEF WellTyped, Sequenced
  <1> HIDE DEF q
  <1>3. \A r \in R : r.id <= q.id /\ r.id # q.id
    BY <1>1, <1>2
  <1>4. Dated(table, now, q, R)
    BY <1>1, NothingSeen DEF Dated
  <1>5. Sequenced(q, R)
    BY <1>3 DEF Sequenced
  <1>6. Paged(q, R)
    BY <1>1 DEF Paged
  <1>7. Shut(q, R) /\ Shows(table, q)
    BY <1>1, <1>3 DEF Shut, Shows, Current
  <1>8. QED BY <1>3, <1>4, <1>5, <1>6, <1>7 DEF Fits, q

LEMMA ConcatSeen ==
    ASSUME NEW table, NEW list \in Seq(Entries), NEW more \in Seq(Entries),
           Seen(table, list), Seen(table, more)
    PROVE  Seen(table, list \o more)
  <1> DEFINE all == list \o more
  <1>1. all \in Seq(Entries) /\ DOMAIN all = 1..(Len(list) + Len(more))
        /\ \A n \in 1..(Len(list) + Len(more)) :
              all[n] = IF n <= Len(list) THEN list[n] ELSE more[n - Len(list)]
    BY ConcatProperties
  <1> HIDE DEF all
  <1>2. ASSUME NEW n \in DOMAIN all
        PROVE  \/ n \in DOMAIN list /\ all[n] = list[n]
               \/ n - Len(list) \in DOMAIN more /\ all[n] = more[n - Len(list)]
    <2>1. Len(list) \in Nat /\ Len(more) \in Nat
          /\ DOMAIN list = 1..Len(list) /\ DOMAIN more = 1..Len(more)
      OBVIOUS
    <2>2. CASE n <= Len(list)
      BY <1>1, <2>1, <2>2
    <2>3. CASE ~(n <= Len(list))
      <3>1. n - Len(list) \in 1..Len(more)
        BY <1>1, <2>1, <2>3
      <3>2. QED BY <1>1, <2>1, <2>3, <3>1
    <2>4. QED BY <2>2, <2>3
  <1>3. \A n \in DOMAIN all : all[n].at <= table[all[n].id].at
    BY <1>2 DEF Seen
  <1>4. QED BY <1>3 DEF Seen, all

LEMMA ConcatIsNotEmpty ==
    ASSUME NEW list \in Seq(Entries), NEW more \in Seq(Entries), more # <<>>
    PROVE  list \o more # <<>>
  <1>1. Len(list \o more) = Len(list) + Len(more)
    BY ConcatProperties
  <1>2. Len(list) \in Nat /\ Len(more) \in Nat /\ Len(more) # 0
    OBVIOUS
  <1>3. Len(list \o more) # 0
    BY <1>1, <1>2
  <1>4. QED BY <1>3

(* An answer is taken, or dropped.                                         *)
LEMMA AnswerMoves ==
    ASSUME NEW table, NEW now, NEW R, NEW p, NEW r \in R,
           WellTyped(table, now, p, R), Fits(table, now, p, R), r.answer # "none", r.id = p.id
    PROVE  Fits(table, now, Done(Shown(p, r), r), R \ {r})
  <1> DEFINE q == Done(Shown(p, r), r)
  <1>1. Awaits(table, p, r)
    BY DEF Fits
  <1>2. p \in Pickers /\ r \in Searches
    BY DEF WellTyped
  <1>3. /\ q.open = p.open /\ q.query = p.query /\ q.debounced = p.debounced
        /\ q.type = p.type /\ q.due = p.due /\ q.id = p.id /\ q.overtaken = p.overtaken
        /\ \/ q.error = TRUE /\ q.items = p.items /\ q.more = p.more
           \/ q.error = TRUE /\ q.items = <<>> /\ q.more = FALSE
           \/ /\ r.answer = "page" /\ r.mode = "replace" /\ q.items = r.page.items
              /\ q.more = r.page.more /\ q.touched = r.touched
           \/ /\ r.answer = "page" /\ r.mode = "append" /\ q.items = p.items \o r.page.items
              /\ q.more = r.page.more /\ q.touched = p.touched
    <2>1. CASE r.answer = "thrown"
      BY <1>2, <2>1 DEF Done, Shown, Pickers
    <2>2. CASE r.answer = "refused"
      BY <1>2, <2>2 DEF Done, Shown, Pickers
    <2>3. CASE r.answer = "page" /\ r.mode = "replace"
      BY <1>2, <2>3 DEF Done, Shown, Pickers
    <2>4. CASE r.answer = "page" /\ r.mode = "append"
      BY <1>2, <2>4 DEF Done, Shown, Pickers
    <2>5. QED BY <1>2, <2>1, <2>2, <2>3, <2>4, SearchFields
  <1> HIDE DEF q
  <1>4. FilterOf(q) = FilterOf(p)
    BY <1>3 DEF FilterOf
  <1>5. Dated(table, now, q, R \ {r})
    <2>1. Seen(table, p.items) /\ Seen(table, r.page.items)
      BY DEF Fits, Dated
    <2>2. Seen(table, p.items \o r.page.items)
      BY <1>2, <2>1, ConcatSeen, PickerFields, SearchFields
    <2>3. Seen(table, q.items)
      BY <1>3, <2>1, <2>2, NothingSeen
    <2>4. QED BY <2>3 DEF Fits, Dated
  <1>6. Sequenced(q, R \ {r})
    BY <1>3 DEF Fits, Sequenced
  <1>7. Paged(q, R \ {r})
    <2>1. r.page.more => r.page.items # <<>>
      BY DEF Fits, Paged
    <2>2. r.page.items # <<>> => p.items \o r.page.items # <<>>
      BY <1>2, ConcatIsNotEmpty, PickerFields, SearchFields
    <2>3. q.more => q.items # <<>>
      BY <1>3, <2>1, <2>2 DEF Fits, Paged
    <2>4. QED BY <2>3 DEF Fits, Paged
  <1>8. Shut(q, R \ {r})
    BY <1>1, <1>3 DEF Awaits, Shut
  <1>9. Shows(table, q)
    <2> SUFFICES ASSUME Current(q) PROVE Answers(table, q.items, q.more, FilterOf(q), q.touched)
      BY DEF Shows
    <2>1. ~q.error /\ ~p.due /\ ~p.overtaken /\ r.filter = FilterOf(p)
      BY <1>1, <1>3 DEF Current, Awaits
    <2>2. QED BY <1>1, <1>3, <1>4, <2>1 DEF Awaits
  <1>10. \A s \in R \ {r} : s.id # q.id
    BY <1>3 DEF Fits, Sequenced
  <1>11. QED BY <1>5, <1>6, <1>7, <1>8, <1>9, <1>10 DEF Fits, q

LEMMA DropMoves ==
    ASSUME NEW table, NEW now, NEW R, NEW p, NEW r, Fits(table, now, p, R)
    PROVE  Fits(table, now, p, R \ {r})
  BY DEF Fits, Dated, Sequenced, Paged, Shut
----
(* The table changes.                                                      *)

Marked(r, i) == [r EXCEPT !.touched = @ \cup {i}]

MarkedAll(R, i) == {Marked(r, i) : r \in R}

LEMMA MarkedFields ==
    ASSUME NEW i \in Records, NEW r \in Searches
    PROVE  /\ Marked(r, i) \in Searches
           /\ Marked(r, i).id = r.id /\ Marked(r, i).mode = r.mode
           /\ Marked(r, i).filter = r.filter /\ Marked(r, i).cursor = r.cursor
           /\ Marked(r, i).answer = r.answer /\ Marked(r, i).page = r.page
           /\ Marked(r, i).touched = r.touched \cup {i}
  BY DEF Marked, Searches

(* What every search keeps when a record is touched.                       *)
LEMMA MarkedMoves ==
    ASSUME PickerAssumption, NEW table, NEW now, NEW R, NEW p, WellTyped(table, now, p, R),
           Fits(table, now, p, R), NEW i \in Records, NEW row \in Rows,
           table[i].at <= row.at, NEW later \in Nat, now <= later, row.at <= later
    PROVE  LET next == [table EXCEPT ![i] = row]
               S == MarkedAll(R, i)
           IN  /\ next \in [Records -> Rows]
               /\ Dated(next, later, p, S) /\ Sequenced(p, S) /\ Paged(p, S)
               /\ \A s \in S : s \in Searches
  <1> DEFINE next == [table EXCEPT ![i] = row]
             S == {Marked(r, i) : r \in R}
  <1>1. table \in [Records -> Rows] /\ p \in Pickers /\ now \in Nat /\ \A r \in R : r \in Searches
    BY DEF WellTyped
  <1>2. \A s \in S : \E r \in R : s = Marked(r, i)
    OBVIOUS
  <1>3. \A r \in R : /\ Marked(r, i) \in Searches /\ Marked(r, i).id = r.id
                     /\ Marked(r, i).page = r.page
    BY <1>1, MarkedFields
  <1>4. next \in [Records -> Rows]
    BY <1>1
  <1>5. \A j \in Records : next[j].at <= later
    <2>1. \A j \in Records : table[j].at \in Nat /\ table[j].at <= now
      BY <1>1 DEF Fits, Dated, Rows
    <2>2. \A j \in Records : next[j] = IF j = i THEN row ELSE table[j]
      BY <1>1
    <2> HIDE DEF next
    <2>3. QED BY <1>1, <2>1, <2>2
  <1>6. Seen(next, p.items)
    BY <1>1, PickerFields, SeenStays DEF Fits, Dated
  <1>7. \A r \in R : Seen(next, r.page.items)
    BY <1>1, SearchFields, SeenStays DEF Fits, Dated
  <1> HIDE DEF next, S, MarkedAll
  <1>8. Dated(next, later, p, S)
    <2>1. \A s \in S : Seen(next, s.page.items)
      BY <1>2, <1>3, <1>7
    <2>2. QED BY <1>5, <1>6, <2>1 DEF Dated
  <1>9. Sequenced(p, S)
    <2>1. ASSUME NEW s \in S PROVE s.id <= p.id
      BY <1>2, <1>3 DEF Fits, Sequenced
    <2>2. ASSUME NEW s \in S, NEW o \in S, s.id = o.id PROVE s = o
      <3>1. PICK r \in R : s = Marked(r, i)
        BY <1>2
      <3>2. PICK t \in R : o = Marked(t, i)
        BY <1>2
      <3>3. r.id = t.id
        BY <1>3, <2>2, <3>1, <3>2
      <3>4. QED BY <3>1, <3>2, <3>3 DEF Fits, Sequenced
    <2>3. QED BY <2>1, <2>2 DEF Sequenced
  <1>10. Paged(p, S)
    BY <1>2, <1>3 DEF Fits, Paged
  <1>11. \A s \in S : s \in Searches
    BY <1>2, <1>3
  <1>12. QED BY <1>4, <1>8, <1>9, <1>10, <1>11 DEF next, S, MarkedAll

(* A closed dialog keeps out of it.                                        *)
LEMMA ClosedMoves ==
    ASSUME NEW table, NEW now, NEW p, NEW R, NEW next, NEW later, NEW S, NEW i \in Records,
           Shut(p, R), ~p.open, S = MarkedAll(R, i), \A r \in R : r \in Searches,
           Dated(next, later, p, S), Sequenced(p, S), Paged(p, S)
    PROVE  Fits(next, later, p, S)
  <1>1. \A s \in S : s.id # p.id
    BY MarkedFields DEF Shut, MarkedAll
  <1>2. Shut(p, S) /\ Shows(next, p)
    BY <1>1 DEF Shut, Shows, Current
  <1>3. QED BY <1>1, <1>2 DEF Fits

LEMMA TouchMoves ==
    ASSUME PickerAssumption, NEW table, NEW now, NEW R, NEW p, WellTyped(table, now, p, R),
           Fits(table, now, p, R), NEW i \in Records, NEW row \in Rows,
           table[i].at <= row.at, NEW later \in Nat, now <= later, row.at <= later
    PROVE  LET q == [p EXCEPT !.touched = @ \cup {i}]
               next == [table EXCEPT ![i] = row]
               S == MarkedAll(R, i)
           IN  q \in Pickers /\ Fits(next, later, q, S)
  <1> DEFINE q == [p EXCEPT !.touched = @ \cup {i}]
             next == [table EXCEPT ![i] = row]
             S == {Marked(r, i) : r \in R}
  <1>1. table \in [Records -> Rows] /\ p \in Pickers /\ \A r \in R : r \in Searches
    BY DEF WellTyped
  <1>2. /\ q \in Pickers /\ q.touched = p.touched \cup {i}
        /\ q.open = p.open /\ q.query = p.query /\ q.debounced = p.debounced
        /\ q.type = p.type /\ q.due = p.due /\ q.items = p.items /\ q.more = p.more
        /\ q.loading = p.loading /\ q.error = p.error /\ q.id = p.id
        /\ q.overtaken = p.overtaken
    BY <1>1 DEF Pickers
  <1>3. Dated(next, later, p, S) /\ Sequenced(p, S) /\ Paged(p, S)
    BY MarkedMoves DEF MarkedAll
  <1>4. \A list, more, f, touched :
           Answers(table, list, more, f, touched) => Answers(next, list, more, f, touched \cup {i})
    BY <1>1, AnswersStay
  <1>5. \A s \in S : \E r \in R :
           /\ s.id = r.id /\ s.mode = r.mode /\ s.filter = r.filter /\ s.cursor = r.cursor
           /\ s.answer = r.answer /\ s.page = r.page /\ s.touched = r.touched \cup {i}
    BY <1>1, MarkedFields
  <1> HIDE DEF q, next, S
  <1>6. FilterOf(q) = FilterOf(p)
    BY <1>2 DEF FilterOf
  <1>7. Dated(next, later, q, S) /\ Sequenced(q, S) /\ Paged(q, S)
    BY <1>2, <1>3 DEF Dated, Sequenced, Paged
  <1>8. Shut(q, S)
    BY <1>2, <1>5 DEF Fits, Shut
  <1>9. Shows(next, q)
    BY <1>2, <1>4, <1>6 DEF Fits, Shows, Current
  <1>10. ASSUME NEW s \in S, s.id = q.id PROVE Awaits(next, q, s)
    <2>1. PICK r \in R :
             /\ s.id = r.id /\ s.mode = r.mode /\ s.filter = r.filter /\ s.cursor = r.cursor
             /\ s.answer = r.answer /\ s.page = r.page /\ s.touched = r.touched \cup {i}
      BY <1>5
    <2>2. Awaits(table, p, r)
      BY <1>2, <1>10, <2>1 DEF Fits
    <2>3. s.mode = "replace" /\ s.answer = "page" =>
             Answers(next, s.page.items, s.page.more, s.filter, s.touched)
      BY <1>4, <2>1, <2>2 DEF Awaits
    <2>4. s.mode = "append" /\ s.answer = "page" /\ ~q.due /\ ~q.overtaken =>
             Answers(next, q.items \o s.page.items, s.page.more, s.filter, q.touched)
      BY <1>2, <1>4, <2>1, <2>2 DEF Awaits
    <2>5. QED BY <1>2, <1>6, <2>1, <2>2, <2>3, <2>4 DEF Awaits
  <1>11. QED BY <1>2, <1>7, <1>8, <1>9, <1>10 DEF Fits, q, next, S, MarkedAll
----
(* The steps.                                                              *)

LEMMA InvTypes ==
    ASSUME PickerInv
    PROVE  /\ WellTyped(evidence, clock, picker, requests)
           /\ Fits(evidence, clock, picker, requests)
           /\ picker \in Pickers /\ \A r \in requests : r \in Searches
           /\ linking \in Records \cup {Null} /\ events \in Nat /\ changes \in Nat
  BY DEF PickerInv, PickerTypeOK, WellTyped

LEMMA PickerStarts ==
    ASSUME PickerAssumption, PickerInit
    PROVE  PickerInv
  <1>1. evidence \in [Records -> Rows] /\ \A i \in Records : evidence[i].at <= 1
    BY DEF PickerAssumption, PickerInit
  <1>2. Closed \in Pickers
    BY DEF Closed, Pickers
  <1>3. PickerTypeOK
    BY <1>1, <1>2 DEF PickerTypeOK, PickerInit
  <1>4. /\ picker.open = FALSE /\ picker.due = FALSE /\ picker.items = <<>>
        /\ picker.more = FALSE /\ picker.query = picker.debounced /\ requests = {}
    BY DEF PickerInit, Closed
  <1>5. Dated(evidence, clock, picker, requests)
    BY <1>1, <1>4, NothingSeen DEF Dated, PickerInit
  <1>6. Sequenced(picker, requests) /\ Paged(picker, requests) /\ Shut(picker, requests)
    BY <1>4 DEF Sequenced, Paged, Shut
  <1>7. Shows(evidence, picker)
    BY <1>4 DEF Shows, Current
  <1>8. QED BY <1>3, <1>4, <1>5, <1>6, <1>7 DEF PickerInv, Fits

LEMMA FilterInv ==
    ASSUME PickerInv, openPicker \/ setQuery \/ debounce \/ setTypeFilter
    PROVE  PickerInv'
  <1>1. /\ Fits(evidence, clock, picker, requests) /\ picker \in Pickers
        /\ Shut(picker, requests)
    BY InvTypes DEF Fits
  <1>2. /\ picker' \in Pickers
        /\ picker'.items = picker.items /\ picker'.more = picker.more
        /\ picker'.loading = picker.loading /\ picker'.error = picker.error
        /\ picker'.id = picker.id /\ picker'.touched = picker.touched
        /\ picker'.overtaken = picker.overtaken /\ picker'.open
        /\ \/ picker'.due
           \/ /\ picker.open /\ picker'.due = picker.due
              /\ picker'.debounced = picker.debounced /\ picker'.type = picker.type
    <2>1. CASE openPicker
      BY <1>1, <2>1 DEF openPicker, Pickers
    <2>2. CASE setQuery
      BY <1>1, <2>2 DEF setQuery, Pickers
    <2>3. CASE debounce
      BY <1>1, <2>3 DEF debounce, Pickers, Shut
    <2>4. CASE setTypeFilter
      BY <1>1, <2>4 DEF setTypeFilter, Pickers
    <2>5. QED BY <2>1, <2>2, <2>3, <2>4
  <1>3. UNCHANGED <<evidence, clock, requests, linking, changes>> /\ events' \in Nat
    <2>1. CASE openPicker
      BY <2>1, InvTypes DEF openPicker, Event
    <2>2. CASE setQuery
      BY <2>2, InvTypes DEF setQuery, Event
    <2>3. CASE debounce
      BY <2>3, InvTypes DEF debounce
    <2>4. CASE setTypeFilter
      <3>1. Event /\ UNCHANGED <<evidence, clock, requests, linking, changes>>
        BY <2>4 DEF setTypeFilter
      <3>2. QED BY <3>1, InvTypes DEF Event
    <2>5. QED BY <2>1, <2>2, <2>3, <2>4
  <1>4. PickerTypeOK'
    BY <1>2, <1>3 DEF PickerInv, PickerTypeOK
  <1>5. picker'.due \/ (~picker'.due /\ ~picker.due /\ FilterOf(picker') = FilterOf(picker)
                          /\ picker.open)
    BY <1>2 DEF FilterOf
  <1>6. Fits(evidence, clock, picker', requests)
    BY <1>1, <1>2, <1>5, FilterMoves
  <1>7. QED BY <1>3, <1>4, <1>6 DEF PickerInv

Sent(p, n, a, b, o) ==
    [p EXCEPT !.id = n, !.error = FALSE, !.loading = a, !.loadingMore = b, !.overtaken = o]

LEMMA SentFields ==
    ASSUME NEW p \in Pickers, NEW a \in BOOLEAN, NEW b \in BOOLEAN, NEW o \in BOOLEAN,
           NEW n \in Nat
    PROVE  LET q == Sent(p, n, a, b, o)
           IN  /\ q \in Pickers /\ q.open = p.open /\ q.items = p.items
               /\ q.more = p.more /\ q.touched = p.touched /\ q.id = n
               /\ ~q.error /\ q.due = p.due
               /\ q.debounced = p.debounced /\ q.type = p.type
               /\ q.loading = a /\ q.overtaken = o
  <1> DEFINE q == [p EXCEPT !.id = n, !.error = FALSE, !.loading = a, !.loadingMore = b,
                            !.overtaken = o]
  <1>1. q \in Pickers
    BY DEF Pickers
  <1>2. /\ q.open = p.open /\ q.items = p.items
        /\ q.more = p.more /\ q.touched = p.touched /\ q.id = n
        /\ ~q.error /\ q.due = p.due
        /\ q.debounced = p.debounced /\ q.type = p.type
        /\ q.loading = a /\ q.overtaken = o
    BY DEF Pickers
  <1>3. q = Sent(p, n, a, b, o)
    BY DEF Sent
  <1> HIDE DEF q
  <1>4. QED BY <1>1, <1>2, <1>3

LEMMA SendInv ==
    ASSUME PickerInv, searchDue \/ loadMore \/ retry
    PROVE  PickerInv'
  <1>1. PICK p \in {[picker EXCEPT !.due = FALSE], picker}, m \in {"replace", "append"},
             c \in {Null, Last(picker.items)} :
          /\ runSearch(p, m, c) /\ picker.open
          /\ UNCHANGED <<evidence, clock, linking, changes>> /\ events' \in Nat
          /\ \/ m = "replace" /\ c = Null
             \/ /\ m = "append" /\ c = Last(picker.items) /\ p = picker
                /\ picker.more /\ ~picker.error
    <2>1. CASE searchDue
      <3>1. picker.open
        BY <2>1, InvTypes DEF searchDue, Fits, Shut
      <3>2. QED BY <2>1, <3>1, InvTypes DEF searchDue
    <2>2. CASE loadMore
      BY <2>2, InvTypes DEF loadMore, Event
    <2>3. CASE retry
      BY <2>3, InvTypes DEF retry, Event
    <2>4. QED BY <2>1, <2>2, <2>3
  <1> DEFINE new == [id |-> p.id + 1, mode |-> m, filter |-> FilterOf(p),
                     cursor |-> c, answer |-> "none", page |-> NoPage, touched |-> {}]
  <1>2. /\ Fits(evidence, clock, picker, requests) /\ picker \in Pickers
        /\ WellTyped(evidence, clock, picker, requests)
    BY InvTypes
  <1>3. /\ p \in Pickers /\ p.open = picker.open /\ p.items = picker.items
        /\ p.more = picker.more /\ p.touched = picker.touched /\ p.id = picker.id
        /\ p.loading = picker.loading /\ p.error = picker.error
        /\ p.overtaken = picker.overtaken /\ FilterOf(p) = FilterOf(picker)
    BY <1>1, <1>2 DEF Pickers, FilterOf
  <1>4. /\ picker' \in Pickers /\ picker'.open = p.open /\ picker'.items = p.items
        /\ picker'.more = p.more /\ picker'.touched = p.touched /\ picker'.id = p.id + 1
        /\ ~picker'.error /\ picker'.due = p.due
        /\ picker'.debounced = p.debounced /\ picker'.type = p.type
        /\ picker'.loading = (p.loading \/ m = "replace")
        /\ picker'.overtaken = (m = "append" /\ (p.overtaken \/ p.loading))
    <2> DEFINE a == p.loading \/ m = "replace"
               b == p.loadingMore \/ m = "append"
               o == m = "append" /\ (p.overtaken \/ p.loading)
    <2>1. picker' = Sent(p, p.id + 1, a, b, o)
      BY <1>1 DEF runSearch, Sent
    <2>2. a \in BOOLEAN /\ b \in BOOLEAN /\ o \in BOOLEAN
      OBVIOUS
    <2>3. p.id + 1 \in Nat /\ p \in Pickers
      BY <1>3, PickerFields
    <2>4. (p.loading \/ m = "replace") = a
          /\ (m = "append" /\ (p.overtaken \/ p.loading)) = o
      OBVIOUS
    <2> HIDE DEF a, b, o
    <2>5. PICK x, y, z \in BOOLEAN, n \in Nat :
             /\ picker' = Sent(p, n, x, y, z) /\ n = p.id + 1
             /\ (p.loading \/ m = "replace") = x
             /\ (m = "append" /\ (p.overtaken \/ p.loading)) = z
      BY Zenon, <2>1, <2>2, <2>3, <2>4
    <2>6. /\ picker' \in Pickers /\ picker'.open = p.open /\ picker'.items = p.items
          /\ picker'.more = p.more /\ picker'.touched = p.touched /\ picker'.id = n
          /\ ~picker'.error /\ picker'.due = p.due
          /\ picker'.debounced = p.debounced /\ picker'.type = p.type
          /\ picker'.loading = x /\ picker'.overtaken = z
      BY <2>3, <2>5, SentFields
    <2>7. QED BY <2>5, <2>6
  <1>5. FilterOf(picker') = FilterOf(p)
    BY <1>4 DEF FilterOf
  <1>6. requests' = requests \cup {new}
    BY <1>1 DEF runSearch, FilterOf
  <1>7. c \in Entries \cup {Null}
    <2>1. picker.more => picker.items # <<>> /\ picker.items \in Seq(Entries)
      BY <1>2, PickerFields DEF Fits, Paged
    <2>2. picker.more => Last(picker.items) \in Entries
      <3>1. ASSUME NEW list \in Seq(Entries), list # <<>> PROVE Last(list) \in Entries
        BY <3>1 DEF Last
      <3>2. QED BY <2>1, <3>1
    <2>3. QED BY <1>1, <2>2
  <1>8. new \in Searches
    <2>1. NoPage \in Pages
      BY DEF NoPage, Pages
    <2>2. p.id + 1 \in Nat /\ FilterOf(p) \in Filters
      BY <1>3, PickerFields
    <2>3. QED BY <1>1, <1>7, <2>1, <2>2 DEF Searches
  <1>9. PickerTypeOK'
    BY <1>1, <1>4, <1>6, <1>8 DEF PickerInv, PickerTypeOK
  <1>10. /\ new.id = picker'.id /\ new.filter = FilterOf(picker') /\ new.answer = "none"
         /\ new.page = NoPage /\ new.mode = m /\ new.cursor = c
    BY <1>4, <1>5
  <1> HIDE DEF new
  <1>11. Fits(evidence, clock, picker', requests \cup {new})
    <2>1. \/ new.mode = "replace" /\ new.cursor = Null /\ picker'.loading
          \/ /\ new.mode = "append" /\ new.cursor = Last(picker.items)
             /\ picker.more /\ ~picker.error
             /\ picker'.due = picker.due /\ picker'.loading = picker.loading
             /\ ~picker'.overtaken => ~picker.overtaken /\ ~picker.loading
      <3>1. CASE m = "replace" /\ c = Null
        BY <1>4, <1>10, <3>1
      <3>2. CASE m = "append" /\ c = Last(picker.items) /\ p = picker
                 /\ picker.more /\ ~picker.error
        <4>1. picker'.loading = picker.loading
          <5>1. picker.loading \in BOOLEAN
            BY <1>2, PickerFields
          <5>2. picker'.loading = (picker.loading \/ FALSE)
            BY <1>4, <3>2
          <5>3. QED BY <5>1, <5>2
        <4>2. QED BY <1>4, <1>10, <3>2, <4>1
      <3>3. QED BY <1>1, <3>1, <3>2
    <2>2. picker'.open /\ ~picker'.error /\ FilterOf(picker') = FilterOf(picker)
          /\ picker'.items = picker.items /\ picker'.more = picker.more
          /\ picker'.touched = picker.touched /\ picker'.id = picker.id + 1
      BY <1>1, <1>3, <1>4, <1>5
    <2>3. QED BY <1>1, <1>2, <1>10, <2>1, <2>2, SearchMoves
  <1>12. QED BY <1>1, <1>6, <1>9, <1>11 DEF PickerInv

LEMMA ResetTyped ==
    ASSUME NEW p \in Pickers
    PROVE  Reset(p) \in Pickers
  <1>1. p.id + 1 \in Nat /\ <<>> \in Seq(Entries) /\ {} \in SUBSET Records
    BY PickerFields
  <1>2. QED BY <1>1 DEF Reset, Pickers

LEMMA CloseInv ==
    ASSUME PickerInv, close
    PROVE  PickerInv'
  <1>1. /\ picker' = Reset(picker) /\ picker' \in Pickers
        /\ UNCHANGED <<evidence, clock, requests, linking, changes>> /\ events' \in Nat
    BY InvTypes, ResetTyped DEF close, Event
  <1>2. PickerTypeOK'
    BY <1>1 DEF PickerInv, PickerTypeOK
  <1>3. Fits(evidence, clock, picker', requests)
    BY <1>1, InvTypes, ResetMoves DEF Fits
  <1>4. QED BY <1>1, <1>2, <1>3 DEF PickerInv

LEMMA SelectInv ==
    ASSUME PickerAssumption, PickerInv, select
    PROVE  PickerInv'
  <1>1. picker.items \in Seq(Entries)
    BY InvTypes, PickerFields
  <1>2. PICK n \in DOMAIN picker.items : linking' = picker.items[n].id
    BY DEF select
  <1>3. linking' \in Records
    <2>1. picker.items[n] \in Entries
      BY <1>1
    <2>2. QED BY <1>2, <2>1, EntryFields
  <1>4. UNCHANGED <<evidence, clock, picker, requests, changes>> /\ events' \in Nat
    BY InvTypes DEF select, Event
  <1>5. PickerTypeOK'
    BY <1>3, <1>4 DEF PickerInv, PickerTypeOK
  <1>6. QED BY <1>4, <1>5 DEF PickerInv

(* The server has read a page for a search in flight.                      *)
Replied(r, a, page) == [r EXCEPT !.answer = a, !.page = page, !.touched = {}]

(* The page begins an answer, or continues the list.                       *)
Fills(table, p, r, page) ==
    /\ r.cursor = Null => Answers(table, page.items, page.more, r.filter, {})
    /\ p.more /\ r.cursor = Last(p.items)
          /\ Answers(table, p.items, p.more, r.filter, p.touched) =>
       Answers(table, p.items \o page.items, page.more, r.filter, p.touched)

LEMMA ReadMoves ==
    ASSUME NEW table, NEW now, NEW R, NEW p, NEW r \in R,
           WellTyped(table, now, p, R), Fits(table, now, p, R),
           NEW a \in {"page", "refused", "thrown"}, NEW page \in Pages,
           Seen(table, page.items), page.more => page.items # <<>>,
           a = "page" => Fills(table, p, r, page)
    PROVE  LET s == Replied(r, a, page)
           IN  s \in Searches /\ Fits(table, now, p, (R \ {r}) \cup {s})
  <1> DEFINE s == Replied(r, a, page)
             S == (R \ {r}) \cup {s}
  <1>1. r \in Searches /\ p \in Pickers
    BY DEF WellTyped
  <1>2. /\ s \in Searches /\ s.id = r.id /\ s.mode = r.mode /\ s.filter = r.filter
        /\ s.cursor = r.cursor /\ s.answer = a /\ s.page = page /\ s.touched = {}
    BY <1>1 DEF Searches, Replied
  <1> HIDE DEF s
  <1>3. Dated(table, now, p, S)
    BY <1>2 DEF Fits, Dated
  <1>4. Sequenced(p, S)
    BY <1>2 DEF Fits, Sequenced
  <1>5. Paged(p, S) /\ Shut(p, S)
    BY <1>2 DEF Fits, Paged, Shut
  <1>6. ASSUME s.id = p.id PROVE Awaits(table, p, s)
    <2>1. Awaits(table, p, r)
      BY <1>2, <1>6 DEF Fits
    <2>2. s.mode = "replace" /\ s.answer = "page" =>
             Answers(table, s.page.items, s.page.more, s.filter, s.touched)
      BY <1>2, <2>1 DEF Awaits, Fills
    <2>3. ASSUME s.mode = "append", s.answer = "page", ~p.due, ~p.overtaken
          PROVE  Answers(table, p.items \o s.page.items, s.page.more, s.filter, p.touched)
      <3>1. Current(p) /\ r.filter = FilterOf(p) /\ p.more /\ r.cursor = Last(p.items)
        BY <1>2, <2>1, <2>3 DEF Awaits, Current
      <3>2. Answers(table, p.items, p.more, r.filter, p.touched)
        BY <3>1 DEF Fits, Shows
      <3>3. QED BY <1>2, <2>3, <3>1, <3>2 DEF Fills
    <2>4. QED BY <1>2, <2>1, <2>2, <2>3 DEF Awaits
  <1>7. \A t \in S : t.id = p.id => Awaits(table, p, t)
    BY <1>6 DEF Fits
  <1>8. QED BY <1>2, <1>3, <1>4, <1>5, <1>7 DEF Fits, s

(* A page that is read says of records what the table says.                *)
LEMMA PageIsSeen ==
    ASSUME PickerAssumption, PickerTypeOK, NEW f, NEW cursor
    PROVE  Seen(evidence, search(f, cursor).items)
  <1> DEFINE page == search(f, cursor)
  <1>1. \A n \in DOMAIN page.items : page.items[n] \in Eligible(f)
    BY SearchFacts
  <1> HIDE DEF page
  <1>2. ASSUME NEW n \in DOMAIN page.items
        PROVE  page.items[n].at <= evidence[page.items[n].id].at
    <2>1. page.items[n] \in Eligible(f)
      BY <1>1
    <2>2. page.items[n].at = evidence[page.items[n].id].at /\ page.items[n] \in Entries
      BY <2>1, EligibleFacts
    <2>3. page.items[n].at \in Nat
      BY <2>2, EntryFields
    <2>4. QED BY <2>2, <2>3
  <1>3. QED BY <1>2 DEF Seen, page

LEMMA ReadInv ==
    ASSUME PickerAssumption, PickerInv, searchEvidence
    PROVE  PickerInv'
  <1>1. /\ WellTyped(evidence, clock, picker, requests) /\ PickerTypeOK
        /\ Fits(evidence, clock, picker, requests)
        /\ picker \in Pickers /\ picker.items \in Seq(Entries)
    BY InvTypes, PickerFields DEF PickerInv
  <1>2. PICK r \in requests, a \in {"page", "refused", "thrown"} :
           /\ events' \in Nat /\ UNCHANGED <<evidence, clock, picker, linking, changes>>
           /\ \/ a = "page" /\ Answer(r, a, search(r.filter, r.cursor))
              \/ a # "page" /\ Answer(r, a, NoPage)
    BY InvTypes DEF searchEvidence, Event
  <1>3. PICK page \in Pages :
           /\ requests' = (requests \ {r})
                \cup {[r EXCEPT !.answer = a, !.page = page, !.touched = {}]}
           /\ Seen(evidence, page.items) /\ (page.more => page.items # <<>>)
           /\ a = "page" => page = search(r.filter, r.cursor)
    <2>1. CASE a = "page"
      <3>1. search(r.filter, r.cursor) \in Pages
            /\ (search(r.filter, r.cursor).more => search(r.filter, r.cursor).items # <<>>)
        BY <1>1, SearchFacts
      <3>2. Seen(evidence, search(r.filter, r.cursor).items)
        BY <1>1, PageIsSeen
      <3>3. QED BY <1>2, <2>1, <3>1, <3>2 DEF Answer
    <2>2. CASE a # "page"
      <3>1. NoPage \in Pages /\ NoPage.items = <<>> /\ ~NoPage.more
        BY DEF NoPage, Pages
      <3>2. Seen(evidence, NoPage.items)
        BY <3>1, NothingSeen
      <3>3. Answer(r, a, NoPage)
        BY <1>2, <2>2
      <3>4. QED BY <2>2, <3>1, <3>2, <3>3 DEF Answer
    <2>3. QED BY <2>1, <2>2
  <1>4. a = "page" /\ r.cursor = Null =>
           Answers(evidence, page.items, page.more, r.filter, {})
    BY <1>1, <1>3, FirstPage
  <1>5. ASSUME a = "page", picker.more, r.cursor = Last(picker.items),
               Answers(evidence, picker.items, picker.more, r.filter, picker.touched)
        PROVE  Answers(evidence, picker.items \o page.items, page.more, r.filter,
                       picker.touched)
    <2>1. picker.items # <<>> /\ Seen(evidence, picker.items)
      BY <1>1, <1>5 DEF Fits, Paged, Dated
    <2>2. Answers(evidence, picker.items, TRUE, r.filter, picker.touched)
      BY <1>5 DEF Answers, Holds
    <2>3. QED BY <1>1, <1>3, <1>5, <2>1, <2>2, NextPage
  <1> DEFINE s == Replied(r, a, page)
  <1>6. s \in Searches /\ Fits(evidence, clock, picker, (requests \ {r}) \cup {s})
    <2>1. a = "page" => Fills(evidence, picker, r, page)
      BY <1>4, <1>5 DEF Fills
    <2>2. QED BY <1>1, <1>2, <1>3, <2>1, ReadMoves
  <1> HIDE DEF s
  <1>7. requests' = (requests \ {r}) \cup {s}
    BY <1>3 DEF s, Replied
  <1>8. PickerTypeOK'
    BY <1>1, <1>2, <1>6, <1>7 DEF PickerTypeOK
  <1>9. QED BY <1>2, <1>6, <1>7, <1>8 DEF PickerInv

LEMMA ShownTyped ==
    ASSUME NEW p \in Pickers, NEW r \in Searches
    PROVE  Done(Shown(p, r), r) \in Pickers
  <1>1. r.page.items \in Seq(Entries) /\ r.page.more \in BOOLEAN /\ p.items \in Seq(Entries)
        /\ p.items \o r.page.items \in Seq(Entries) /\ r.touched \in SUBSET Records
    BY PickerFields, SearchFields DEF Searches
  <1>2. Shown(p, r) \in Pickers
    <2> DEFINE list == IF r.mode = "append" THEN p.items \o r.page.items ELSE r.page.items
               marks == IF r.mode = "append" THEN p.touched ELSE r.touched
    <2>1. CASE r.answer = "thrown"
      BY <2>1 DEF Shown, Pickers
    <2>2. CASE r.answer = "refused"
      <3>1. <<>> \in Seq(Entries)
        OBVIOUS
      <3>2. QED BY <2>2, <3>1 DEF Shown, Pickers
    <2>3. CASE r.answer # "thrown" /\ r.answer # "refused"
      <3>1. list \in Seq(Entries) /\ marks \in SUBSET Records
        BY <1>1 DEF Pickers
      <3>2. Shown(p, r) = [p EXCEPT !.items = list, !.more = r.page.more, !.touched = marks]
        BY <2>3 DEF Shown
      <3> HIDE DEF list, marks
      <3>3. QED BY <1>1, <3>1, <3>2 DEF Pickers
    <2>4. QED BY <2>1, <2>2, <2>3
  <1>3. QED BY <1>2 DEF Done, Pickers

LEMMA AnsweredInv ==
    ASSUME PickerInv, answered
    PROVE  PickerInv'
  <1>1. /\ WellTyped(evidence, clock, picker, requests) /\ PickerTypeOK
        /\ Fits(evidence, clock, picker, requests)
        /\ picker \in Pickers /\ \A r \in requests : r \in Searches
    BY InvTypes DEF PickerInv
  <1>2. PICK r \in requests :
           /\ r.answer # "none" /\ requests' = requests \ {r}
           /\ picker' = IF IsLatest(r) THEN Done(Shown(picker, r), r) ELSE picker
           /\ UNCHANGED <<evidence, clock, linking, events, changes>>
    BY DEF answered
  <1>3. picker' \in Pickers
    BY <1>1, <1>2, ShownTyped
  <1>4. PickerTypeOK'
    BY <1>1, <1>2, <1>3 DEF PickerTypeOK
  <1>5. Fits(evidence, clock, picker', requests')
    BY <1>1, <1>2, AnswerMoves, DropMoves DEF IsLatest
  <1>6. QED BY <1>2, <1>4, <1>5 DEF PickerInv

LEMMA AssociatedInv ==
    ASSUME PickerAssumption, PickerInv, associated
    PROVE  PickerInv'
  <1>1. /\ WellTyped(evidence, clock, picker, requests) /\ PickerTypeOK
        /\ Fits(evidence, clock, picker, requests) /\ Shut(picker, requests)
        /\ picker \in Pickers /\ evidence \in [Records -> Rows] /\ clock \in Nat
        /\ \A r \in requests : r \in Searches
        /\ \A i \in Records : evidence[i].at <= clock
    BY InvTypes DEF PickerInv, WellTyped, Fits, Dated
  <1>2. linking \in Records /\ linking' \in Records \cup {Null}
        /\ UNCHANGED <<clock, events, changes>>
    BY InvTypes DEF associated
  <1>3. CASE evidence[linking].status # "live"
    <2>1. UNCHANGED <<evidence, picker, requests>>
      BY <1>3 DEF associated
    <2>2. QED BY <1>1, <1>2, <2>1 DEF PickerInv, PickerTypeOK
  <1>4. CASE evidence[linking].status = "live"
    <2> DEFINE row == [evidence[linking] EXCEPT !.linked = TRUE]
               next == [evidence EXCEPT ![linking] = row]
               S == MarkedAll(requests, linking)
    <2>1. row \in Rows /\ row.at = evidence[linking].at /\ row.at \in Nat
      BY <1>1, <1>2 DEF Rows
    <2>2. evidence' = next /\ picker' = IF picker.open THEN Reset(picker) ELSE picker
      BY <1>4 DEF associated
    <2>3. requests' = S
      BY <1>4 DEF associated, Marked, MarkedAll
    <2> HIDE DEF row
    <2>4. evidence[linking].at <= row.at /\ clock <= clock /\ row.at <= clock
      BY <1>1, <1>2, <2>1
    <2>5. /\ next \in [Records -> Rows]
          /\ Dated(next, clock, picker, S) /\ Sequenced(picker, S) /\ Paged(picker, S)
          /\ \A s \in S : s \in Searches
      BY <1>1, <1>2, <2>1, <2>4, MarkedMoves
    <2> HIDE DEF next, S
    <2>6. WellTyped(next, clock, picker, S)
      BY <1>1, <2>5 DEF WellTyped
    <2>7. picker' \in Pickers /\ Fits(next, clock, picker', S)
      <3>1. CASE picker.open
        BY <1>1, <2>2, <2>5, <2>6, <3>1, ResetTyped, ResetMoves
      <3>2. CASE ~picker.open
        <4>1. Fits(next, clock, picker, S)
          BY <1>1, <1>2, <2>5, <3>2, ClosedMoves DEF S
        <4>2. QED BY <1>1, <2>2, <3>2, <4>1
      <3>3. QED BY <3>1, <3>2
    <2>8. PickerTypeOK'
      BY <1>1, <1>2, <2>2, <2>3, <2>5, <2>7 DEF PickerTypeOK
    <2>9. QED BY <1>2, <2>2, <2>3, <2>7, <2>8 DEF PickerInv
  <1>5. QED BY <1>3, <1>4

LEMMA ChangedFacts ==
    ASSUME NEW row \in Rows, NEW now \in Nat, row.at <= now, NEW new \in Changed(row, now)
    PROVE  new \in Rows /\ row.at <= new.at /\ new.at <= now
  <1>1. row.at \in Nat
    BY DEF Rows
  <1>2. CASE new = [row EXCEPT !.linked = ~@ /\ row.status = "live"]
    <2>1. PICK b \in BOOLEAN : new = [row EXCEPT !.linked = b]
      BY <1>2
    <2>2. new \in Rows /\ new.at = row.at
      BY <2>1 DEF Rows
    <2>3. QED BY <1>1, <2>2
  <1>3. CASE new = [row EXCEPT !.status = "gone", !.at = now]
    <2>1. new \in Rows /\ new.at = now
      BY <1>3 DEF Rows, RowStatuses
    <2>2. QED BY <1>1, <2>1
  <1>4. ASSUME NEW x \in Texts, new = [row EXCEPT !.text = x, !.at = now, !.status = "live"]
        PROVE  new \in Rows /\ new.at = now
    BY <1>4 DEF Rows, RowStatuses
  <1>5. \/ new = [row EXCEPT !.linked = ~@ /\ row.status = "live"]
        \/ new = [row EXCEPT !.status = "gone", !.at = now]
        \/ \E x \in Texts : new = [row EXCEPT !.text = x, !.at = now, !.status = "live"]
    BY Zenon DEF Changed
  <1>6. ASSUME new \in Rows, new.at = now
        PROVE  new \in Rows /\ row.at <= new.at /\ new.at <= now
    BY <1>6
  <1>7. QED BY <1>2, <1>3, <1>4, <1>5, <1>6

LEMMA ChangeInv ==
    ASSUME PickerAssumption, PickerInv, change
    PROVE  PickerInv'
  <1>1. /\ WellTyped(evidence, clock, picker, requests) /\ PickerTypeOK
        /\ Fits(evidence, clock, picker, requests)
        /\ picker \in Pickers /\ evidence \in [Records -> Rows] /\ clock \in Nat
        /\ \A r \in requests : r \in Searches
        /\ \A i \in Records : evidence[i].at <= clock /\ evidence[i].at \in Nat
    BY InvTypes DEF PickerInv, WellTyped, Fits, Dated, Rows
  <1>2. clock' \in Nat /\ clock <= clock' /\ changes' \in Nat
        /\ UNCHANGED <<linking, events>>
    BY <1>1, InvTypes DEF change
  <1>3. PICK i \in Records :
           /\ Touch(i)
           /\ \E row \in Changed(evidence[i], clock') : evidence' = [evidence EXCEPT ![i] = row]
    BY DEF change
  <1>4. PICK row \in Changed(evidence[i], clock') : evidence' = [evidence EXCEPT ![i] = row]
    BY <1>3
  <1>5. row \in Rows /\ evidence[i].at <= row.at /\ row.at <= clock'
    <2>1. evidence[i] \in Rows /\ evidence[i].at <= clock'
      BY <1>1, <1>2, <1>3
    <2>2. QED BY <1>2, <1>3, <1>4, <2>1, ChangedFacts
  <1>6. /\ picker' = [picker EXCEPT !.touched = @ \cup {i}]
        /\ requests' = MarkedAll(requests, i)
    BY <1>3 DEF Touch, Marked, MarkedAll
  <1>7. picker' \in Pickers /\ Fits(evidence', clock', picker', requests')
    <2> DEFINE q == [picker EXCEPT !.touched = @ \cup {i}]
               next == [evidence EXCEPT ![i] = row]
               S == MarkedAll(requests, i)
    <2>1. q \in Pickers /\ Fits(next, clock', q, S)
      BY <1>1, <1>2, <1>5, TouchMoves
    <2>2. picker' = q /\ evidence' = next /\ requests' = S
      BY <1>4, <1>6
    <2> HIDE DEF q, next, S
    <2>3. QED BY <2>1, <2>2
  <1>8. \A s \in requests' : s \in Searches
    BY <1>1, <1>3, <1>6, MarkedFields DEF MarkedAll
  <1>9. evidence' \in [Records -> Rows]
    BY <1>1, <1>3, <1>4, <1>5
  <1>10. PickerTypeOK'
    BY <1>1, <1>2, <1>7, <1>8, <1>9 DEF PickerTypeOK
  <1>11. QED BY <1>7, <1>10 DEF PickerInv

LEMMA PickerMoves ==
    ASSUME PickerAssumption, PickerInv, [PickerNext]_pickerVars
    PROVE  PickerInv'
  <1>1. CASE UNCHANGED pickerVars
    BY <1>1 DEF PickerInv, PickerTypeOK, pickerVars
  <1>2. CASE openPicker \/ setQuery \/ debounce \/ setTypeFilter
    BY <1>2, FilterInv
  <1>3. CASE searchDue \/ loadMore \/ retry
    BY <1>3, SendInv
  <1>4. CASE close
    BY <1>4, CloseInv
  <1>5. CASE select
    BY <1>5, SelectInv
  <1>6. CASE searchEvidence
    BY <1>6, ReadInv
  <1>7. CASE answered
    BY <1>7, AnsweredInv
  <1>8. CASE associated
    BY <1>8, AssociatedInv
  <1>9. CASE change
    BY <1>9, ChangeInv
  <1>10. QED BY <1>1, <1>2, <1>3, <1>4, <1>5, <1>6, <1>7, <1>8, <1>9 DEF PickerNext

LEMMA PickerInvariance == PickerSpec => []PickerInv
  <1>1. PickerInit => PickerInv
    BY PickerStarts, PickerAssumption
  <1>2. PickerInv /\ [PickerNext]_pickerVars => PickerInv'
    BY PickerMoves, PickerAssumption
  <1>3. QED BY <1>1, <1>2, PTL DEF PickerSpec

(* The picker, its searches and the table stay what their types say: a     *)
(* list is one of entries of known records, whatever answers it was put    *)
(* together from (EvidencePicker.tsx:116-160).                             *)
THEOREM PickerIsTyped == PickerSpec => []PickerTypeOK
  <1>1. PickerInv => PickerTypeOK
    BY DEF PickerInv
  <1>2. QED BY <1>1, PickerInvariance, PTL

(* However many searches are in flight, in whatever order their answers    *)
(* come, and whatever others change meanwhile, a list at rest is a search  *)
(* for what the dialog shows: in order, without repetition, and skipping   *)
(* no record that nobody touched since its first page was read             *)
(* (EvidencePicker.tsx:125, 140; evidence-repository.ts:387).              *)
THEOREM PickedListIsTheSearch == PickerSpec => []ListIsTheSearch
  <1>1. ASSUME PickerInv, Settled, ~picker.overtaken
        PROVE  /\ InOrder(picker.items)
               /\ \A n \in DOMAIN picker.items : Matches(picker.items[n], Filter)
               /\ \A e \in Skipped : e.id \in picker.touched
    <2>1. Current(picker) /\ Filter = FilterOf(picker)
      BY <1>1 DEF Settled, Quiet, Current, Filter, FilterOf
    <2>2. Answers(evidence, picker.items, picker.more, Filter, picker.touched)
      BY <1>1, <2>1 DEF PickerInv, Fits, Shows
    <2>3. Eligible(Filter) = Findable(evidence, Filter)
      BY EligibleIsFound
    <2>4. ASSUME NEW e \in Skipped
          PROVE  e.id \in picker.touched
      BY <2>2, <2>3 DEF Answers, Holds, Skipped
    <2>5. QED BY <2>2, <2>4 DEF Answers
  <1>2. PickerInv => ListIsTheSearch
    BY <1>1 DEF ListIsTheSearch
  <1>3. QED BY <1>2, PickerInvariance, PTL

====
