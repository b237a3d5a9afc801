---- MODULE ControlReviewProofs ----
(***************************************************************************)
(* Proofs about ControlReview for any number of clients, any finite set of *)
(* controls, any fields and values, and any bounds. What keeps a record    *)
(* and its timeline together is that a statement decided on a read of long *)
(* ago is still the right kind of statement when it runs: an UPDATE finds  *)
(* the record, because a record never disappears, and an INSERT was let    *)
(* through by the unique key and holds its row lock until it commits.      *)
(* Which fields an UPDATE may have set back is told by comparing what it   *)
(* read with the row (setBack).                                            *)
(***************************************************************************)
EXTENDS ControlReview, SequenceTheorems, TLAPS

(* The writes that create a record, and those that change one.             *)
Creations ==
    {Insert(m, "not_reviewed", <<>>) : m \in Metadata}
      \cup {Insert(Default, s, Review(s)) : s \in Statuses}

Updates ==
    {Update(m, n) : m, n \in Metadata}
      \cup {[NoWrite EXCEPT !.review = s, !.entries = Review(s)] : s \in Statuses}

(* What ensureControlRecord leaves between its INSERT and its activity.    *)
Unannounced(record, entries, except) ==
    /\ record # None
    /\ Positions(entries, "created") = {}
    /\ \A f \in Fields \ except :
          Mentions(entries, f) = {} => record.meta[f] = Default[f]

(* What a request carries at the statement it has reached.                 *)
Carries(r) ==
    /\ r.pc = "select" => r.kind \in {"upsert", "transition", "ensure"}
    /\ r.pc \in {"select", "write"} /\ r.kind = "upsert" => r.inputs # <<>>
    /\ r.pc \in {"select", "write", "append"} /\ r.kind # "upsert" => r.control \in Controls
    /\ r.pc = "write" /\ r.kind # "ensure" =>
         r.control \in Controls /\ r.write \in Creations \cup Updates
    /\ \A k \in Controls : r.pending[k] \in {NoWrite} \cup Creations \cup Updates

(* What it may still assume of the tables, whatever the others did since   *)
(* it read them.                                                           *)
Good(c, r) ==
    /\ Carries(r)
    /\ r.pc = "write" /\ r.kind # "ensure" /\ r.write \in Updates => records[r.control] # None
    /\ \A k \in Controls : r.pending[k] # NoWrite => lock[k] = c
    /\ \A k \in Controls : r.pending[k] \in Creations => records[k] = None
    /\ \A k \in Controls : r.pending[k] \in Updates => records[k] # None
    /\ r.pc = "append" =>
         /\ r.kind = "ensure"
         /\ Unannounced(records[r.control], timeline[r.control], setBack[r.control])

ReviewInv ==
    /\ TypeOK
    /\ RecordsFollowActivity
    /\ OneCreation
    /\ \A c \in Clients : Good(c, req[c])
    /\ \A c, d \in Clients :
          At(c, "append") /\ At(d, "append") /\ req[c].control = req[d].control => c = d
----
(* Timelines.                                                              *)

LEMMA PositionsAfter ==
    ASSUME NEW s \in Seq(Entries), NEW e \in Entries
    PROVE  /\ Positions(Append(s, e), e.type) = Positions(s, e.type) \cup {Len(s) + 1}
           /\ \A t : t # e.type => Positions(Append(s, e), t) = Positions(s, t)
           /\ \A t : \A i \in Positions(s, t) : i \in Nat /\ i < Len(s) + 1
           /\ Append(s, e)[Len(s) + 1] = e
  <1>1. /\ Append(s, e) \in Seq(Entries) /\ Len(s) \in Nat
        /\ DOMAIN s = 1..Len(s) /\ DOMAIN Append(s, e) = 1..(Len(s) + 1)
        /\ \A i \in 1..Len(s) : Append(s, e)[i] = s[i]
        /\ Append(s, e)[Len(s) + 1] = e
    OBVIOUS
  <1> QED  BY <1>1 DEF Positions

LEMMA MentionsAfter ==
    ASSUME NEW s \in Seq(Entries), NEW e \in Entries, NEW f
    PROVE  /\ e.type = "fields" /\ f \in DOMAIN e.newValue =>
                Mentions(Append(s, e), f) = Mentions(s, f) \cup {Len(s) + 1}
           /\ ~ (e.type = "fields" /\ f \in DOMAIN e.newValue) =>
                Mentions(Append(s, e), f) = Mentions(s, f)
           /\ \A i \in Mentions(s, f) : i \in Nat /\ i < Len(s) + 1
  <1>1. /\ Append(s, e) \in Seq(Entries) /\ Len(s) \in Nat
        /\ DOMAIN s = 1..Len(s) /\ DOMAIN Append(s, e) = 1..(Len(s) + 1)
        /\ \A i \in 1..Len(s) : Append(s, e)[i] = s[i]
        /\ Append(s, e)[Len(s) + 1] = e
    OBVIOUS
  <1> QED  BY <1>1 DEF Mentions, Positions

LEMMA LastOfAfter ==
    ASSUME NEW S, NEW n \in Nat, \A i \in S : i \in Nat /\ i < n
    PROVE  LastOf(S \cup {n}) = {n}
  BY DEF LastOf

(* What an entry does not speak of stays, what it speaks of is what it     *)
(* says.                                                                   *)
LEMMA StatusAfter ==
    ASSUME NEW s \in Seq(Entries), NEW e \in Entries, NEW old, NEW new,
           \/ e.type = "review" /\ new.review = e.newValue
           \/ e.type # "review" /\ StatusFollows(old, s) /\ new.review = old.review
    PROVE  StatusFollows(new, Append(s, e))
  <1>1. Len(s) \in Nat /\ \A i \in DOMAIN s : Append(s, e)[i] = s[i]
    OBVIOUS
  <1>2. CASE e.type = "review" /\ new.review = e.newValue
    <2>1. Positions(Append(s, e), "review") = Positions(s, "review") \cup {Len(s) + 1}
      BY <1>2, PositionsAfter
    <2>2. \A i \in Positions(s, "review") : i \in Nat /\ i < Len(s) + 1
      BY PositionsAfter
    <2>3. LastOf(Positions(Append(s, e), "review")) = {Len(s) + 1}
      <3>1. Len(s) + 1 \in Nat  BY <1>1
      <3> QED  BY <2>1, <2>2, <3>1, LastOfAfter
    <2>4. Append(s, e)[Len(s) + 1] = e  BY PositionsAfter
    <2> QED  BY <1>2, <2>1, <2>3, <2>4 DEF StatusFollows
  <1>3. CASE e.type # "review" /\ StatusFollows(old, s) /\ new.review = old.review
    <2>1. Positions(Append(s, e), "review") = Positions(s, "review")
      BY <1>3, PositionsAfter
    <2>2. \A i \in LastOf(Positions(s, "review")) : Append(s, e)[i] = s[i]
      BY <1>1 DEF LastOf, Positions
    <2> QED  BY <1>3, <2>1, <2>2 DEF StatusFollows
  <1> QED  BY <1>2, <1>3

LEMMA FieldAfter ==
    ASSUME NEW s \in Seq(Entries), NEW e \in Entries, NEW old, NEW new, NEW f,
           IF e.type = "fields" /\ f \in DOMAIN e.newValue
           THEN new.meta[f] = e.newValue[f]
           ELSE /\ e.type # "created" /\ FieldFollows(old, s, f)
                /\ new.meta[f] = old.meta[f]
    PROVE  FieldFollows(new, Append(s, e), f)
  <1>1. Len(s) \in Nat /\ \A i \in DOMAIN s : Append(s, e)[i] = s[i]
    OBVIOUS
  <1>2. CASE e.type = "fields" /\ f \in DOMAIN e.newValue
    <2>1. Mentions(Append(s, e), f) = Mentions(s, f) \cup {Len(s) + 1}
      BY <1>2, MentionsAfter
    <2>2. \A i \in Mentions(s, f) : i \in Nat /\ i < Len(s) + 1
      BY MentionsAfter
    <2>3. LastOf(Mentions(Append(s, e), f)) = {Len(s) + 1}
      <3>1. Len(s) + 1 \in Nat  BY <1>1
      <3> QED  BY <2>1, <2>2, <3>1, LastOfAfter
    <2>4. Append(s, e)[Len(s) + 1] = e  BY PositionsAfter
    <2>5. new.meta[f] = e.newValue[f]  BY <1>2
    <2> QED  BY <2>1, <2>3, <2>4, <2>5 DEF FieldFollows
  <1>3. CASE ~ (e.type = "fields" /\ f \in DOMAIN e.newValue)
    <2>1. /\ e.type # "created" /\ FieldFollows(old, s, f)
          /\ new.meta[f] = old.meta[f]
      BY <1>3
    <2>2. /\ Mentions(Append(s, e), f) = Mentions(s, f)
          /\ Positions(Append(s, e), "created") = Positions(s, "created")
      BY <1>3, <2>1, MentionsAfter, PositionsAfter
    <2>3. PICK S : S = IF Mentions(s, f) = {} THEN Positions(s, "created") ELSE Mentions(s, f)
      OBVIOUS
    <2>4. \A i \in LastOf(S) : Append(s, e)[i] = s[i]
      BY <1>1, <2>3 DEF LastOf, Mentions, Positions
    <2>5. \A i \in LastOf(S) : s[i].newValue[f] = old.meta[f]
      BY <2>1, <2>3 DEF FieldFollows
    <2>6. \A i \in LastOf(S) : Append(s, e)[i].newValue[f] = new.meta[f]
      BY <2>1, <2>4, <2>5
    <2> QED  BY <2>2, <2>3, <2>6 DEF FieldFollows
  <1> QED  BY <1>2, <1>3

(* An activity about metadata or the review status, appended to the        *)
(* timeline of a record, takes the record along: the fields it speaks of   *)
(* are what it says, and any other stays and did follow, or is excepted.   *)
LEMMA ChangeFollows ==
    ASSUME NEW old \in Records, NEW s \in Seq(Entries), NEW x, Follows(old, s, x),
           NEW new \in Records, NEW e \in Entries, NEW y,
           \/ /\ e.type = "fields" /\ new.review = old.review
              /\ \A f \in Fields \ y :
                    IF f \in DOMAIN e.newValue THEN new.meta[f] = e.newValue[f]
                    ELSE f \notin x /\ new.meta[f] = old.meta[f]
           \/ e.type = "review" /\ new.review = e.newValue /\ new.meta = old.meta /\ y = x
    PROVE  /\ Follows(new, Append(s, e), y)
           /\ Positions(Append(s, e), "created") = Positions(s, "created")
           /\ Unannounced(old, s, x) => Unannounced(new, Append(s, e), y)
  <1>1. old # None /\ new # None  BY ReviewAssumption
  <1>2. StatusFollows(old, s) /\ \A f \in Fields \ x : FieldFollows(old, s, f)
    BY <1>1 DEF Follows
  <1>3. e.type # "created"  OBVIOUS
  <1>4. Positions(Append(s, e), "created") = Positions(s, "created")
    BY <1>3, PositionsAfter
  <1>5. StatusFollows(new, Append(s, e))  BY <1>2, StatusAfter
  <1>6. ASSUME NEW f \in Fields \ y
        PROVE  \/ e.type = "fields" /\ f \in DOMAIN e.newValue /\ new.meta[f] = e.newValue[f]
               \/ /\ ~ (e.type = "fields" /\ f \in DOMAIN e.newValue)
                  /\ f \in Fields \ x /\ new.meta[f] = old.meta[f]
    BY <1>6
  <1>7. ASSUME NEW f \in Fields \ y  PROVE FieldFollows(new, Append(s, e), f)
    BY <1>2, <1>3, <1>6, <1>7, FieldAfter
  <1>8. ASSUME Unannounced(old, s, x), NEW f \in Fields \ y, Mentions(Append(s, e), f) = {}
        PROVE  new.meta[f] = Default[f]
    <2>1. ~ (e.type = "fields" /\ f \in DOMAIN e.newValue)
      <3>1. Mentions(s, f) \cup {Len(s) + 1} # {}  OBVIOUS
      <3> QED  BY <1>8, <3>1, MentionsAfter
    <2>2. Mentions(s, f) = {}  BY <1>8, <2>1, MentionsAfter
    <2>3. f \in Fields \ x /\ new.meta[f] = old.meta[f]  BY <1>6, <2>1
    <2> QED  BY <1>8, <2>2, <2>3 DEF Unannounced
  <1>9. Follows(new, Append(s, e), y)  BY <1>1, <1>5, <1>7 DEF Follows
  <1>10. Unannounced(old, s, x) => Unannounced(new, Append(s, e), y)
    BY <1>1, <1>4, <1>8 DEF Unannounced
  <1> QED  BY <1>4, <1>9, <1>10

(* The first activity says with what metadata the record was created.      *)
LEMMA CreationFollows ==
    ASSUME NEW s \in Seq(Entries), Len(s) = 0, NEW new \in Records, NEW x,
           new.review = "not_reviewed",
           NEW e \in Entries, e.type = "created", e.newValue = new.meta
    PROVE  /\ Append(s, e) \in Seq(Entries)
           /\ Follows(new, Append(s, e), x)
           /\ Positions(Append(s, e), "created") = {1}
  <1>1. \A t : Positions(s, t) = {}
    <2>1. DOMAIN s = {}  OBVIOUS
    <2> QED  BY <2>1 DEF Positions
  <1>2. Positions(Append(s, e), "created") = {1}
    <2>1. Positions(Append(s, e), e.type) = Positions(s, e.type) \cup {Len(s) + 1}
      BY PositionsAfter, Zenon
    <2>2. Len(s) + 1 = 1  OBVIOUS
    <2> QED  BY <1>1, <2>1, <2>2
  <1>3. \A t : t # "created" => Positions(Append(s, e), t) = {}
    <2>1. \A t : t # e.type => Positions(Append(s, e), t) = Positions(s, t)
      BY PositionsAfter, Zenon
    <2> QED  BY <1>1, <2>1
  <1>4. StatusFollows(new, Append(s, e))  BY <1>3 DEF StatusFollows, LastOf
  <1>5. ASSUME NEW f \in Fields  PROVE FieldFollows(new, Append(s, e), f)
    <2>1. Mentions(Append(s, e), f) = {}  BY <1>3 DEF Mentions
    <2>2. Append(s, e)[1] = e  OBVIOUS
    <2> QED  BY <1>2, <2>1, <2>2 DEF FieldFollows, LastOf
  <1>6. new # None  BY ReviewAssumption
  <1> QED  BY <1>2, <1>4, <1>5, <1>6 DEF Follows
----
(* Writes.                                                                 *)

LEMMA WriteKinds ==
    /\ \A w : w \in Creations <=>
          \/ \E m \in Metadata : w = Insert(m, "not_reviewed", <<>>)
          \/ \E s \in Statuses : w = Insert(Default, s, Review(s))
    /\ \A w : w \in Updates <=>
          \/ \E m, n \in Metadata : w = Update(m, n)
          \/ \E s \in Statuses : w = [NoWrite EXCEPT !.review = s, !.entries = Review(s)]
  <1>1. ASSUME NEW w
        PROVE  w \in Creations <=>
                 \/ \E m \in Metadata : w = Insert(m, "not_reviewed", <<>>)
                 \/ \E s \in Statuses : w = Insert(Default, s, Review(s))
    BY DEF Creations
  <1>2. ASSUME NEW w
        PROVE  w \in Updates <=>
                 \/ \E m, n \in Metadata : w = Update(m, n)
                 \/ \E s \in Statuses : w = [NoWrite EXCEPT !.review = s, !.entries = Review(s)]
    BY DEF Updates
  <1> QED  BY <1>1, <1>2, Zenon

(* The activities of a batch name exactly the fields that it changes.      *)
LEMMA ChangesAreEntries ==
    ASSUME NEW m \in Metadata, NEW n \in Metadata
    PROVE  /\ [type |-> "fields", newValue |-> FieldChanges(m, n)] \in Entries
           /\ DOMAIN FieldChanges(m, n) = {f \in Fields : m[f] # n[f]}
           /\ \A f \in DOMAIN FieldChanges(m, n) : FieldChanges(m, n)[f] = n[f]
  <1>1. PICK F \in SUBSET Fields : F = {f \in Fields : m[f] # n[f]}  OBVIOUS
  <1>2. FieldChanges(m, n) = [f \in F |-> n[f]]  BY <1>1 DEF FieldChanges
  <1>3. FieldChanges(m, n) \in [F -> Values]  BY <1>2 DEF Metadata
  <1> QED  BY <1>1, <1>2, <1>3 DEF Entries

LEMMA WriteFacts ==
    /\ NoWrite \in Writes
    /\ NoWrite \notin Creations /\ NoWrite \notin Updates
    /\ \A w \in Creations : w.insert /\ w \in Writes
    /\ \A w \in Updates : ~ w.insert /\ w \in Writes
  <1>1. /\ <<>> \in Seq(Entries)
        /\ \A s \in Statuses : Review(s) \in Seq(Entries)
        /\ \A m \in Metadata : <<[type |-> "created", newValue |-> m]>> \in Seq(Entries)
    BY DEF Review, Entries
  <1>2. Default \in Metadata /\ None \notin Metadata \cup Statuses  BY ReviewAssumption
  <1>3. NoWrite \in Writes  BY <1>1 DEF NoWrite, Writes
  <1>4. ASSUME NEW w \in Creations  PROVE w.insert /\ w \in Writes
    <2>1. \A m \in Metadata, v \in Statuses, s \in Seq(Entries) :
            Insert(m, v, s).insert /\ Insert(m, v, s) \in Writes
      <3> SUFFICES ASSUME NEW m \in Metadata, NEW v \in Statuses, NEW s \in Seq(Entries)
                   PROVE  Insert(m, v, s).insert /\ Insert(m, v, s) \in Writes
        OBVIOUS
      <3>1. <<[type |-> "created", newValue |-> m]>> \o s \in Seq(Entries)  BY <1>1
      <3> QED  BY <3>1 DEF Insert, Writes
    <2>2. "not_reviewed" \in Statuses  BY DEF Statuses
    <2>3. CASE \E m \in Metadata : w = Insert(m, "not_reviewed", <<>>)
      BY <1>1, <2>1, <2>2, <2>3
    <2>4. CASE \E s \in Statuses : w = Insert(Default, s, Review(s))
      BY <1>1, <1>2, <2>1, <2>4
    <2> QED  BY <2>3, <2>4, WriteKinds, Zenon
  <1>5. ASSUME NEW w \in Updates  PROVE ~ w.insert /\ w \in Writes /\ w # NoWrite
    <2>1. ASSUME NEW m \in Metadata, NEW n \in Metadata, w = Update(m, n)
          PROVE  ~ w.insert /\ w \in Writes /\ w # NoWrite
      <3>1. PICK e \in Entries : e = [type |-> "fields", newValue |-> FieldChanges(m, n)]
        BY ChangesAreEntries
      <3>2. w = [NoWrite EXCEPT !.meta = n, !.read = m, !.entries = <<e>>]
        BY <2>1, <3>1 DEF Update
      <3>3. /\ ~ w.insert /\ w.meta = n
            /\ w = [insert |-> FALSE, meta |-> n, read |-> m, review |-> None,
                    entries |-> <<e>>]
        BY <3>2 DEF NoWrite
      <3>4. <<e>> \in Seq(Entries)  OBVIOUS
      <3>5. w \in Writes  BY <3>3, <3>4 DEF Writes
      <3>6. NoWrite.meta = None /\ n # None  BY <1>2 DEF NoWrite
      <3> QED  BY <3>3, <3>5, <3>6
    <2>2. \A v \in Statuses, s \in Seq(Entries) :
            LET x == [NoWrite EXCEPT !.review = v, !.entries = s] IN
            ~ x.insert /\ x \in Writes /\ x # NoWrite
      BY <1>2 DEF NoWrite, Writes
    <2>3. CASE \E v \in Statuses : w = [NoWrite EXCEPT !.review = v, !.entries = Review(v)]
      BY <1>1, <2>2, <2>3
    <2> QED  BY <2>1, <2>3, WriteKinds, Zenon
  <1>6. \A w \in Creations : w # NoWrite  BY <1>4 DEF NoWrite
  <1> QED  BY <1>3, <1>4, <1>5, <1>6

(* A creation leaves a record that follows its first timeline.             *)
LEMMA CreationApplied ==
    ASSUME NEW w \in Creations, NEW x
    PROVE  /\ Applied(None, w) \in Records
           /\ <<>> \o w.entries \in Seq(Entries)
           /\ Follows(Applied(None, w), <<>> \o w.entries, x)
           /\ Positions(<<>> \o w.entries, "created") = {1}
  <1> DEFINE first(m) == [type |-> "created", newValue |-> m]
             fresh(m) == [meta |-> m, review |-> "not_reviewed"]
  <1>1. Default \in Metadata /\ None \notin Metadata \cup Statuses  BY ReviewAssumption
  <1>2. \A m \in Metadata : first(m) \in Entries /\ fresh(m) \in Records
    BY DEF Entries, Records, Statuses
  <1>3. w # NoWrite  BY WriteFacts
  <1>4. \A m \in Metadata :
          /\ Append(<<>>, first(m)) \in Seq(Entries)
          /\ Follows(fresh(m), Append(<<>>, first(m)), x)
          /\ Positions(Append(<<>>, first(m)), "created") = {1}
    <2>1. <<>> \in Seq(Entries) /\ Len(<<>>) = 0  OBVIOUS
    <2> QED  BY <1>2, <2>1, CreationFollows
  <1>5. \A m \in Metadata : Append(<<>>, first(m)) = <<first(m)>>  OBVIOUS
  <1>6. Applied(None, w) = [meta   |-> IF w.meta = None THEN None.meta ELSE w.meta,
                            review |-> IF w.review = None THEN None.review ELSE w.review]
    BY <1>3 DEF Applied
  <1>7. CASE \E m \in Metadata : w = Insert(m, "not_reviewed", <<>>)
    <2>1. PICK m \in Metadata : w = Insert(m, "not_reviewed", <<>>)  BY <1>7
    <2>2. w.meta = m /\ w.review = "not_reviewed"  BY <2>1 DEF Insert
    <2>3. m # None /\ "not_reviewed" # None  BY <1>1 DEF Statuses
    <2>4. Applied(None, w) = fresh(m)  BY <1>6, <2>2, <2>3
    <2>5. <<>> \o w.entries = Append(<<>>, first(m))  BY <2>1 DEF Insert
    <2> QED  BY <1>2, <1>4, <2>4, <2>5
  <1>8. CASE \E s \in Statuses : w = Insert(Default, s, Review(s))
    <2>1. PICK v \in Statuses : w = Insert(Default, v, Review(v))  BY <1>8
    <2> DEFINE e == [type |-> "review", newValue |-> v]
               new == [meta |-> Default, review |-> v]
               begun == Append(<<>>, first(Default))
    <2>2. /\ e \in Entries /\ new \in Records /\ e.type = "review"
          /\ new.review = e.newValue /\ new.meta = fresh(Default).meta
      BY <1>1 DEF Entries, Records
    <2>3. w.meta = Default /\ w.review = v  BY <2>1 DEF Insert
    <2>4. Default # None /\ v # None  BY <1>1
    <2>5. Applied(None, w) = new  BY <1>6, <2>3, <2>4
    <2>6. <<>> \o w.entries = Append(begun, e)
      BY <2>1 DEF Insert, Review
    <2>7. /\ fresh(Default) \in Records /\ begun \in Seq(Entries)
          /\ Follows(fresh(Default), begun, x) /\ Positions(begun, "created") = {1}
      BY <1>1, <1>2, <1>4
    <2> HIDE DEF e, new, first, fresh, begun
    <2>8. /\ Follows(new, Append(begun, e), x)
          /\ Positions(Append(begun, e), "created") = Positions(begun, "created")
      BY <2>2, <2>7, ChangeFollows
    <2>9. Append(begun, e) \in Seq(Entries)  BY <2>2, <2>7
    <2> QED  BY <2>2, <2>5, <2>6, <2>7, <2>8, <2>9
  <1> QED  BY <1>7, <1>8 DEF Creations

(* An update of a record leaves one that follows its longer timeline,      *)
(* except in the fields that it has set back.  A batch announces the       *)
(* fields that differ from what it read; where the row has not changed     *)
(* since then, the others stay as they are.                                *)
LEMMA UpdateApplied ==
    ASSUME NEW w \in Updates, NEW old \in Records, NEW s \in Seq(Entries),
           NEW x, Follows(old, s, x), NEW y, y = SetBack(old, w, x)
    PROVE  /\ Applied(old, w) \in Records
           /\ s \o w.entries \in Seq(Entries)
           /\ Follows(Applied(old, w), s \o w.entries, y)
           /\ Positions(s \o w.entries, "created") = Positions(s, "created")
           /\ Unannounced(old, s, x) => Unannounced(Applied(old, w), s \o w.entries, y)
  <1>1. None \notin Metadata \cup Statuses  BY ReviewAssumption
  <1>2. Applied(old, w) = [meta   |-> IF w.meta = None THEN old.meta ELSE w.meta,
                           review |-> IF w.review = None THEN old.review ELSE w.review]
    BY WriteFacts DEF Applied
  <1>3. PICK new : new = Applied(old, w)  OBVIOUS
  <1>4. PICK e \in Entries :
          /\ w.entries = <<e>> /\ new \in Records
          /\ \/ /\ e.type = "fields" /\ new.review = old.review
                /\ \A f \in Fields \ y :
                      IF f \in DOMAIN e.newValue THEN new.meta[f] = e.newValue[f]
                      ELSE f \notin x /\ new.meta[f] = old.meta[f]
             \/ e.type = "review" /\ new.review = e.newValue /\ new.meta = old.meta /\ y = x
    <2>1. CASE \E m, n \in Metadata : w = Update(m, n)
      <3>1. PICK m \in Metadata, n \in Metadata : w = Update(m, n)  BY <2>1
      <3>2. PICK g : g = FieldChanges(m, n)  OBVIOUS
      <3>3. PICK e : e = [type |-> "fields", newValue |-> g]  OBVIOUS
      <3>4. /\ w.meta = n /\ w.read = m /\ w.review = None /\ w.entries = <<e>>
        BY <3>1, <3>2, <3>3 DEF Update, NoWrite
      <3>5. /\ e \in Entries /\ DOMAIN g = {f \in Fields : m[f] # n[f]}
            /\ \A f \in DOMAIN g : g[f] = n[f]
        BY <3>2, <3>3, ChangesAreEntries
      <3>6. /\ new \in Records /\ new.meta = n /\ new.review = old.review
        BY <1>1, <1>2, <1>3, <3>4 DEF Records
      <3>7. Announced(w.entries) = DOMAIN g
        <4>1. \A f : Mentions(<<e>>, f) = IF f \in DOMAIN g THEN {1} ELSE {}
          BY <3>3 DEF Mentions, Positions
        <4> QED  BY <3>4, <3>5, <4>1 DEF Announced
      <3>8. y = (x \cup {f \in Fields : old.meta[f] # m[f]}) \ DOMAIN g
        BY <1>1, <3>4, <3>7 DEF SetBack
      <3>9. ASSUME NEW f \in Fields \ y
            PROVE  IF f \in DOMAIN g THEN n[f] = g[f] ELSE f \notin x /\ n[f] = old.meta[f]
        BY <3>5, <3>8
      <3> QED  BY <3>3, <3>4, <3>5, <3>6, <3>9
    <2>2. CASE \E v \in Statuses : w = [NoWrite EXCEPT !.review = v, !.entries = Review(v)]
      <3>1. PICK v \in Statuses : w = [NoWrite EXCEPT !.review = v, !.entries = Review(v)]
        BY <2>2
      <3>2. PICK e : e = [type |-> "review", newValue |-> v]  OBVIOUS
      <3>3. w.meta = None /\ w.read = None /\ w.review = v /\ w.entries = <<e>>
        BY <3>1, <3>2 DEF NoWrite, Review
      <3>4. new \in Records /\ new.review = v /\ new.meta = old.meta
        BY <1>1, <1>2, <1>3, <3>3 DEF Records
      <3>5. y = x  BY <3>3 DEF SetBack
      <3>6. e \in Entries  BY <3>2 DEF Entries
      <3> QED  BY <3>2, <3>3, <3>4, <3>5, <3>6
    <2> QED  BY <2>1, <2>2, WriteKinds, Zenon
  <1>5. s \o w.entries = Append(s, e) /\ Append(s, e) \in Seq(Entries)  BY <1>4
  <1>6. /\ Follows(new, Append(s, e), y)
        /\ Positions(Append(s, e), "created") = Positions(s, "created")
        /\ Unannounced(old, s, x) => Unannounced(new, Append(s, e), y)
    BY <1>4, ChangeFollows
  <1> QED  BY <1>3, <1>4, <1>5, <1>6
----
(* Requests.                                                               *)

LEMMA TailNotEmpty ==
    ASSUME NEW S, NEW s \in Seq(S), Len(s) > 1
    PROVE  Tail(s) \in Seq(S) /\ Tail(s) # <<>>
  <1>1. s # <<>> /\ Len(s) \in Nat  OBVIOUS
  <1>2. PICK t \in Seq(S) : t = Tail(s) /\ Len(t) = Len(s) - 1
    BY <1>1, HeadTailProperties, Zenon
  <1>3. Len(t) = Len(s) - 1  BY <1>2, Zenon
  <1>4. \A m, n : m \in Nat /\ m > 1 /\ n = m - 1 => n # 0  OBVIOUS
  <1>5. Len(t) # 0  BY <1>1, <1>3, <1>4, Zenon
  <1>6. t # <<>>  BY <1>5
  <1> QED  BY <1>2, <1>6, Zenon

(* A transaction that goes on keeps what it has executed.                  *)
LEMMA AdvancedFacts ==
    ASSUME NEW r \in Requests
    PROVE  /\ Advanced(r) \in Requests
           /\ Advanced(r).kind = r.kind /\ Advanced(r).control = r.control
           /\ Advanced(r).pending = r.pending
           /\ Advanced(r).pc \in {"select", "commit"}
           /\ Advanced(r).pc = "select" =>
                r.kind = "upsert" /\ Advanced(r).inputs # <<>>
  <1>1. NoWrite \in Writes  BY WriteFacts
  <1>2. r.inputs \in Seq(Inputs)  BY DEF Requests
  <1>3. CASE r.kind = "upsert" /\ Len(r.inputs) > 1
    <2>1. Tail(r.inputs) \in Seq(Inputs) /\ Tail(r.inputs) # <<>>
      BY <1>2, <1>3, TailNotEmpty
    <2>2. Advanced(r) = [r EXCEPT !.pc = "select", !.inputs = Tail(r.inputs), !.write = NoWrite]
      BY <1>3 DEF Advanced
    <2> QED  BY <1>1, <1>3, <2>1, <2>2 DEF Requests
  <1>4. CASE ~ (r.kind = "upsert" /\ Len(r.inputs) > 1)
    <2>1. Advanced(r) = [r EXCEPT !.pc = "commit", !.inputs = <<>>, !.write = NoWrite]
      BY <1>4 DEF Advanced
    <2>2. <<>> \in Seq(Inputs)  OBVIOUS
    <2> QED  BY <1>1, <2>1, <2>2 DEF Requests
  <1> QED  BY <1>3, <1>4

LEMMA IdleFacts ==
    /\ Idle \in Requests /\ Idle.pc = "idle"
    /\ \A k \in Controls : Idle.pending[k] = NoWrite
  <1>1. NoWrite \in Writes  BY WriteFacts
  <1>2. [k \in Controls |-> NoWrite] \in [Controls -> Writes]  BY <1>1
  <1>3. <<>> \in Seq(Inputs)  OBVIOUS
  <1> QED  BY <1>1, <1>2, <1>3 DEF Idle, Requests

(* What a request has executed rests on its locks.                         *)
LEMMA GoodFacts ==
    ASSUME ReviewInv, NEW c \in Clients
    PROVE  /\ req[c] \in Requests /\ Good(c, req[c])
           /\ \A k \in Controls :
                /\ records[k] \in Records \cup {None} /\ timeline[k] \in Seq(Entries)
                /\ setBack[k] \in SUBSET Fields
                /\ Follows(records[k], timeline[k], setBack[k])
  BY DEF ReviewInv, TypeOK, RecordsFollowActivity

(* Only one client's request changes, and no lock that another one holds;  *)
(* the tables stay, and the promise of an activity is broken by a failure. *)
Calm(c, r) ==
    /\ Set(c, r) /\ UNCHANGED Tables
    /\ lock' \in [Controls -> Clients \cup {None}]
    /\ \A k \in Controls, d \in Clients \ {c} : lock[k] = d => lock'[k] = d
    /\ requests' \in Nat /\ failures' \in Nat
    /\ failures' = 0 => failures = 0
    /\ At(c, "append") => failures' # 0

LEMMA CalmStep ==
    ASSUME ReviewInv, NEW c \in Clients, NEW r \in Requests, Calm(c, r),
           r.pc # "append", Good(c, r)'
    PROVE  ReviewInv'
  <1>1. /\ req \in [Clients -> Requests] /\ req' = [req EXCEPT ![c] = r]
        /\ records' = records /\ timeline' = timeline /\ setBack' = setBack
    BY DEF ReviewInv, TypeOK, Calm, Set, Tables
  <1>2. req'[c] = r /\ \A d \in Clients \ {c} : req'[d] = req[d]  BY <1>1
  <1>3. TypeOK'  BY <1>1 DEF ReviewInv, TypeOK, Calm
  <1>4. RecordsFollowActivity'
    BY <1>1 DEF ReviewInv, RecordsFollowActivity
  <1>5. OneCreation'
    <2> SUFFICES ASSUME NEW k \in Controls
                 PROVE  /\ AtMostOne(Positions(timeline[k], "created"))
                        /\ records[k] # None /\ failures' = 0 =>
                             \/ Positions(timeline[k], "created") # {}
                             \/ \E d \in Clients : At(d, "append")' /\ req'[d].control = k
      BY <1>1 DEF OneCreation
    <2>1. AtMostOne(Positions(timeline[k], "created"))
      BY DEF ReviewInv, OneCreation
    <2>2. ASSUME records[k] # None, failures' = 0, Positions(timeline[k], "created") = {}
          PROVE  \E d \in Clients : At(d, "append")' /\ req'[d].control = k
      <3>1. PICK d \in Clients : At(d, "append") /\ req[d].control = k
        BY <2>2 DEF ReviewInv, OneCreation, Calm
      <3>2. d # c  BY <2>2, <3>1 DEF Calm
      <3> QED  BY <1>2, <3>1, <3>2 DEF At
    <2> QED  BY <2>1, <2>2
  <1>6. ASSUME NEW d \in Clients \ {c}  PROVE Good(d, req[d])'
    <2>1. Good(d, req[d])  BY DEF ReviewInv
    <2>2. req'[d] = req[d]  BY <1>2
    <2>3. \A k \in Controls : lock[k] = d => lock'[k] = d  BY DEF Calm
    <2> QED  BY <1>1, <2>1, <2>2, <2>3 DEF Good
  <1>7. Good(c, req[c])'  BY <1>2
  <1>8. \A d \in Clients : At(d, "append")' => At(d, "append") /\ req'[d] = req[d]
    BY <1>2 DEF At
  <1>9. ASSUME NEW d \in Clients, NEW e \in Clients,
               At(d, "append")', At(e, "append")', req'[d].control = req'[e].control
        PROVE  d = e
    BY <1>8, <1>9 DEF ReviewInv
  <1> QED  BY <1>3, <1>4, <1>5, <1>6, <1>7, <1>9 DEF ReviewInv

(* COMMIT of nothing and ROLLBACK.                                         *)
Ended(c, outcome) ==
    [Idle EXCEPT !.pc = "done", !.kind = req[c].kind, !.outcome = outcome]

LEMMA EndCalm ==
    ASSUME ReviewInv, NEW c \in Clients,
           NEW outcome \in {"ok", "conflict", "invalid-transition", "error"},
           End(c, outcome), UNCHANGED <<Tables, requests>>, failures' \in Nat,
           failures' = 0 => failures = 0 /\ ~ At(c, "append")
    PROVE  ReviewInv'
  <1>0. PICK r : r = Ended(c, outcome)  OBVIOUS
  <1>1. req[c] \in Requests  BY GoodFacts
  <1>2. r \in Requests /\ r.pc = "done" /\ \A k \in Controls : r.pending[k] = NoWrite
    BY <1>0, <1>1, IdleFacts DEF Ended, Requests
  <1>3. Set(c, r)  BY <1>0 DEF End, Ended
  <1>4. /\ lock' \in [Controls -> Clients \cup {None}]
        /\ \A k \in Controls, d \in Clients \ {c} : lock[k] = d => lock'[k] = d
    BY DEF End, ReviewInv, TypeOK
  <1>5. Calm(c, r)
    BY <1>3, <1>4 DEF Calm, ReviewInv, TypeOK
  <1>6. NoWrite \notin Creations \cup Updates  BY WriteFacts
  <1>7. Good(c, r)'  BY <1>2, <1>6 DEF Good, Carries
  <1> QED  BY <1>2, <1>5, <1>7, CalmStep

(* Answering and starting an action.                                       *)
LEMMA FreshCalm ==
    ASSUME ReviewInv, NEW c \in Clients, NEW r \in Requests, Set(c, r),
           At(c, "idle") \/ At(c, "done"), UNCHANGED <<Tables, lock, failures>>,
           requests' \in Nat, r.pc \in {"idle", "select"}, Carries(r),
           \A k \in Controls : r.pending[k] = NoWrite
    PROVE  ReviewInv'
  <1>1. Calm(c, r)  BY DEF Calm, ReviewInv, TypeOK, At
  <1>2. NoWrite \notin Creations \cup Updates  BY WriteFacts
  <1>3. Good(c, r)'  BY <1>2 DEF Good, Carries
  <1> QED  BY <1>1, <1>3, CalmStep

LEMMA RespondInv ==
    ASSUME ReviewInv, NEW c \in Clients, respond(c)
    PROVE  ReviewInv'
  <1>1. Carries(Idle)  BY IdleFacts DEF Carries
  <1>2. requests' \in Nat  BY DEF respond, ReviewInv, TypeOK
  <1>3. /\ Set(c, Idle) /\ At(c, "done")
        /\ UNCHANGED <<Tables, lock, failures>>
    BY DEF respond
  <1> QED  BY <1>1, <1>2, <1>3, IdleFacts, FreshCalm

LEMMA StartInv ==
    ASSUME ReviewInv, NEW c \in Clients, NEW r \in Requests, NEW n \in Nat, Start(c, n, r),
           r.kind \in {"upsert", "transition", "ensure"},
           r.kind = "upsert" => r.inputs # <<>>,
           r.kind # "upsert" => r.control \in Controls,
           r.pending = Idle.pending
    PROVE  ReviewInv'
  <1> DEFINE q == [r EXCEPT !.pc = "select"]
  <1>1. /\ q \in Requests /\ q.pc = "select" /\ q.pending = r.pending
        /\ q.kind = r.kind /\ q.inputs = r.inputs /\ q.control = r.control
    BY DEF Requests
  <1>2. /\ Set(c, q) /\ At(c, "idle") /\ requests' = requests + n
        /\ UNCHANGED <<Tables, lock, failures>>
    BY DEF Start
  <1> HIDE DEF q
  <1>3. \A k \in Controls : q.pending[k] = NoWrite  BY <1>1, IdleFacts
  <1>4. Carries(q)  BY <1>1, <1>3 DEF Carries
  <1>5. requests' \in Nat  BY <1>2 DEF ReviewInv, TypeOK
  <1> QED  BY <1>1, <1>2, <1>3, <1>4, <1>5, FreshCalm

LEMMA UpsertInv ==
    ASSUME ReviewInv, NEW c \in Clients, upsertManyWithActivity(c)
    PROVE  ReviewInv'
  <1>1. PICK n \in 1..Cardinality(Controls) : \E batch \in [1..n -> Inputs] :
          Start(c, n, [Idle EXCEPT !.kind = "upsert", !.inputs = batch])
    BY DEF upsertManyWithActivity
  <1>a. PICK batch \in [1..n -> Inputs] :
          Start(c, n, [Idle EXCEPT !.kind = "upsert", !.inputs = batch])
    BY <1>1
  <1>2. n \in Nat /\ n # 0  OBVIOUS
  <1>3. batch \in Seq(Inputs)  BY <1>2, SeqDef
  <1>4. batch # <<>>
    <2>1. Len(batch) = n  BY <1>2
    <2> QED  BY <1>2, <2>1
  <1> DEFINE r == [Idle EXCEPT !.kind = "upsert", !.inputs = batch]
  <1>5. r \in Requests /\ r.kind = "upsert" /\ r.inputs = batch /\ r.pending = Idle.pending
    BY <1>3, IdleFacts DEF Requests
  <1> HIDE DEF r
  <1>6. Start(c, n, r)  BY <1>a DEF r
  <1> QED  BY <1>2, <1>4, <1>5, <1>6, StartInv

LEMMA TransitionInv ==
    ASSUME ReviewInv, NEW c \in Clients, transitionReviewStatus(c)
    PROVE  ReviewInv'
  <1>1. PICK k \in Controls, a \in Actions : \E e \in StatusesOf(timeline[k]) :
          Start(c, 1, [Idle EXCEPT !.kind = "transition", !.control = k,
                                   !.action = a, !.expected = e])
    BY DEF transitionReviewStatus
  <1>a. PICK e \in StatusesOf(timeline[k]) :
          Start(c, 1, [Idle EXCEPT !.kind = "transition", !.control = k,
                                   !.action = a, !.expected = e])
    BY <1>1
  <1>2. e \in Statuses
    <2>1. timeline[k] \in Seq(Entries)  BY GoodFacts
    <2>2. \A j \in DOMAIN timeline[k] : timeline[k][j] \in Entries  BY <2>1
    <2>3. \A x \in Entries : x.type = "review" => x.newValue \in Statuses  BY DEF Entries
    <2>4. "not_reviewed" \in Statuses  BY DEF Statuses
    <2> QED  BY <2>2, <2>3, <2>4 DEF StatusesOf
  <1> DEFINE r == [Idle EXCEPT !.kind = "transition", !.control = k,
                               !.action = a, !.expected = e]
  <1>3. r \in Requests /\ r.kind = "transition" /\ r.control = k /\ r.pending = Idle.pending
    BY <1>2, IdleFacts DEF Requests
  <1> HIDE DEF r
  <1>4. Start(c, 1, r)  BY <1>a DEF r
  <1> QED  BY <1>3, <1>4, StartInv

LEMMA EnsureInv ==
    ASSUME ReviewInv, NEW c \in Clients, ensureControlRecord(c)
    PROVE  ReviewInv'
  <1>1. PICK k \in Controls : Start(c, 1, [Idle EXCEPT !.kind = "ensure", !.control = k])
    BY DEF ensureControlRecord
  <1> DEFINE r == [Idle EXCEPT !.kind = "ensure", !.control = k]
  <1>2. r \in Requests /\ r.kind = "ensure" /\ r.control = k /\ r.pending = Idle.pending
    BY IdleFacts DEF Requests
  <1> HIDE DEF r
  <1>3. Start(c, 1, r)  BY <1>1 DEF r
  <1> QED  BY <1>2, <1>3, StartInv

----
(* The SELECTs.                                                            *)

(* A transaction goes on to its next input, or executes a statement.       *)
LEMMA GoCalm ==
    ASSUME ReviewInv, NEW c \in Clients, NEW r \in Requests, Set(c, r),
           ~ At(c, "append"), UNCHANGED <<Tables, lock, requests, failures>>,
           r.pc # "append", r.pending = req[c].pending,
           r.pc = "select" => r.kind \in {"upsert", "transition", "ensure"},
           r.pc \in {"select", "write"} /\ r.kind = "upsert" => r.inputs # <<>>,
           r.pc \in {"select", "write"} /\ r.kind # "upsert" => r.control \in Controls,
           r.pc = "write" /\ r.kind # "ensure" =>
             /\ r.control \in Controls
             /\ \/ r.write \in Creations
                \/ r.write \in Updates /\ records[r.control] # None
    PROVE  ReviewInv'
  <1>1. Calm(c, r)  BY DEF Calm, ReviewInv, TypeOK
  <1>2. Good(c, req[c])  BY GoodFacts
  <1>3. /\ lock' = lock /\ records' = records
        /\ Creations \cap Updates = {}
    BY WriteFacts DEF Tables
  <1>4. Carries(r)  BY <1>2 DEF Good, Carries
  <1>5. PICK p : p = req[c].pending  OBVIOUS
  <1>6. r.pending = p  BY <1>5
  <1>7. /\ \A k \in Controls : p[k] # NoWrite => lock[k] = c
        /\ \A k \in Controls : p[k] \in Creations => records[k] = None
        /\ \A k \in Controls : p[k] \in Updates => records[k] # None
    BY <1>2, <1>5 DEF Good
  <1>8. Good(c, r)'  BY <1>3, <1>4, <1>6, <1>7 DEF Good
  <1> QED  BY <1>1, <1>8, CalmStep

LEMMA SelectForUpsertInv ==
    ASSUME ReviewInv, NEW c \in Clients, selectForUpsert(c)
    PROVE  ReviewInv'
  <1>1. req[c] \in Requests /\ Good(c, req[c])  BY GoodFacts
  <1>2. /\ req[c].pc = "select" /\ req[c].kind = "upsert" /\ ~ At(c, "append")
        /\ UNCHANGED <<Tables, lock, requests, failures>>
    BY DEF selectForUpsert, At
  <1>3. PICK i : i = Head(req[c].inputs)  OBVIOUS
  <1>4. i \in Inputs
    <2>1. req[c].inputs \in Seq(Inputs)  BY <1>1 DEF Requests
    <2>2. req[c].inputs # <<>>  BY <1>1, <1>2 DEF Good, Carries
    <2> QED  BY <1>3, <2>1, <2>2, HeadTailProperties, Zenon
  <1>5. i.control \in Controls /\ i.meta \in Metadata  BY <1>4 DEF Inputs
  <1>6. PICK w : w = UpsertWrite(records[i.control], i.meta)  OBVIOUS
  <1>7. Set(c, IF w = NoWrite THEN Advanced(req[c])
               ELSE [req[c] EXCEPT !.pc = "write", !.control = i.control, !.write = w])
    BY <1>3, <1>6 DEF selectForUpsert
  <1>8. CASE w = NoWrite
    <2>1. PICK r : r = Advanced(req[c])  OBVIOUS
    <2>2. Set(c, r)  BY <1>7, <1>8, <2>1
    <2>3. /\ r \in Requests /\ r.kind = "upsert" /\ r.pending = req[c].pending
          /\ r.pc \in {"select", "commit"}
          /\ r.pc = "select" => r.inputs # <<>>
      BY <1>1, <1>2, <2>1, AdvancedFacts
    <2> QED  BY <1>2, <2>2, <2>3, GoCalm
  <1>9. CASE w # NoWrite
    <2>1. \/ w \in Creations
          \/ w \in Updates /\ records[i.control] # None
      <3>1. CASE records[i.control] = None
        BY <1>5, <1>6, <3>1 DEF UpsertWrite, Creations
      <3>2. CASE records[i.control] # None
        <4>1. w = Update(records[i.control].meta, i.meta)
          BY <1>6, <1>9, <3>2 DEF UpsertWrite
        <4>2. records[i.control].meta \in Metadata
          BY <1>5, <3>2, GoodFacts DEF Records
        <4> QED  BY <1>5, <3>2, <4>1, <4>2, WriteKinds, Zenon
      <3> QED  BY <3>1, <3>2
    <2>2. w \in Writes  BY <2>1, WriteFacts
    <2>3. PICK r : r = [req[c] EXCEPT !.pc = "write", !.control = i.control, !.write = w]
      OBVIOUS
    <2>4. Set(c, r)  BY <1>7, <1>9, <2>3
    <2>5. /\ r \in Requests /\ r.pc = "write" /\ r.kind = "upsert" /\ r.write = w
          /\ r.control = i.control /\ r.inputs = req[c].inputs
          /\ r.pending = req[c].pending
      BY <1>1, <1>2, <1>5, <2>2, <2>3 DEF Requests
    <2>6. r.inputs # <<>>  BY <1>1, <1>2, <2>5 DEF Good, Carries
    <2> QED  BY <1>2, <1>5, <2>1, <2>4, <2>5, <2>6, GoCalm
  <1> QED  BY <1>8, <1>9

LEMMA SelectForTransitionInv ==
    ASSUME ReviewInv, NEW c \in Clients, selectForTransition(c)
    PROVE  ReviewInv'
  <1>1. req[c] \in Requests /\ Good(c, req[c])  BY GoodFacts
  <1>2. /\ req[c].pc = "select" /\ req[c].kind = "transition" /\ ~ At(c, "append")
        /\ UNCHANGED <<Tables, requests, failures>>
    BY DEF selectForTransition, At
  <1>3. req[c].control \in Controls  BY <1>1, <1>2 DEF Good, Carries
  <1>4. failures \in Nat  BY DEF ReviewInv, TypeOK
  <1>5. CASE End(c, "conflict") \/ End(c, "invalid-transition")
    BY <1>2, <1>4, <1>5, EndCalm
  <1>6. CASE \E t \in Legal(Reviewed(records[req[c].control]), req[c].action) :
               /\ Set(c, [req[c] EXCEPT !.pc = "write",
                            !.write = TransitionWrite(records[req[c].control], t.to)])
               /\ UNCHANGED lock
    <2>1. PICK t \in Transitions :
               /\ Set(c, [req[c] EXCEPT !.pc = "write",
                            !.write = TransitionWrite(records[req[c].control], t.to)])
               /\ UNCHANGED lock
      BY <1>6 DEF Legal
    <2>2. t.to \in Statuses  BY DEF Transitions, Statuses
    <2>3. PICK w : w = TransitionWrite(records[req[c].control], t.to)  OBVIOUS
    <2>4. \/ w \in Creations
          \/ w \in Updates /\ records[req[c].control] # None
      BY <2>2, <2>3, WriteKinds, Zenon DEF TransitionWrite
    <2>5. w \in Writes  BY <2>4, WriteFacts
    <2>6. PICK r : r = [req[c] EXCEPT !.pc = "write", !.write = w]  OBVIOUS
    <2>7. Set(c, r)  BY <2>1, <2>3, <2>6
    <2>8. /\ r \in Requests /\ r.pc = "write" /\ r.kind = "transition" /\ r.write = w
          /\ r.control = req[c].control /\ r.pending = req[c].pending
      BY <1>1, <1>2, <2>5, <2>6 DEF Requests
    <2>9. UNCHANGED <<Tables, lock, requests, failures>>  BY <1>2, <2>1
    <2> QED  BY <1>2, <1>3, <2>4, <2>7, <2>8, <2>9, GoCalm
  <1> QED  BY <1>5, <1>6 DEF selectForTransition

LEMMA SelectForEnsureInv ==
    ASSUME ReviewInv, NEW c \in Clients, selectForEnsure(c)
    PROVE  ReviewInv'
  <1>1. req[c] \in Requests /\ Good(c, req[c])  BY GoodFacts
  <1>2. /\ req[c].pc = "select" /\ req[c].kind = "ensure" /\ ~ At(c, "append")
        /\ UNCHANGED <<Tables, requests, failures>>
    BY DEF selectForEnsure, At
  <1>3. req[c].control \in Controls  BY <1>1, <1>2 DEF Good, Carries
  <1>4. failures \in Nat  BY DEF ReviewInv, TypeOK
  <1>5. CASE End(c, "ok")
    BY <1>2, <1>4, <1>5, EndCalm
  <1>6. CASE Set(c, [req[c] EXCEPT !.pc = "write"]) /\ UNCHANGED lock
    <2>1. PICK r : r = [req[c] EXCEPT !.pc = "write"]  OBVIOUS
    <2>2. Set(c, r)  BY <1>6, <2>1
    <2>3. /\ r \in Requests /\ r.pc = "write" /\ r.kind = "ensure"
          /\ r.control = req[c].control /\ r.pending = req[c].pending
      BY <1>1, <1>2, <2>1 DEF Requests
    <2>4. UNCHANGED <<Tables, lock, requests, failures>>  BY <1>2, <1>6
    <2> QED  BY <1>2, <1>3, <2>2, <2>3, <2>4, GoCalm
  <1> QED  BY <1>5, <1>6 DEF selectForEnsure

----
(* The statements.                                                         *)

(* An INSERT that the unique key lets through finds no record, an UPDATE   *)
(* finds one: both hold the lock from here to the end.                     *)
LEMMA WriteRecordInv ==
    ASSUME ReviewInv, NEW c \in Clients, writeRecord(c)
    PROVE  ReviewInv'
  <1>1. req[c] \in Requests /\ Good(c, req[c])  BY GoodFacts
  <1>2. /\ req[c].pc = "write" /\ req[c].kind # "ensure" /\ ~ At(c, "append")
        /\ UNCHANGED <<Tables, requests, failures>>
    BY DEF writeRecord, At
  <1>3. failures \in Nat  BY DEF ReviewInv, TypeOK
  <1>4. CASE Refused(req[c])
    <2>1. End(c, "error")  BY <1>4 DEF writeRecord
    <2> QED  BY <1>2, <1>3, <2>1, EndCalm
  <1>5. CASE ~ Refused(req[c])
    <2>1. PICK k : k = req[c].control  OBVIOUS
    <2>2. PICK w : w = req[c].write  OBVIOUS
    <2>3. k \in Controls /\ w \in Creations \cup Updates
      BY <1>1, <1>2, <2>1, <2>2 DEF Good, Carries
    <2>4. /\ lock[k] \in {None, c} /\ lock' = [lock EXCEPT ![k] = c]
          /\ Set(c, Advanced([req[c] EXCEPT !.pending[k] = w]))
      BY <1>5, <2>1, <2>2 DEF writeRecord
    <2>5. w \in Creations => records[k] = None
      BY <1>5, <2>1, <2>2, WriteFacts DEF Refused
    <2>6. w \in Updates => records[k] # None
      BY <1>1, <1>2, <2>1, <2>2 DEF Good
    <2>7. w \in Writes  BY <2>3, WriteFacts
    <2>8. PICK p : p = req[c].pending  OBVIOUS
    <2>9. p \in [Controls -> Writes]  BY <1>1, <2>8 DEF Requests
    <2>10. PICK q : q = [req[c] EXCEPT !.pending[k] = w]  OBVIOUS
    <2>11. q \in Requests /\ q.pending = [p EXCEPT ![k] = w] /\ q.kind = req[c].kind
      BY <1>1, <2>3, <2>7, <2>8, <2>9, <2>10 DEF Requests
    <2>12. PICK r : r = Advanced(q)  OBVIOUS
    <2>13. Set(c, r)  BY <2>4, <2>10, <2>12
    <2>14. /\ r \in Requests /\ r.pending = [p EXCEPT ![k] = w]
           /\ r.pc \in {"select", "commit"}
           /\ r.pc = "select" => r.kind = "upsert" /\ r.inputs # <<>>
      BY <2>11, <2>12, AdvancedFacts
    <2>15. lock \in [Controls -> Clients \cup {None}]  BY DEF ReviewInv, TypeOK
    <2>16. /\ lock' \in [Controls -> Clients \cup {None}] /\ lock'[k] = c
           /\ \A j \in Controls : j # k => lock'[j] = lock[j]
      BY <2>3, <2>4, <2>15
    <2>17. c # None  BY ReviewAssumption
    <2>18. \A j \in Controls, d \in Clients \ {c} : lock[j] = d => lock'[j] = d
      BY <2>4, <2>16, ReviewAssumption
    <2>19. Calm(c, r)
      BY <1>2, <2>13, <2>16, <2>18 DEF Calm, ReviewInv, TypeOK
    <2>20. /\ \A j \in Controls : p[j] \in {NoWrite} \cup Creations \cup Updates
           /\ \A j \in Controls : p[j] # NoWrite => lock[j] = c
           /\ \A j \in Controls : p[j] \in Creations => records[j] = None
           /\ \A j \in Controls : p[j] \in Updates => records[j] # None
      BY <1>1, <2>8 DEF Good, Carries
    <2>21. r.pending[k] = w /\ \A j \in Controls : j # k => r.pending[j] = p[j]
      BY <2>3, <2>9, <2>14
    <2>22. Carries(r)  BY <2>3, <2>14, <2>20, <2>21 DEF Carries
    <2>23. records' = records  BY <1>2 DEF Tables
    <2>24. \A j \in Controls : r.pending[j] # NoWrite => lock'[j] = c
      BY <2>16, <2>20, <2>21
    <2>25. \A j \in Controls : r.pending[j] \in Creations => records[j] = None
      BY <2>5, <2>20, <2>21
    <2>26. \A j \in Controls : r.pending[j] \in Updates => records[j] # None
      BY <2>6, <2>20, <2>21
    <2>27. Good(c, r)'  BY <2>14, <2>22, <2>23, <2>24, <2>25, <2>26 DEF Good
    <2> QED  BY <2>14, <2>19, <2>27, CalmStep
  <1> QED  BY <1>4, <1>5

LEMMA FailInv ==
    ASSUME ReviewInv, NEW c \in Clients, fail(c)
    PROVE  ReviewInv'
  <1>1. /\ End(c, "error") /\ UNCHANGED <<Tables, requests>>
        /\ failures' = failures + 1
    BY DEF fail
  <1>2. failures \in Nat  BY DEF ReviewInv, TypeOK
  <1>3. failures' \in Nat /\ failures' # 0  BY <1>1, <1>2
  <1> QED  BY <1>1, <1>3, EndCalm

LEMMA DeadlockInv ==
    ASSUME ReviewInv, NEW c \in Clients, deadlockDetected(c)
    PROVE  ReviewInv'
  <1>1. End(c, "error") /\ UNCHANGED <<Tables, requests, failures>>
    BY DEF deadlockDetected
  <1>2. At(c, "write")  BY DEF deadlockDetected, Waiting
  <1>3. ~ At(c, "append")  BY <1>2 DEF At
  <1>4. failures \in Nat  BY DEF ReviewInv, TypeOK
  <1> QED  BY <1>1, <1>3, <1>4, EndCalm

(* The others are not surprised by a change of the tables: no record goes, *)
(* and none comes under a lock of theirs.                                  *)
LEMMA OthersStayGood ==
    ASSUME ReviewInv, NEW c \in Clients, NEW d \in Clients \ {c}, NEW r, Set(c, r),
           \A k \in Controls : records[k] # None => records'[k] # None,
           \A k \in Controls : lock[k] = d => lock'[k] = d /\ (records[k] = None => records'[k] = None),
           \A k \in Controls : At(d, "append") /\ req[d].control = k =>
              (Unannounced(records[k], timeline[k], setBack[k])
                 => Unannounced(records'[k], timeline'[k], setBack'[k]))
    PROVE  req'[d] = req[d] /\ Good(d, req[d])'
  <1>1. req'[d] = req[d]  BY DEF ReviewInv, TypeOK, Set
  <1>2. PICK q : q = req[d]  OBVIOUS
  <1>3. Good(d, q)  BY <1>2, GoodFacts
  <1>4. Carries(q)  BY <1>3 DEF Good
  <1>5. q.pc = "append" =>
          Unannounced(records'[q.control], timeline'[q.control], setBack'[q.control])
    BY <1>2, <1>3, <1>4 DEF Good, Carries, At
  <1>6. q.pc = "write" /\ q.kind # "ensure" /\ q.write \in Updates => records'[q.control] # None
    BY <1>3, <1>4 DEF Good, Carries
  <1>7. NoWrite \notin Creations  BY WriteFacts
  <1>8. \A k \in Controls : q.pending[k] \in Creations => records'[k] = None
    BY <1>3, <1>7 DEF Good
  <1>9. Good(d, q)'
    BY <1>3, <1>4, <1>5, <1>6, <1>8 DEF Good
  <1> QED  BY <1>1, <1>2, <1>9

LEMMA InsertRecordInv ==
    ASSUME ReviewInv, NEW c \in Clients, insertRecord(c)
    PROVE  ReviewInv'
  <1>1. req[c] \in Requests /\ Good(c, req[c])  BY GoodFacts
  <1>2. PICK k : k = req[c].control  OBVIOUS
  <1>3. /\ req[c].pc = "write" /\ req[c].kind = "ensure" /\ lock[k] = None
        /\ timeline' = timeline /\ setBack' = setBack /\ UNCHANGED <<requests, failures>>
    BY <1>2 DEF insertRecord, At
  <1>4. k \in Controls  BY <1>1, <1>2, <1>3 DEF Good, Carries
  <1>5. /\ records \in [Controls -> Records \cup {None}]
        /\ req \in [Clients -> Requests] /\ failures \in Nat
    BY DEF ReviewInv, TypeOK
  <1>6. CASE End(c, "error") /\ UNCHANGED records
    <2>1. ~ At(c, "append") /\ UNCHANGED <<Tables, requests>>
      BY <1>3, <1>6 DEF At, Tables
    <2> QED  BY <1>3, <1>5, <1>6, <2>1, EndCalm
  <1>7. CASE /\ records[k] = None
             /\ records' = [records EXCEPT ![k] = [meta |-> Default, review |-> "not_reviewed"]]
             /\ Set(c, [req[c] EXCEPT !.pc = "append"])
             /\ lock' = lock
    <2>1. PICK new : new = [meta |-> Default, review |-> "not_reviewed"]  OBVIOUS
    <2>2. new \in Records /\ new # None
      BY <2>1, ReviewAssumption DEF Records, Statuses
    <2>3. /\ records' \in [Controls -> Records \cup {None}] /\ records'[k] = new
          /\ \A j \in Controls : j # k => records'[j] = records[j]
      BY <1>4, <1>5, <1>7, <2>1, <2>2
    <2>4. PICK r : r = [req[c] EXCEPT !.pc = "append"]  OBVIOUS
    <2>5. /\ r \in Requests /\ r.pc = "append" /\ r.kind = "ensure" /\ r.control = k
          /\ r.pending = req[c].pending
      BY <1>1, <1>2, <1>3, <2>4 DEF Requests
    <2>6. Set(c, r)  BY <1>7, <2>4
    <2>7. req' = [req EXCEPT ![c] = r] /\ req'[c] = r  BY <1>5, <2>6 DEF Set
    <2>8. TypeOK'
      BY <1>3, <1>7, <2>3, <2>5, <2>7 DEF ReviewInv, TypeOK
    <2>9. timeline[k] = <<>>  BY <1>4, <1>7, GoodFacts DEF Follows
    <2>10. \A t : Positions(timeline[k], t) = {} /\ Mentions(timeline[k], t) = {}
      BY <2>9 DEF Positions, Mentions
    <2>11. Follows(new, timeline[k], setBack[k])
      BY <2>1, <2>2, <2>10 DEF Follows, StatusFollows, FieldFollows, LastOf
    <2>12. RecordsFollowActivity'
      BY <1>3, <2>3, <2>11 DEF ReviewInv, RecordsFollowActivity
    <2>13. Unannounced(new, timeline[k], setBack[k])
      BY <2>1, <2>2, <2>10 DEF Unannounced
    <2>14. \A j \in Controls, d \in Clients : lock[j] = d => j # k
      BY <1>3, ReviewAssumption
    <2>15. ASSUME NEW d \in Clients \ {c}  PROVE req'[d] = req[d] /\ Good(d, req[d])'
      <3>1. ASSUME NEW j \in Controls, At(d, "append"), req[d].control = j,
                   Unannounced(records[j], timeline[j], setBack[j])
            PROVE  Unannounced(records'[j], timeline'[j], setBack'[j])
        <4>1. j # k  BY <1>7, <3>1 DEF Unannounced
        <4> QED  BY <1>3, <2>3, <3>1, <4>1
      <3>2. \A j \in Controls : lock[j] = d =>
              lock'[j] = d /\ (records[j] = None => records'[j] = None)
        BY <1>7, <2>3, <2>14
      <3>3. \A j \in Controls : records[j] # None => records'[j] # None
        BY <2>2, <2>3
      <3> QED  BY <2>6, <3>1, <3>2, <3>3, OthersStayGood
    <2>16. Good(c, r)'
      <3>1. \A j \in Controls : r.pending[j] # NoWrite => lock[j] = c /\ j # k
        BY <1>1, <2>5, <2>14 DEF Good
      <3>2. NoWrite \notin Creations \cup Updates  BY WriteFacts
      <3>3. \A j \in Controls : r.pending[j] \in Creations => records'[j] = None
        BY <1>1, <2>3, <2>5, <3>1, <3>2 DEF Good
      <3>4. \A j \in Controls : r.pending[j] \in Updates => records'[j] # None
        BY <1>1, <2>3, <2>5, <3>1, <3>2 DEF Good
      <3>5. Carries(r)  BY <1>1, <1>4, <2>5 DEF Good, Carries
      <3>6. Unannounced(records'[r.control], timeline'[r.control], setBack'[r.control])
        BY <1>3, <2>3, <2>5, <2>13
      <3> QED  BY <1>7, <2>5, <3>1, <3>3, <3>4, <3>5, <3>6 DEF Good
    <2>17. OneCreation'
      <3> SUFFICES ASSUME NEW j \in Controls
                   PROVE  /\ AtMostOne(Positions(timeline[j], "created"))
                          /\ records'[j] # None /\ failures = 0 =>
                               \/ Positions(timeline[j], "created") # {}
                               \/ \E d \in Clients : At(d, "append")' /\ req'[d].control = j
        BY <1>3 DEF OneCreation
      <3>1. AtMostOne(Positions(timeline[j], "created"))
        BY DEF ReviewInv, OneCreation
      <3>2. CASE j = k
        BY <2>5, <2>7, <3>1, <3>2 DEF At
      <3>3. ASSUME j # k, records'[j] # None, failures = 0,
                   Positions(timeline[j], "created") = {}
            PROVE  \E d \in Clients : At(d, "append")' /\ req'[d].control = j
        <4>1. records[j] # None  BY <2>3, <3>3
        <4>2. PICK d \in Clients : At(d, "append") /\ req[d].control = j
          BY <3>3, <4>1 DEF ReviewInv, OneCreation
        <4>3. d # c  BY <1>3, <4>2 DEF At
        <4> QED  BY <2>15, <4>2, <4>3 DEF At
      <3> QED  BY <3>1, <3>2, <3>3
    <2>18. ASSUME NEW d \in Clients, At(d, "append")', d # c
           PROVE  At(d, "append") /\ req'[d].control = req[d].control /\ req[d].control # k
      <3>1. At(d, "append") /\ req'[d] = req[d]  BY <2>15, <2>18 DEF At
      <3>2. records[req[d].control] # None
        BY <3>1, GoodFacts DEF Good, Unannounced, At
      <3> QED  BY <1>7, <3>1, <3>2
    <2>19. ASSUME NEW d \in Clients, NEW e \in Clients,
                  At(d, "append")', At(e, "append")', req'[d].control = req'[e].control
           PROVE  d = e
      BY <2>5, <2>7, <2>18, <2>19 DEF ReviewInv
    <2>20. \A d \in Clients : Good(d, req[d])'
      BY <2>7, <2>15, <2>16
    <2> QED  BY <2>8, <2>12, <2>17, <2>19, <2>20 DEF ReviewInv
  <1> QED  BY <1>2, <1>6, <1>7 DEF insertRecord

(* COMMIT applies every statement: what was decided to be an INSERT finds  *)
(* no record, what was decided to be an UPDATE finds one.                  *)
LEMMA CommitInv ==
    ASSUME ReviewInv, NEW c \in Clients, commit(c)
    PROVE  ReviewInv'
  <1>1. req[c] \in Requests /\ Good(c, req[c])  BY GoodFacts
  <1>2. PICK p : p = req[c].pending  OBVIOUS
  <1>3. /\ req[c].pc = "commit"
        /\ records' = [k \in Controls |-> Applied(records[k], p[k])]
        /\ timeline' = [k \in Controls |-> timeline[k] \o p[k].entries]
        /\ setBack' = [k \in Controls |-> SetBack(records[k], p[k], setBack[k])]
        /\ End(c, "ok") /\ UNCHANGED <<requests, failures>>
    BY <1>2 DEF commit, At
  <1>4. PICK r : r = Ended(c, "ok")  OBVIOUS
  <1>5. /\ r \in Requests /\ r.pc = "done"
        /\ \A k \in Controls : r.pending[k] = NoWrite
    BY <1>1, <1>4, IdleFacts DEF Ended, Requests
  <1>6. Set(c, r)  BY <1>3, <1>4 DEF End, Ended
  <1>7. req' = [req EXCEPT ![c] = r] /\ req'[c] = r
    BY <1>6 DEF Set, ReviewInv, TypeOK
  <1>8. /\ lock' \in [Controls -> Clients \cup {None}]
        /\ \A k \in Controls : lock'[k] = IF lock[k] = c THEN None ELSE lock[k]
    BY <1>3 DEF End, ReviewInv, TypeOK
  <1>9. \A k \in Controls :
          /\ p[k] # NoWrite => lock[k] = c
          /\ \/ p[k] = NoWrite
             \/ p[k] \in Creations /\ records[k] = None
             \/ p[k] \in Updates /\ records[k] # None
    BY <1>1, <1>2 DEF Good, Carries
  <1>10. ASSUME NEW k \in Controls
         PROVE  /\ records'[k] \in Records \cup {None} /\ timeline'[k] \in Seq(Entries)
                /\ setBack'[k] \in SUBSET Fields
                /\ Follows(records'[k], timeline'[k], setBack'[k])
                /\ records[k] # None => records'[k] # None
                /\ lock[k] # c => records'[k] = records[k]
                /\ Positions(timeline'[k], "created")
                     = IF p[k] \in Creations THEN {1} ELSE Positions(timeline[k], "created")
                /\ records[k] = None /\ records'[k] # None => p[k] \in Creations
                /\ Unannounced(records[k], timeline[k], setBack[k])
                     => Unannounced(records'[k], timeline'[k], setBack'[k])
    <2>1. /\ records'[k] = Applied(records[k], p[k])
          /\ timeline'[k] = timeline[k] \o p[k].entries
          /\ setBack'[k] = SetBack(records[k], p[k], setBack[k])
      BY <1>3
    <2>2. /\ records[k] \in Records \cup {None} /\ timeline[k] \in Seq(Entries)
          /\ setBack[k] \in SUBSET Fields
          /\ Follows(records[k], timeline[k], setBack[k])
      BY GoodFacts
    <2>a. setBack'[k] \in SUBSET Fields  BY <2>1, <2>2 DEF SetBack
    <2>3. NoWrite \notin Creations /\ Creations \cap Updates = {} /\ None \notin Records
      BY WriteFacts, ReviewAssumption
    <2>4. CASE p[k] = NoWrite
      <3>1. records'[k] = records[k]  BY <2>1, <2>4 DEF Applied
      <3>2. p[k].entries = <<>> /\ p[k].read = None  BY <2>4 DEF NoWrite
      <3>3. timeline'[k] = timeline[k]  BY <2>1, <2>2, <3>2, ConcatEmptySeq
      <3>4. setBack'[k] = setBack[k]  BY <2>1, <3>2 DEF SetBack
      <3> QED  BY <2>2, <2>3, <2>4, <3>1, <3>3, <3>4
    <2>5. CASE p[k] \in Creations /\ records[k] = None
      <3>1. timeline[k] = <<>>  BY <2>2, <2>5 DEF Follows
      <3>2. PICK w \in Creations : w = p[k]  BY <2>5
      <3>3. records'[k] = Applied(None, w) /\ timeline'[k] = <<>> \o w.entries
        BY <2>1, <2>5, <3>1, <3>2
      <3>4. /\ records'[k] \in Records /\ timeline'[k] \in Seq(Entries)
            /\ Follows(records'[k], timeline'[k], setBack'[k])
            /\ Positions(timeline'[k], "created") = {1}
        BY <3>3, CreationApplied
      <3>5. lock[k] = c  BY <1>9, <2>3, <2>5
      <3> QED  BY <2>5, <2>a, <3>4, <3>5 DEF Unannounced
    <2>6. CASE p[k] \in Updates /\ records[k] # None
      <3>1. PICK w \in Updates, old \in Records, s \in Seq(Entries) :
              w = p[k] /\ old = records[k] /\ s = timeline[k]
        BY <2>2, <2>6
      <3>2. PICK x, y : x = setBack[k] /\ y = SetBack(old, w, x)  OBVIOUS
      <3>a. Follows(old, s, x) /\ y = setBack'[k]  BY <2>1, <2>2, <3>1, <3>2
      <3>3. /\ Applied(old, w) \in Records
            /\ s \o w.entries \in Seq(Entries)
            /\ Follows(Applied(old, w), s \o w.entries, y)
            /\ Positions(s \o w.entries, "created") = Positions(s, "created")
            /\ Unannounced(old, s, x) => Unannounced(Applied(old, w), s \o w.entries, y)
        BY <3>2, <3>a, UpdateApplied
      <3>4. records'[k] = Applied(old, w) /\ timeline'[k] = s \o w.entries
        BY <2>1, <3>1
      <3>5. lock[k] = c  BY <1>9, <2>6, WriteFacts
      <3>6. p[k] \notin Creations  BY <2>3, <2>6
      <3>7. records'[k] # None  BY <2>3, <3>3, <3>4
      <3> QED  BY <2>6, <2>a, <3>1, <3>2, <3>a, <3>3, <3>4, <3>5, <3>6, <3>7
    <2> QED  BY <1>9, <2>4, <2>5, <2>6
  <1>11. TypeOK'
    <2>1. /\ records' \in [Controls -> Records \cup {None}]
          /\ timeline' \in [Controls -> Seq(Entries)]
          /\ setBack' \in [Controls -> SUBSET Fields]
      BY <1>3, <1>10
    <2> QED  BY <1>3, <1>5, <1>7, <1>8, <2>1 DEF ReviewInv, TypeOK
  <1>12. RecordsFollowActivity'  BY <1>10 DEF RecordsFollowActivity
  <1>13. ASSUME NEW d \in Clients \ {c}  PROVE req'[d] = req[d] /\ Good(d, req[d])'
    <2>1. \A k \in Controls : lock[k] = d =>
            lock'[k] = d /\ (records[k] = None => records'[k] = None)
      BY <1>8, <1>10
    <2> QED  BY <1>6, <1>10, <2>1, OthersStayGood
  <1>14. Good(c, r)'
    <2>1. NoWrite \notin Creations \cup Updates  BY WriteFacts
    <2> QED  BY <1>5, <2>1 DEF Good, Carries
  <1>15. OneCreation'
    <2> SUFFICES ASSUME NEW k \in Controls
                 PROVE  /\ AtMostOne(Positions(timeline'[k], "created"))
                        /\ records'[k] # None /\ failures = 0 =>
                             \/ Positions(timeline'[k], "created") # {}
                             \/ \E d \in Clients : At(d, "append")' /\ req'[d].control = k
      BY <1>3 DEF OneCreation
    <2>1. AtMostOne(Positions(timeline'[k], "created"))
      BY <1>10 DEF ReviewInv, OneCreation, AtMostOne
    <2>2. ASSUME records'[k] # None, failures = 0,
                 Positions(timeline'[k], "created") = {}
          PROVE  \E d \in Clients : At(d, "append")' /\ req'[d].control = k
      <3>1. records[k] # None /\ Positions(timeline[k], "created") = {}
        BY <1>10, <2>2
      <3>2. PICK d \in Clients : At(d, "append") /\ req[d].control = k
        BY <2>2, <3>1 DEF ReviewInv, OneCreation
      <3>3. d # c  BY <1>3, <3>2 DEF At
      <3> QED  BY <1>13, <3>2, <3>3 DEF At
    <2> QED  BY <2>1, <2>2
  <1>16. \A d \in Clients : At(d, "append")' => At(d, "append") /\ req'[d] = req[d]
    BY <1>5, <1>7, <1>13 DEF At
  <1>17. ASSUME NEW d \in Clients, NEW e \in Clients,
                At(d, "append")', At(e, "append")', req'[d].control = req'[e].control
         PROVE  d = e
    BY <1>16, <1>17 DEF ReviewInv
  <1>18. \A d \in Clients : Good(d, req[d])'  BY <1>7, <1>13, <1>14
  <1> QED  BY <1>11, <1>12, <1>15, <1>17, <1>18 DEF ReviewInv

(* The late activity says what the record was inserted with, unless a      *)
(* later one about the metadata has been written before it.                *)
LEMMA LateCreation ==
    ASSUME NEW old \in Records, NEW s \in Seq(Entries), NEW x,
           Follows(old, s, x), Unannounced(old, s, x),
           NEW e \in Entries, e.type = "created", e.newValue = Default
    PROVE  /\ Append(s, e) \in Seq(Entries)
           /\ Follows(old, Append(s, e), x)
           /\ Positions(Append(s, e), "created") = {Len(s) + 1}
  <1>1. Positions(Append(s, e), e.type) = Positions(s, e.type) \cup {Len(s) + 1}
    BY PositionsAfter, Zenon
  <1>2. Positions(s, "created") = {}  BY DEF Unannounced
  <1>3. Positions(Append(s, e), "created") = {Len(s) + 1}  BY <1>1, <1>2
  <1>4. old # None  BY ReviewAssumption
  <1>5. StatusFollows(old, Append(s, e))  BY <1>4, StatusAfter DEF Follows
  <1>6. Len(s) \in Nat /\ \A i \in DOMAIN s : Append(s, e)[i] = s[i]  OBVIOUS
  <1>7. ASSUME NEW f \in Fields \ x  PROVE FieldFollows(old, Append(s, e), f)
    <2>1. Mentions(Append(s, e), f) = Mentions(s, f)  BY MentionsAfter
    <2>2. CASE Mentions(s, f) = {}
      <3>1. old.meta[f] = Default[f]  BY <2>2 DEF Unannounced
      <3>2. Append(s, e)[Len(s) + 1] = e  BY PositionsAfter
      <3> QED  BY <1>3, <2>1, <2>2, <3>1, <3>2 DEF FieldFollows, LastOf
    <2>3. CASE Mentions(s, f) # {}
      <3>1. \A i \in LastOf(Mentions(s, f)) : Append(s, e)[i] = s[i]
        BY <1>6 DEF LastOf, Mentions, Positions
      <3>2. FieldFollows(old, s, f)  BY <1>4 DEF Follows
      <3>3. \A i \in LastOf(Mentions(s, f)) : s[i].newValue[f] = old.meta[f]
        BY <2>3, <3>2 DEF FieldFollows
      <3> QED  BY <2>1, <2>3, <3>1, <3>3 DEF FieldFollows
    <2> QED  BY <2>2, <2>3
  <1> QED  BY <1>3, <1>4, <1>5, <1>7 DEF Follows

LEMMA AppendCreatedInv ==
    ASSUME ReviewInv, NEW c \in Clients, appendCreated(c)
    PROVE  ReviewInv'
  <1>1. req[c] \in Requests /\ Good(c, req[c])  BY GoodFacts
  <1>2. PICK k : k = req[c].control  OBVIOUS
  <1>3. PICK e : e = [type |-> "created", newValue |-> Default]  OBVIOUS
  <1>4. /\ req[c].pc = "append" /\ At(c, "append")
        /\ timeline' = [timeline EXCEPT ![k] = Append(timeline[k], e)]
        /\ End(c, "ok") /\ records' = records /\ setBack' = setBack
        /\ UNCHANGED <<requests, failures>>
    BY <1>2, <1>3 DEF appendCreated, At
  <1>5. /\ req[c].kind = "ensure" /\ k \in Controls
        /\ Unannounced(records[k], timeline[k], setBack[k])
    BY <1>1, <1>2, <1>4 DEF Good, Carries
  <1>6. PICK r : r = Ended(c, "ok")  OBVIOUS
  <1>7. /\ r \in Requests /\ r.pc = "done"
        /\ \A j \in Controls : r.pending[j] = NoWrite
    BY <1>1, <1>6, IdleFacts DEF Ended, Requests
  <1>8. Set(c, r)  BY <1>4, <1>6 DEF End, Ended
  <1>9. req' = [req EXCEPT ![c] = r] /\ req'[c] = r
    BY <1>8 DEF Set, ReviewInv, TypeOK
  <1>10. /\ lock' \in [Controls -> Clients \cup {None}]
         /\ \A j \in Controls, d \in Clients \ {c} : lock[j] = d => lock'[j] = d
    BY <1>4 DEF End, ReviewInv, TypeOK
  <1>11. e \in Entries /\ e.type = "created" /\ e.newValue = Default
    BY <1>3, ReviewAssumption DEF Entries
  <1>12. PICK s : s = timeline[k]  OBVIOUS
  <1>13. PICK old : old = records[k]  OBVIOUS
  <1>x. PICK x : x = setBack[k]  OBVIOUS
  <1>14. /\ s \in Seq(Entries) /\ old \in Records
         /\ Follows(old, s, x) /\ Unannounced(old, s, x)
    BY <1>5, <1>12, <1>13, <1>x, GoodFacts DEF Unannounced
  <1>15. /\ Append(s, e) \in Seq(Entries)
         /\ Follows(old, Append(s, e), x)
         /\ Positions(Append(s, e), "created") = {Len(s) + 1}
    BY <1>11, <1>14, LateCreation
  <1>16. timeline \in [Controls -> Seq(Entries)]  BY DEF ReviewInv, TypeOK
  <1>17. /\ timeline' \in [Controls -> Seq(Entries)]
         /\ timeline'[k] = Append(s, e)
         /\ \A j \in Controls : j # k => timeline'[j] = timeline[j]
    BY <1>4, <1>5, <1>12, <1>15, <1>16
  <1>18. TypeOK'
    BY <1>4, <1>7, <1>9, <1>10, <1>17 DEF ReviewInv, TypeOK
  <1>19. RecordsFollowActivity'
    BY <1>4, <1>13, <1>x, <1>15, <1>17 DEF ReviewInv, RecordsFollowActivity
  <1>20. \A d \in Clients \ {c} : ~ (At(d, "append") /\ req[d].control = k)
    BY <1>2, <1>4 DEF ReviewInv
  <1>21. ASSUME NEW d \in Clients \ {c}  PROVE req'[d] = req[d] /\ Good(d, req[d])'
    <2>1. \A j \in Controls : At(d, "append") /\ req[d].control = j =>
            (Unannounced(records[j], timeline[j], setBack[j])
               => Unannounced(records'[j], timeline'[j], setBack'[j]))
      BY <1>4, <1>17, <1>20
    <2> QED  BY <1>4, <1>8, <1>10, <2>1, OthersStayGood
  <1>22. Good(c, r)'
    <2>1. NoWrite \notin Creations \cup Updates  BY WriteFacts
    <2> QED  BY <1>7, <2>1 DEF Good, Carries
  <1>23. OneCreation'
    <2> SUFFICES ASSUME NEW j \in Controls
                 PROVE  /\ AtMostOne(Positions(timeline'[j], "created"))
                        /\ records[j] # None /\ failures = 0 =>
                             \/ Positions(timeline'[j], "created") # {}
                             \/ \E d \in Clients : At(d, "append")' /\ req'[d].control = j
      BY <1>4 DEF OneCreation
    <2>1. CASE j = k
      <3>1. Positions(timeline'[j], "created") = {Len(s) + 1}  BY <1>15, <1>17, <2>1
      <3>2. \A n : AtMostOne({n}) /\ {n} # {}  BY DEF AtMostOne
      <3> QED  BY <3>1, <3>2
    <2>2. CASE j # k
      <3>1. timeline'[j] = timeline[j]  BY <1>17, <2>2
      <3>2. AtMostOne(Positions(timeline[j], "created"))
        BY DEF ReviewInv, OneCreation
      <3>3. ASSUME records[j] # None, failures = 0, Positions(timeline[j], "created") = {}
            PROVE  \E d \in Clients : At(d, "append")' /\ req'[d].control = j
        <4>1. PICK d \in Clients : At(d, "append") /\ req[d].control = j
          BY <3>3 DEF ReviewInv, OneCreation
        <4>2. d # c  BY <1>2, <2>2, <4>1
        <4> QED  BY <1>21, <4>1, <4>2 DEF At
      <3> QED  BY <3>1, <3>2, <3>3
    <2> QED  BY <2>1, <2>2
  <1>24. \A d \in Clients : At(d, "append")' => At(d, "append") /\ req'[d] = req[d]
    BY <1>7, <1>9, <1>21 DEF At
  <1>25. ASSUME NEW d \in Clients, NEW f \in Clients,
                At(d, "append")', At(f, "append")', req'[d].control = req'[f].control
         PROVE  d = f
    BY <1>24, <1>25 DEF ReviewInv
  <1>26. \A d \in Clients : Good(d, req[d])'  BY <1>9, <1>21, <1>22
  <1> QED  BY <1>18, <1>19, <1>23, <1>25, <1>26 DEF ReviewInv
----
LEMMA InitInv ==
    ASSUME Init
    PROVE  ReviewInv
  <1>1. \A c \in Clients : req[c] = Idle  BY DEF Init
  <1>2. <<>> \in Seq(Entries)  OBVIOUS
  <1>3. TypeOK  BY <1>2, IdleFacts DEF Init, TypeOK
  <1>4. RecordsFollowActivity  BY DEF Init, RecordsFollowActivity, Follows
  <1>5. \A k \in Controls : Positions(timeline[k], "created") = {}
    BY DEF Init, Positions
  <1>6. OneCreation  BY <1>5 DEF Init, OneCreation, AtMostOne
  <1>7. NoWrite \notin Creations \cup Updates  BY WriteFacts
  <1>8. ASSUME NEW c \in Clients  PROVE Good(c, Idle)
    BY <1>7, IdleFacts DEF Good, Carries
  <1> QED  BY <1>1, <1>3, <1>4, <1>6, <1>8, IdleFacts DEF ReviewInv, At

LEMMA StepInv == ReviewInv /\ [Next]_vars => ReviewInv'
  <1> SUFFICES ASSUME ReviewInv, [Next]_vars  PROVE ReviewInv'
    OBVIOUS
  <1>1. CASE UNCHANGED vars
    BY <1>1 DEF vars, ReviewInv, TypeOK, RecordsFollowActivity, OneCreation, Good, At
  <1>2. ASSUME NEW c \in Clients,
               \/ upsertManyWithActivity(c) \/ transitionReviewStatus(c)
               \/ ensureControlRecord(c) \/ selectForUpsert(c) \/ selectForTransition(c)
               \/ selectForEnsure(c) \/ writeRecord(c) \/ commit(c) \/ insertRecord(c)
               \/ appendCreated(c) \/ respond(c) \/ fail(c) \/ deadlockDetected(c)
        PROVE  ReviewInv'
    BY <1>2, UpsertInv, TransitionInv, EnsureInv, SelectForUpsertInv,
       SelectForTransitionInv, SelectForEnsureInv, WriteRecordInv, CommitInv,
       InsertRecordInv, AppendCreatedInv, RespondInv, FailInv, DeadlockInv
  <1> QED  BY <1>1, <1>2 DEF Next

LEMMA Invariance == Spec => []ReviewInv
  <1>1. Init => ReviewInv  BY InitInv
  <1>2. ReviewInv /\ [Next]_vars => ReviewInv'  BY StepInv
  <1> QED  BY <1>1, <1>2, PTL DEF Spec

(* A record is what its timeline says, for any fields and values, any      *)
(* number of autosaved batches, transitions and records created on the way *)
(* at the same time: the status always, since an upsert writes none, and   *)
(* each field unless a batch that had read an older value of it has set it *)
(* back (control-record-service.ts:183-207, 373). A field whose activity a *)
(* batch writes follows it, and one that it does not mention stays if      *)
(* nobody else has changed it since the batch read it.                     *)
THEOREM RecordsAreWhatActivitySays == Spec => []RecordsFollowActivity
  <1>1. ReviewInv => RecordsFollowActivity  BY DEF ReviewInv
  <1> QED  BY <1>1, Invariance, PTL

(* A control's timeline tells of one creation, whoever finds the record    *)
(* missing: the unique key refuses the second INSERT, and without a        *)
(* failure ensureControlRecord's activity is written or about to be.       *)
THEOREM CreatedOnce == Spec => []OneCreation
  <1>1. ReviewInv => OneCreation  BY DEF ReviewInv
  <1> QED  BY <1>1, Invariance, PTL
====
