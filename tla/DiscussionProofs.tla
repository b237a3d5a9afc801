---- MODULE DiscussionProofs ----
(***************************************************************************)
(* Proofs about Discussion, for every number of concurrent requests, all   *)
(* users and any bounds.  Three invariants.  FormedInv: what a request     *)
(* carries between two of its statements.  AnnouncedInv: whoever a comment *)
(* mentions has been told, or a request that is still at work will tell    *)
(* them.  QuietInv: the rows and the flags of a comment that no two        *)
(* requests ever worked on at once are those that its last entries say, or *)
(* one request has still to bring them there.  One lemma for each          *)
(* statement of a request says what it moves; the invariants are kept by   *)
(* the same statements.                                                    *)
(***************************************************************************)
EXTENDS Discussion, SequenceTheorems, TLAPS

Writing == {"create", "edit"}

(* What a request carries at its statements.                               *)
Formed(r) ==
    r.pc # "idle" =>
        /\ r.kind \in Kinds /\ r.actor \in Users
        /\ IF r.kind \in Writing THEN r.body \in Bodies ELSE r.body = None
        /\ r.pc = "unmention" => r.kind = "edit"
        /\ r.pc = "mention" => r.kind \in Writing
        /\ r.pc = "activity" => r.kind \notin Writing
        /\ r.comment = 0 <=> r.kind = "create" /\ r.pc = "write"

FormedInv ==
    /\ TypeOK
    /\ \A c \in Clients : Formed(req[c])
    /\ \A i \in DOMAIN timeline : timeline[i].comment \in DOMAIN comments
----
(* The last request to write a comment has notified, or will notify, whom  *)
(* its text mentions.                                                      *)
Telling(r) ==
    r.pc = "notify" /\ r.kind \in Writing =>
        \A u \in r.body \ {r.actor} : <<u, "mention">> \in r.notify \/ <<u, r.comment>> \in announced

(* A request that has written the text, and has not told everybody yet.    *)
Pending(c, k) ==
    /\ c \in InFlight /\ req[c].comment = k /\ req[c].pc # "write"
    /\ req[c].actor = comments[k].editor /\ req[c].body = comments[k].body

Told(k) ==
    \A u \in comments[k].body \ {comments[k].editor} :
        <<u, k>> \in announced \/ \E c \in Clients : Pending(c, k)

AnnouncedInv ==
    /\ \A k \in DOMAIN comments \ cut : Told(k)
    /\ \A c \in Clients : Telling(req[c])
----
(* Rows and flags of a comment whose requests never overlapped.            *)
Rows(k) == {m \in mentions : m[1] = k}
RowsMatch(k) == Rows(k) = {k} \X comments[k].body
ResolvedMatches(k) == comments[k].resolved <=> Stands(k, "resolved", "reopened")
DeletedMatches(k) == comments[k].deleted <=> Stands(k, "deleted", "restored")

Match(k) == RowsMatch(k) /\ ResolvedMatches(k) /\ DeletedMatches(k)

(* What the one request at work on it has done of them.                    *)
Halfway(r) ==
    LET k == r.comment
    IN  /\ r.pc \in {"write", "activity", "notify"} => RowsMatch(k)
        /\ r.pc \in {"unmention", "mention"} => r.body = comments[k].body
        /\ r.pc = "mention" => r.todo \subseteq r.body /\ Rows(k) = {k} \X (r.body \ r.todo)
        /\ IF r.pc = "activity" /\ r.kind \in {"resolve", "reopen"}
           THEN comments[k].resolved = (r.kind = "resolve")
           ELSE ResolvedMatches(k)
        /\ IF r.pc = "activity" /\ r.kind \in {"delete", "restore"}
           THEN comments[k].deleted = (r.kind = "delete")
           ELSE DeletedMatches(k)

Untorn == DOMAIN comments \ torn

QuietInv ==
    /\ \A k \in Untorn : (\A c \in InFlight : req[c].comment # k) => Match(k)
    /\ \A c, d \in InFlight :
          req[c].comment = req[d].comment /\ req[c].comment \in Untorn => c = d
    /\ \A c \in InFlight : req[c].comment \in Untorn => Halfway(req[c])
----
LEMMA CommentsFacts ==
    ASSUME TypeOK
    PROVE  /\ Len(comments) \in Nat /\ DOMAIN comments = 1..Len(comments)
           /\ 0 \notin DOMAIN comments /\ Len(comments) + 1 \notin DOMAIN comments
           /\ \A k \in DOMAIN comments : comments[k] \in Comments
  BY DEF TypeOK

LEMMA AddedComment ==
    ASSUME TypeOK, NEW row \in Comments, comments' = Append(comments, row)
    PROVE  /\ comments' \in Seq(Comments)
           /\ DOMAIN comments' = DOMAIN comments \cup {Len(comments) + 1}
           /\ comments'[Len(comments) + 1] = row
           /\ \A k \in DOMAIN comments : comments'[k] = comments[k]
  BY AppendProperties DEF TypeOK

LEMMA ChangedComment ==
    ASSUME TypeOK, NEW k \in DOMAIN comments, NEW row \in Comments,
           comments' = [comments EXCEPT ![k] = row]
    PROVE  /\ comments' \in Seq(Comments)
           /\ DOMAIN comments' = DOMAIN comments
           /\ comments'[k] = row
           /\ \A j \in DOMAIN comments \ {k} : comments'[j] = comments[j]
  BY ExceptSeq DEF TypeOK

(* A request's next step, and the answers' effect on its record.           *)
LEMMA RequestFields ==
    ASSUME NEW r \in Requests
    PROVE  /\ r.kind \in Kinds \cup {None} /\ r.actor \in Users \cup {None}
           /\ r.comment \in Nat /\ r.parent \in Nat /\ r.body \in Bodies \cup {None}
           /\ r.todo \subseteq Users
           /\ r.notify \subseteq Users \X {"mention", "reply", "resolved"}
           /\ r.pc \in {"idle", "write", "unmention", "mention", "activity", "notify"}
  BY DEF Requests

(* The requests after a step that leaves client c with r.                  *)
LEMMA SetKeeps ==
    ASSUME FormedInv, NEW c \in Clients, NEW r \in Requests, Set(c, r), Formed(r),
           r.comment \in (DOMAIN comments') \cup {0},
           DOMAIN comments \subseteq DOMAIN comments'
    PROVE  /\ req' \in [Clients -> Requests]
           /\ \A d \in Clients : req'[d].comment \in (DOMAIN comments') \cup {0}
           /\ \A d \in Clients : Formed(req'[d])
           /\ req'[c] = r /\ \A d \in Clients \ {c} : req'[d] = req[d]
  <1>1. req'[c] = r /\ \A d \in Clients \ {c} : req'[d] = req[d]
    BY DEF Set, FormedInv, TypeOK
  <1>2. req' \in [Clients -> Requests]
    BY DEF Set, FormedInv, TypeOK
  <1>3. QED BY <1>1, <1>2 DEF FormedInv, TypeOK

LEMMA IdleFormed == Idle \in Requests /\ Formed(Idle) /\ Idle.comment = 0 /\ Idle.pc = "idle"
  BY DEF Idle, Requests, Formed, Kinds, Writing
----
(* The requests as they begin.                                             *)
Fresh(s) ==
    /\ s \in Requests /\ s.kind \in Kinds /\ s.actor \in Users
    /\ IF s.kind \in Writing THEN s.body \in Bodies ELSE s.body = None
    /\ s.comment \in DOMAIN comments \cup {0}
    /\ s.comment = 0 <=> s.kind = "create"

Starts(c, r) ==
    /\ r \in Requests /\ Formed(r) /\ r.pc = "write"
    /\ r.comment \in DOMAIN comments \cup {0}
    /\ At(c, "idle") /\ Set(c, r) /\ requests' = requests + 1
    /\ torn' = torn \cup ({req[d].comment : d \in InFlight} \cap ({r.comment} \ {0}))
    /\ UNCHANGED <<comments, mentions, timeline, notices, announced, cut, failures>>

LEMMA StartStarts ==
    ASSUME NEW c, NEW s, Fresh(s), Start(c, s)
    PROVE  \E r : Starts(c, r)
  <1>1. PICK r : r = [s EXCEPT !.pc = "write"]
    OBVIOUS
  <1>2. /\ r \in Requests /\ r.pc = "write" /\ r.kind = s.kind /\ r.actor = s.actor
        /\ r.comment = s.comment /\ r.body = s.body
    BY <1>1 DEF Fresh, Requests
  <1>3. Formed(r)
    BY <1>2 DEF Fresh, Formed
  <1>4. Starts(c, r)
    BY <1>1, <1>2, <1>3 DEF Fresh, Start, Starts
  <1>5. QED BY <1>4

StartsSomething(c) ==
    \/ createDiscussion(c) \/ editDiscussion(c) \/ deleteDiscussion(c)
    \/ restoreDiscussion(c) \/ resolveDiscussion(c) \/ reopenDiscussion(c)

LEMMA RequestsStart ==
    ASSUME TypeOK, NEW c \in Clients, StartsSomething(c)
    PROVE  \E r : Starts(c, r)
  <1>1. 0 \notin DOMAIN comments
    BY CommentsFacts
  <1>2. CASE createDiscussion(c)
    <2>1. PICK u \in Users, b \in Bodies, p \in DOMAIN comments \cup {0} :
              Start(c, [Idle EXCEPT !.kind = "create", !.actor = u, !.parent = p, !.body = b])
      BY <1>2 DEF createDiscussion
    <2>2. PICK s : s = [Idle EXCEPT !.kind = "create", !.actor = u, !.parent = p, !.body = b]
      OBVIOUS
    <2>3. s = [pc |-> "idle", kind |-> "create", actor |-> u, comment |-> 0, parent |-> p,
               body |-> b, todo |-> {}, notify |-> {}]
      BY <2>2 DEF Idle
    <2>4. "create" \in Kinds /\ "create" \in Writing
      BY DEF Kinds, Writing
    <2>5. Fresh(s)
      BY <1>1, <2>3, <2>4, CommentsFacts DEF Fresh, Requests
    <2>6. QED BY <2>1, <2>2, <2>5, StartStarts
  <1>3. CASE editDiscussion(c)
    <2>1. PICK u \in Users, b \in Bodies, k \in DOMAIN comments :
              Start(c, [Idle EXCEPT !.kind = "edit", !.actor = u, !.comment = k, !.body = b])
      BY <1>3 DEF editDiscussion
    <2>2. PICK s : s = [Idle EXCEPT !.kind = "edit", !.actor = u, !.comment = k, !.body = b]
      OBVIOUS
    <2>3. s = [pc |-> "idle", kind |-> "edit", actor |-> u, comment |-> k, parent |-> 0,
               body |-> b, todo |-> {}, notify |-> {}]
      BY <2>2 DEF Idle
    <2>4. "edit" \in Kinds /\ "edit" \in Writing
      BY DEF Kinds, Writing
    <2>5. Fresh(s)
      BY <1>1, <2>3, <2>4, CommentsFacts DEF Fresh, Requests
    <2>6. QED BY <2>1, <2>2, <2>5, StartStarts
  <1>4. ASSUME NEW kind \in Kinds \ Writing, NEW u \in Users, NEW k \in DOMAIN comments,
               Start(c, [Idle EXCEPT !.kind = kind, !.actor = u, !.comment = k])
        PROVE  \E r : Starts(c, r)
    <2>1. PICK s : s = [Idle EXCEPT !.kind = kind, !.actor = u, !.comment = k]
      OBVIOUS
    <2>2. s = [pc |-> "idle", kind |-> kind, actor |-> u, comment |-> k, parent |-> 0,
               body |-> None, todo |-> {}, notify |-> {}]
      BY <2>1 DEF Idle
    <2>3. kind # "create"
      BY DEF Writing
    <2>4. Fresh(s)
      BY <1>1, <2>2, <2>3, CommentsFacts DEF Fresh, Requests
    <2>5. QED BY <1>4, <2>1, <2>4, StartStarts
  <1>5. {"delete", "restore", "resolve", "reopen"} \subseteq Kinds \ Writing
    BY DEF Kinds, Writing
  <1>6. CASE deleteDiscussion(c)
    BY <1>4, <1>5, <1>6 DEF deleteDiscussion
  <1>7. CASE restoreDiscussion(c)
    BY <1>4, <1>5, <1>7 DEF restoreDiscussion
  <1>8. CASE resolveDiscussion(c)
    BY <1>4, <1>5, <1>8 DEF resolveDiscussion
  <1>9. CASE reopenDiscussion(c)
    BY <1>4, <1>5, <1>9 DEF reopenDiscussion
  <1>10. QED BY <1>2, <1>3, <1>6, <1>7, <1>8, <1>9 DEF StartsSomething
----
(* A statement of request c about comment k leaves the request as r.       *)
Moves(c, r, k) ==
    /\ c \in InFlight /\ Set(c, r) /\ r \in Requests /\ Formed(r)
    /\ r = Idle \/ (/\ r.pc # "idle" /\ r.comment = k /\ r.kind = req[c].kind
                    /\ r.actor = req[c].actor /\ r.body = req[c].body)
    /\ k = req[c].comment \/ (req[c].comment = 0 /\ k = Len(comments) + 1)
    /\ k # 0
    /\ DOMAIN comments' = DOMAIN comments \cup {k}

(* The rows of the comments that are not written.                          *)
LeavesOthers(k) == \A j \in DOMAIN comments \ {k} : comments'[j] = comments[j]

Creates(c, r, k) ==
    /\ Moves(c, r, k) /\ LeavesOthers(k)
    /\ req[c].kind = "create" /\ k \notin DOMAIN comments
    /\ r.pc = "mention" /\ r.todo = r.body
    /\ comments' \in Seq(Comments)
    /\ comments'[k].body = r.body /\ comments'[k].editor = r.actor
    /\ comments'[k].resolved = FALSE /\ comments'[k].deleted = FALSE

Rewrites(c, r, k) ==
    /\ Moves(c, r, k) /\ LeavesOthers(k)
    /\ k \in DOMAIN comments /\ req[c].pc = "write" /\ r.kind # "create"
    /\ r.pc = IF r.kind = "edit" THEN "unmention" ELSE "activity"
    /\ comments' \in Seq(Comments)
    /\ comments'[k] = Updated(comments[k], r)

LEMMA UpdatedComment ==
    ASSUME NEW row \in Comments, NEW r \in Requests, Formed(r), r.pc # "idle",
           r.kind # "create"
    PROVE  /\ Updated(row, r) \in Comments
           /\ IF r.kind = "edit"
              THEN Updated(row, r).body = r.body /\ Updated(row, r).editor = r.actor
              ELSE Updated(row, r).body = row.body /\ Updated(row, r).editor = row.editor
           /\ Updated(row, r).resolved =
                 CASE r.kind = "resolve" -> TRUE [] r.kind = "reopen" -> FALSE
                   [] OTHER -> row.resolved
           /\ Updated(row, r).deleted =
                 CASE r.kind = "delete" -> TRUE [] r.kind = "restore" -> FALSE
                   [] OTHER -> row.deleted
  <1>1. r.kind \in {"edit", "delete", "restore", "resolve", "reopen"}
    BY DEF Formed, Kinds
  <1>2. CASE r.kind = "edit"
    <2>1. r.body \in Bodies /\ r.actor \in Users
      BY <1>2 DEF Formed, Writing
    <2>2. PICK new : new = [row EXCEPT !.body = r.body, !.editor = r.actor]
      OBVIOUS
    <2>3. Updated(row, r) = new
      BY <1>2, <2>2 DEF Updated
    <2>4. /\ new \in Comments /\ new.body = r.body /\ new.editor = r.actor
          /\ new.resolved = row.resolved /\ new.deleted = row.deleted
      BY <2>1, <2>2 DEF Comments
    <2>5. QED BY <1>2, <2>3, <2>4
  <1>3. CASE r.kind \in {"delete", "restore"}
    <2>1. PICK new : new = [row EXCEPT !.deleted = (r.kind = "delete")]
      OBVIOUS
    <2>2. Updated(row, r) = new
      BY <1>3, <2>1 DEF Updated
    <2>3. /\ new \in Comments /\ new.body = row.body /\ new.editor = row.editor
          /\ new.resolved = row.resolved /\ new.deleted = (r.kind = "delete")
      BY <2>1 DEF Comments
    <2>4. QED BY <1>3, <2>2, <2>3
  <1>4. CASE r.kind \in {"resolve", "reopen"}
    <2>1. PICK new : new = [row EXCEPT !.resolved = (r.kind = "resolve")]
      OBVIOUS
    <2>2. Updated(row, r) = new
      BY <1>4, <2>1 DEF Updated
    <2>3. /\ new \in Comments /\ new.body = row.body /\ new.editor = row.editor
          /\ new.deleted = row.deleted /\ new.resolved = (r.kind = "resolve")
      BY <2>1 DEF Comments
    <2>4. QED BY <1>4, <2>2, <2>3
  <1>5. QED BY <1>1, <1>2, <1>3, <1>4

LEMMA UpdatedText ==
    ASSUME NEW row \in Comments, NEW r \in Requests, Formed(r), r.pc # "idle",
           r.kind # "create"
    PROVE  /\ r.kind = "edit" => /\ Updated(row, r).body = r.body
                                 /\ Updated(row, r).editor = r.actor
           /\ r.kind # "edit" => /\ Updated(row, r).body = row.body
                                 /\ Updated(row, r).editor = row.editor
  BY UpdatedComment

LEMMA InFlightFacts ==
    ASSUME FormedInv, NEW c \in Clients, ~At(c, "idle")
    PROVE  /\ c \in InFlight /\ req[c] \in Requests /\ Formed(req[c])
           /\ req[c].pc # "idle" /\ req[c].comment \in DOMAIN comments \cup {0}
           /\ req[c].comment = 0 <=> (req[c].kind = "create" /\ req[c].pc = "write")
  BY DEF FormedInv, TypeOK, InFlight, At, Formed

LEMMA WriteMoves ==
    ASSUME FormedInv, NEW c \in Clients, writeComment(c)
    PROVE  \E r, k : Creates(c, r, k) \/ Rewrites(c, r, k)
  <1>1. /\ c \in InFlight /\ req[c] \in Requests /\ Formed(req[c])
        /\ req[c].pc = "write" /\ req[c].comment \in DOMAIN comments \cup {0}
        /\ req[c].comment = 0 <=> req[c].kind = "create"
    BY InFlightFacts DEF writeComment, At
  <1>2. TypeOK
    BY DEF FormedInv
  <1>3. CASE req[c].kind = "create"
    <2>1. PICK row : row = [parent |-> req[c].parent, author |-> req[c].actor,
              body |-> req[c].body, resolved |-> FALSE, deleted |-> FALSE, editor |-> req[c].actor]
      OBVIOUS
    <2>2. PICK r : r = [req[c] EXCEPT !.pc = "mention", !.comment = Len(comments) + 1,
                                       !.todo = req[c].body]
      OBVIOUS
    <2>3. comments' = Append(comments, row) /\ Set(c, r)
      BY <1>3, <2>1, <2>2 DEF writeComment
    <2>4. req[c].body \in Bodies /\ req[c].actor \in Users
      BY <1>1, <1>3 DEF Formed, Writing
    <2>5. row \in Comments /\ row.body = req[c].body /\ row.editor = req[c].actor
              /\ row.resolved = FALSE /\ row.deleted = FALSE
      BY <1>1, <2>1, <2>4 DEF Comments, Requests
    <2>6. PICK k : k = Len(comments) + 1
      OBVIOUS
    <2>7. k \in Nat /\ k # 0 /\ k \notin DOMAIN comments
      BY <1>2, <2>6, CommentsFacts
    <2>8. /\ comments' \in Seq(Comments) /\ comments'[k] = row
          /\ DOMAIN comments' = DOMAIN comments \cup {k} /\ LeavesOthers(k)
      BY <1>2, <2>3, <2>5, <2>6, AddedComment DEF LeavesOthers
    <2>9. req[c].body \subseteq Users
      BY <2>4, DiscussionAssumption
    <2>10. /\ r \in Requests /\ r.pc = "mention" /\ r.comment = k /\ r.todo = req[c].body
           /\ r.kind = req[c].kind /\ r.actor = req[c].actor /\ r.body = req[c].body
      BY <1>1, <2>2, <2>6, <2>7, <2>9 DEF Requests
    <2>11. Formed(r)
      BY <1>1, <1>3, <2>4, <2>7, <2>10 DEF Formed, Writing
    <2>12. Moves(c, r, k)
      BY <1>1, <1>3, <2>3, <2>6, <2>7, <2>8, <2>10, <2>11 DEF Moves
    <2>13. Creates(c, r, k)
      BY <1>3, <2>5, <2>7, <2>8, <2>10, <2>12 DEF Creates
    <2>14. QED BY <2>13
  <1>4. CASE req[c].kind # "create"
    <2>1. PICK k \in DOMAIN comments : k = req[c].comment
      BY <1>1, <1>4
    <2>2. PICK r : r = [req[c] EXCEPT !.pc = IF req[c].kind = "edit" THEN "unmention" ELSE "activity"]
      OBVIOUS
    <2>3. Set(c, r)
      BY <1>4, <2>2 DEF writeComment, Goto
    <2>4. /\ r \in Requests /\ r.comment = k /\ r.kind = req[c].kind /\ r.actor = req[c].actor
          /\ r.body = req[c].body
          /\ r.pc = IF req[c].kind = "edit" THEN "unmention" ELSE "activity"
      BY <1>1, <2>1, <2>2 DEF Requests
    <2>5. Formed(r)
      BY <1>1, <1>4, <2>1, <2>4 DEF Formed, Writing, Kinds
    <2>6. Updated(comments[k], req[c]) = Updated(comments[k], r)
      BY <2>4 DEF Updated
    <2>7. comments[k] \in Comments
      BY <1>2, CommentsFacts
    <2>8. Updated(comments[k], r) \in Comments
      BY <1>4, <2>4, <2>5, <2>7, UpdatedComment
    <2>9. comments' = [comments EXCEPT ![k] = Updated(comments[k], r)]
      BY <1>4, <2>1, <2>6 DEF writeComment
    <2>10. /\ comments' \in Seq(Comments) /\ comments'[k] = Updated(comments[k], r)
           /\ DOMAIN comments' = DOMAIN comments /\ LeavesOthers(k)
      BY <1>2, <2>8, <2>9, ChangedComment DEF LeavesOthers
    <2>11. Moves(c, r, k)
      BY <1>1, <1>2, <2>1, <2>3, <2>4, <2>5, <2>10, CommentsFacts DEF Moves
    <2>12. Rewrites(c, r, k)
      BY <1>1, <1>4, <2>4, <2>10, <2>11 DEF Rewrites
    <2>13. QED BY <2>12
  <1>5. QED BY <1>3, <1>4
----
Unmentions(c, r, k) ==
    /\ Moves(c, r, k) /\ k \in DOMAIN comments /\ comments' = comments
    /\ req[c].pc = "unmention" /\ r.pc = "mention" /\ r.todo = r.body
    /\ mentions' = RowsLeft(k)

Inserts(c, r, k, u) ==
    /\ Moves(c, r, k) /\ k \in DOMAIN comments /\ comments' = comments
    /\ req[c].pc = "mention" /\ u \in req[c].todo /\ u \in Users
    /\ \/ /\ <<k, u>> \notin mentions /\ mentions' = mentions \cup {<<k, u>>}
          /\ r.pc = "mention" /\ r.todo = req[c].todo \ {u} /\ cut' = cut
       \/ /\ <<k, u>> \in mentions /\ mentions' = mentions
          /\ r = Idle /\ cut' = cut \cup {k}

(* Whom a request has told, or has nobody left to tell.                    *)
Tells(r, whom) == IF whom = {} THEN r = Idle ELSE r.pc = "notify" /\ r.notify = whom

Records(c, r, k) ==
    /\ Moves(c, r, k) /\ k \in DOMAIN comments /\ comments' = comments
    /\ req[c].pc = "activity" \/ (req[c].pc = "mention" /\ req[c].todo = {})
    /\ timeline' = Append(timeline, EntryOf(req[c])) /\ EntryOf(req[c]) \in Entries
    /\ Tells(r, Recipients(req[c]))

Notifies(c, r, k, n) ==
    /\ Moves(c, r, k) /\ k \in DOMAIN comments /\ comments' = comments
    /\ req[c].pc = "notify" /\ n \in req[c].notify
    /\ n \in Users \X {"mention", "reply", "resolved"}
    /\ notices' = IF NoticeExists(n[1], n[2], k) THEN notices
                  ELSE notices \cup {[user |-> n[1], type |-> n[2], comment |-> k, read |-> FALSE]}
    /\ announced' = announced \cup IF n[2] = "mention" THEN {<<n[1], k>>} ELSE {}
    /\ Tells(r, req[c].notify \ {n})

(* At work on a comment that exists.                                       *)
LEMMA BusyFacts ==
    ASSUME FormedInv, NEW c \in Clients, req[c].pc \notin {"idle", "write"}
    PROVE  /\ c \in InFlight /\ req[c] \in Requests /\ Formed(req[c])
           /\ req[c].comment \in DOMAIN comments /\ req[c].comment # 0
  <1>1. ~At(c, "idle")
    BY DEF At
  <1>2. QED BY <1>1, InFlightFacts

LEMMA IdleMoves ==
    ASSUME FormedInv, NEW c \in InFlight, Set(c, Idle), NEW k \in DOMAIN comments,
           k = req[c].comment, comments' = comments
    PROVE  Moves(c, Idle, k)
  BY IdleFormed, CommentsFacts DEF Moves, FormedInv

LEMMA NextMoves ==
    ASSUME FormedInv, NEW c \in InFlight, NEW k \in DOMAIN comments, k = req[c].comment,
           NEW r \in Requests, Set(c, r), r.pc # "idle", Formed(r),
           r.comment = k, r.kind = req[c].kind, r.actor = req[c].actor, r.body = req[c].body,
           comments' = comments
    PROVE  Moves(c, r, k)
  BY CommentsFacts DEF Moves, FormedInv

LEMMA DeleteMoves ==
    ASSUME FormedInv, NEW c \in Clients, deleteMentions(c)
    PROVE  \E r, k : Unmentions(c, r, k)
  <1>1. req[c].pc = "unmention"
    BY DEF deleteMentions, At
  <1>2. PICK k \in DOMAIN comments : k = req[c].comment
    BY <1>1, BusyFacts
  <1>3. c \in InFlight /\ req[c] \in Requests /\ Formed(req[c])
    BY <1>1, BusyFacts
  <1>4. req[c].kind = "edit" /\ req[c].body \in Bodies /\ req[c].actor \in Users
    BY <1>1, <1>3 DEF Formed, Writing
  <1>5. req[c].body \subseteq Users
    BY <1>4, DiscussionAssumption
  <1>6. PICK r : r = [req[c] EXCEPT !.pc = "mention", !.todo = req[c].body]
    OBVIOUS
  <1>7. Set(c, r) /\ comments' = comments /\ mentions' = RowsLeft(k)
    BY <1>2, <1>6 DEF deleteMentions
  <1>8. /\ r \in Requests /\ r.pc = "mention" /\ r.todo = req[c].body /\ r.comment = k
        /\ r.kind = req[c].kind /\ r.actor = req[c].actor /\ r.body = req[c].body
    BY <1>2, <1>3, <1>5, <1>6 DEF Requests
  <1>9. Formed(r)
    BY <1>1, <1>2, <1>3, <1>4, <1>8, BusyFacts DEF Formed, Writing
  <1>10. Moves(c, r, k)
    BY <1>2, <1>3, <1>7, <1>8, <1>9, NextMoves
  <1>11. Unmentions(c, r, k)
    BY <1>1, <1>2, <1>7, <1>8, <1>10 DEF Unmentions
  <1>12. QED BY <1>11

LEMMA InsertMoves ==
    ASSUME FormedInv, NEW c \in Clients, insertMention(c)
    PROVE  \E r, k, u : Inserts(c, r, k, u)
  <1>1. req[c].pc = "mention"
    BY DEF insertMention, At
  <1>2. PICK k \in DOMAIN comments : k = req[c].comment
    BY <1>1, BusyFacts
  <1>3. c \in InFlight /\ req[c] \in Requests /\ Formed(req[c])
    BY <1>1, BusyFacts
  <1>4. req[c].todo \subseteq Users /\ comments' = comments
    BY <1>3 DEF Requests, insertMention
  <1>5. PICK u \in req[c].todo :
            \/ /\ <<k, u>> \notin mentions /\ mentions' = mentions \cup {<<k, u>>}
               /\ Set(c, [req[c] EXCEPT !.todo = req[c].todo \ {u}])
               /\ cut' = cut
            \/ /\ <<k, u>> \in mentions /\ Set(c, Idle)
               /\ cut' = cut \cup {k} /\ mentions' = mentions
    BY <1>2 DEF insertMention
  <1>6. u \in Users
    BY <1>4
  <1>7. CASE /\ <<k, u>> \notin mentions /\ mentions' = mentions \cup {<<k, u>>}
             /\ Set(c, [req[c] EXCEPT !.todo = req[c].todo \ {u}]) /\ cut' = cut
    <2>1. PICK r : r = [req[c] EXCEPT !.todo = req[c].todo \ {u}]
      OBVIOUS
    <2>2. /\ r \in Requests /\ r.pc = "mention" /\ r.todo = req[c].todo \ {u} /\ r.comment = k
          /\ r.kind = req[c].kind /\ r.actor = req[c].actor /\ r.body = req[c].body
      BY <1>1, <1>2, <1>3, <1>4, <2>1 DEF Requests
    <2>3. Formed(r)
      BY <1>1, <1>2, <1>3, <2>2, BusyFacts DEF Formed
    <2>4. Moves(c, r, k)
      BY <1>2, <1>3, <1>4, <1>7, <2>1, <2>2, <2>3, NextMoves
    <2>5. Inserts(c, r, k, u)
      BY <1>1, <1>4, <1>6, <1>7, <2>2, <2>4 DEF Inserts
    <2>6. QED BY <2>5
  <1>8. CASE /\ <<k, u>> \in mentions /\ Set(c, Idle)
             /\ cut' = cut \cup {k} /\ mentions' = mentions
    <2>1. Moves(c, Idle, k)
      BY <1>2, <1>3, <1>4, <1>8, IdleMoves
    <2>2. Inserts(c, Idle, k, u)
      BY <1>1, <1>4, <1>6, <1>8, <2>1 DEF Inserts
    <2>3. QED BY <2>2
  <1>9. QED BY <1>5, <1>7, <1>8

LEMMA RecipientsTyped ==
    ASSUME NEW r
    PROVE  Recipients(r) \subseteq Users \X {"mention", "reply", "resolved"}
  <1> DEFINE others == Users \ {r.actor}
  <1>1. CASE r.kind \in {"create", "edit"}
    <2>1. Recipients(r) = {<<u, "mention">> : u \in r.body \cap others}
                  \cup {<<u, "reply">> : u \in {comments[p].author : p \in {r.parent} \ {0}}
                                                 \cap others}
      BY <1>1 DEF Recipients
    <2>2. QED BY <2>1
  <1>2. CASE r.kind = "resolve"
    <2>1. Recipients(r) = {<<u, "resolved">> : u \in {comments[Root(r.comment)].author} \cap others}
      BY <1>2 DEF Recipients
    <2>2. QED BY <2>1
  <1>3. CASE r.kind \notin {"create", "edit", "resolve"}
    <2>1. Recipients(r) = {}
      BY <1>3 DEF Recipients
    <2>2. QED BY <2>1
  <1>4. QED BY <1>1, <1>2, <1>3

(* A request that has somebody to notify, or has nobody, and is over.      *)
LEMMA NotifyingMoves ==
    ASSUME FormedInv, NEW c \in InFlight, req[c] \in Requests, Formed(req[c]),
           req[c].pc # "idle", NEW k \in DOMAIN comments, k = req[c].comment,
           comments' = comments,
           NEW whom, whom \subseteq Users \X {"mention", "reply", "resolved"},
           NEW r, r = Notifying(req[c], whom), Set(c, r)
    PROVE  Moves(c, r, k) /\ Tells(r, whom)
  <1>1. CASE whom = {}
    <2>1. r = Idle
      BY <1>1 DEF Notifying
    <2>2. QED BY <1>1, <2>1, IdleMoves DEF Tells
  <1>2. CASE whom # {}
    <2>1. r = [req[c] EXCEPT !.pc = "notify", !.notify = whom]
      BY <1>2 DEF Notifying
    <2>2. /\ r \in Requests /\ r.pc = "notify" /\ r.notify = whom /\ r.comment = k
          /\ r.kind = req[c].kind /\ r.actor = req[c].actor /\ r.body = req[c].body
      BY <2>1 DEF Requests
    <2>3. k # 0
      BY CommentsFacts DEF FormedInv
    <2>4. Formed(r)
      BY <2>2, <2>3 DEF Formed
    <2>5. QED BY <1>2, <2>2, <2>4, NextMoves DEF Tells
  <1>3. QED BY <1>1, <1>2

LEMMA EntryTyped ==
    ASSUME NEW r, r.kind \in Kinds, r.comment \in Nat
    PROVE  EntryOf(r) \in Entries
  BY DEF EntryOf, Entries, EntryType, Kinds

LEMMA AppendMoves ==
    ASSUME FormedInv, NEW c \in Clients, appendActivity(c)
    PROVE  \E r, k : Records(c, r, k)
  <1>1. req[c].pc = "activity" \/ (req[c].pc = "mention" /\ req[c].todo = {})
    BY DEF appendActivity, At
  <1>2. PICK k \in DOMAIN comments : k = req[c].comment
    BY <1>1, BusyFacts
  <1>3. c \in InFlight /\ req[c] \in Requests /\ Formed(req[c])
    BY <1>1, BusyFacts
  <1>4. PICK r : r = Notifying(req[c], Recipients(req[c]))
    OBVIOUS
  <1>5. /\ Set(c, r) /\ comments' = comments
        /\ timeline' = Append(timeline, EntryOf(req[c]))
    BY <1>4 DEF appendActivity
  <1>6. Recipients(req[c]) \subseteq Users \X {"mention", "reply", "resolved"}
    BY RecipientsTyped
  <1>7. Moves(c, r, k) /\ Tells(r, Recipients(req[c]))
    BY <1>1, <1>2, <1>3, <1>4, <1>5, <1>6, NotifyingMoves
  <1>8. req[c].kind \in Kinds /\ req[c].comment \in Nat
    BY <1>1, <1>3 DEF Formed, Requests
  <1>9. EntryOf(req[c]) \in Entries
    BY <1>8, EntryTyped
  <1>10. Records(c, r, k)
    BY <1>1, <1>2, <1>5, <1>7, <1>9 DEF Records
  <1>11. QED BY <1>10

LEMMA NotifyMoves ==
    ASSUME FormedInv, NEW c \in Clients, notify(c)
    PROVE  \E r, k, n : Notifies(c, r, k, n)
  <1>1. req[c].pc = "notify"
    BY DEF notify, At
  <1>2. PICK k \in DOMAIN comments : k = req[c].comment
    BY <1>1, BusyFacts
  <1>3. c \in InFlight /\ req[c] \in Requests /\ Formed(req[c])
    BY <1>1, BusyFacts
  <1>4. PICK n \in req[c].notify :
            /\ notices' = IF NoticeExists(n[1], n[2], k) THEN notices
                          ELSE notices \cup {[user |-> n[1], type |-> n[2], comment |-> k,
                                              read |-> FALSE]}
            /\ announced' = announced \cup IF n[2] = "mention" THEN {<<n[1], k>>} ELSE {}
            /\ Set(c, Notifying(req[c], req[c].notify \ {n}))
    BY <1>2 DEF notify
  <1>5. req[c].notify \subseteq Users \X {"mention", "reply", "resolved"}
    BY <1>3 DEF Requests
  <1>6. PICK r : r = Notifying(req[c], req[c].notify \ {n})
    OBVIOUS
  <1>7. comments' = comments /\ Set(c, r)
    BY <1>4, <1>6 DEF notify
  <1>8. PICK whom : whom = req[c].notify \ {n}
    OBVIOUS
  <1>9. whom \subseteq Users \X {"mention", "reply", "resolved"}
    BY <1>5, <1>8
  <1>10. Moves(c, r, k) /\ Tells(r, whom)
    BY <1>1, <1>2, <1>3, <1>6, <1>7, <1>8, <1>9, NotifyingMoves
  <1>11. Notifies(c, r, k, n)
    BY <1>1, <1>2, <1>4, <1>5, <1>7, <1>8, <1>10 DEF Notifies
  <1>12. QED BY <1>11
----
(* Rows that are notified of the same.                                     *)
SameNotice(n, m) == n.user = m.user /\ n.type = m.type /\ n.comment = m.comment

LEMMA KeyedNotices ==
    ASSUME NEW N \in SUBSET Notices
    PROVE  (\A n, m \in N : n # m => [n EXCEPT !.read = m.read] # m)
             <=> (\A n, m \in N : SameNotice(n, m) => n = m)
  <1>1. ASSUME NEW n \in Notices, NEW m \in Notices
        PROVE  [n EXCEPT !.read = m.read] = m <=> SameNotice(n, m)
    <2>1. PICK e : e = [n EXCEPT !.read = m.read]
      OBVIOUS
    <2>2. e \in Notices /\ e.user = n.user /\ e.type = n.type /\ e.comment = n.comment
            /\ e.read = m.read
      BY <2>1 DEF Notices
    <2>3. e = m <=> SameNotice(n, m)
      BY <2>2 DEF Notices, SameNotice
    <2>4. QED BY <2>1, <2>3
  <1>2. QED BY <1>1

LEMMA MovedRequests ==
    ASSUME FormedInv, NEW c \in Clients, NEW r, NEW k, Moves(c, r, k)
    PROVE  /\ req' \in [Clients -> Requests]
           /\ \A d \in Clients : req'[d].comment \in (DOMAIN comments') \cup {0}
           /\ \A d \in Clients : Formed(req'[d])
           /\ req'[c] = r /\ \A d \in Clients \ {c} : req'[d] = req[d]
           /\ k \in DOMAIN comments'
  <1>1. r.comment \in (DOMAIN comments') \cup {0}
    BY IdleFormed DEF Moves
  <1>2. QED BY <1>1, SetKeeps DEF Moves

(* The tables other than that of the requests.                             *)
TablesTyped ==
    /\ comments \in Seq(Comments)
    /\ mentions \subseteq (DOMAIN comments) \X Users
    /\ timeline \in Seq(Entries)
    /\ notices \subseteq Notices
    /\ \A n, m \in notices : n # m => [n EXCEPT !.read = m.read] # m
    /\ announced \subseteq Users \X (DOMAIN comments)
    /\ torn \subseteq DOMAIN comments /\ cut \subseteq DOMAIN comments
    /\ requests \in Nat /\ failures \in Nat
    /\ \A i \in DOMAIN timeline : timeline[i].comment \in DOMAIN comments

LEMMA MovedFormed ==
    ASSUME FormedInv, NEW c \in Clients, NEW r, NEW k, Moves(c, r, k), TablesTyped'
    PROVE  FormedInv'
  BY MovedRequests DEF FormedInv, TypeOK, TablesTyped

LEMMA FormedTables ==
    ASSUME FormedInv
    PROVE  TablesTyped
  BY DEF FormedInv, TypeOK, TablesTyped

LEMMA StartFormed ==
    ASSUME FormedInv, NEW c \in Clients, NEW r, Starts(c, r)
    PROVE  FormedInv'
  <1>1. /\ req' \in [Clients -> Requests]
        /\ \A d \in Clients : req'[d].comment \in DOMAIN comments' \cup {0}
        /\ \A d \in Clients : Formed(req'[d])
    BY SetKeeps DEF Starts
  <1>2. torn' \subseteq DOMAIN comments
    <2>1. \A d \in Clients : req[d].comment \in DOMAIN comments \cup {0}
      BY DEF FormedInv, TypeOK
    <2>2. {req[d].comment : d \in InFlight} \cap ({r.comment} \ {0}) \subseteq DOMAIN comments
      BY <2>1 DEF InFlight
    <2>3. QED BY <2>2, FormedTables DEF Starts, TablesTyped
  <1>3. requests' \in Nat
    BY FormedTables DEF Starts, TablesTyped
  <1>4. TablesTyped'
    BY <1>2, <1>3, FormedTables DEF Starts, TablesTyped
  <1>5. QED BY <1>1, <1>4 DEF FormedInv, TypeOK, TablesTyped

LEMMA WriteFormed ==
    ASSUME FormedInv, NEW c \in Clients, writeComment(c)
    PROVE  FormedInv'
  <1>1. PICK r, k : Creates(c, r, k) \/ Rewrites(c, r, k)
    BY WriteMoves
  <1>2. Moves(c, r, k) /\ comments' \in Seq(Comments) /\ DOMAIN comments \subseteq DOMAIN comments'
    BY <1>1 DEF Creates, Rewrites, Moves
  <1>3. UNCHANGED <<mentions, timeline, notices, announced, torn, cut, requests, failures>>
    BY DEF writeComment
  <1>4. TablesTyped'
    BY <1>2, <1>3, FormedTables DEF TablesTyped
  <1>5. QED BY <1>2, <1>4, MovedFormed

LEMMA DeleteFormed ==
    ASSUME FormedInv, NEW c \in Clients, deleteMentions(c)
    PROVE  FormedInv'
  <1>1. PICK r, k : Unmentions(c, r, k)
    BY DeleteMoves
  <1>2. Moves(c, r, k) /\ comments' = comments /\ mentions' \subseteq mentions
    BY <1>1 DEF Unmentions, RowsLeft
  <1>3. UNCHANGED <<timeline, notices, announced, torn, cut, requests, failures>>
    BY DEF deleteMentions
  <1>4. TablesTyped'
    BY <1>2, <1>3, FormedTables DEF TablesTyped
  <1>5. QED BY <1>2, <1>4, MovedFormed

LEMMA InsertFormed ==
    ASSUME FormedInv, NEW c \in Clients, insertMention(c)
    PROVE  FormedInv'
  <1>1. PICK r, k, u : Inserts(c, r, k, u)
    BY InsertMoves
  <1>2. /\ Moves(c, r, k) /\ comments' = comments /\ k \in DOMAIN comments /\ u \in Users
        /\ mentions' \subseteq mentions \cup {<<k, u>>} /\ cut' \subseteq cut \cup {k}
    BY <1>1 DEF Inserts
  <1>3. UNCHANGED <<timeline, notices, announced, torn, requests, failures>>
    BY DEF insertMention
  <1>4. TablesTyped'
    BY <1>2, <1>3, FormedTables DEF TablesTyped
  <1>5. QED BY <1>2, <1>4, MovedFormed

LEMMA AddedEntry ==
    ASSUME timeline \in Seq(Entries), NEW e \in Entries, timeline' = Append(timeline, e)
    PROVE  /\ timeline' \in Seq(Entries) /\ Len(timeline) \in Nat
           /\ DOMAIN timeline = 1..Len(timeline)
           /\ DOMAIN timeline' = 1..(Len(timeline) + 1)
           /\ timeline'[Len(timeline) + 1] = e
           /\ \A i \in DOMAIN timeline : timeline'[i] = timeline[i]
  BY AppendProperties

LEMMA AppendFormed ==
    ASSUME FormedInv, NEW c \in Clients, appendActivity(c)
    PROVE  FormedInv'
  <1>1. PICK r, k : Records(c, r, k)
    BY AppendMoves
  <1>2. PICK e \in Entries : e = EntryOf(req[c])
    BY <1>1 DEF Records
  <1>3. /\ Moves(c, r, k) /\ comments' = comments /\ k \in DOMAIN comments
        /\ timeline' = Append(timeline, e)
    BY <1>1, <1>2 DEF Records
  <1>4. k = req[c].comment
    BY <1>3, CommentsFacts DEF Moves, FormedInv
  <1>5. e.comment = k
    BY <1>2, <1>4 DEF EntryOf
  <1>6. \A i \in DOMAIN timeline' : timeline'[i].comment \in DOMAIN comments
    BY <1>3, <1>5, AddedEntry, FormedTables DEF TablesTyped
  <1>7. UNCHANGED <<mentions, notices, announced, torn, cut, requests, failures>>
    BY DEF appendActivity
  <1>8. TablesTyped'
    BY <1>3, <1>6, <1>7, AddedEntry, FormedTables DEF TablesTyped
  <1>9. QED BY <1>3, <1>8, MovedFormed

LEMMA NotifyFormed ==
    ASSUME FormedInv, NEW c \in Clients, notify(c)
    PROVE  FormedInv'
  <1>1. PICK r, k, n : Notifies(c, r, k, n)
    BY NotifyMoves
  <1>2. /\ Moves(c, r, k) /\ comments' = comments /\ k \in DOMAIN comments
        /\ n[1] \in Users /\ n[2] \in {"mention", "reply", "resolved"}
        /\ announced' = announced \cup IF n[2] = "mention" THEN {<<n[1], k>>} ELSE {}
    BY <1>1 DEF Notifies
  <1>3. PICK x : x = [user |-> n[1], type |-> n[2], comment |-> k, read |-> FALSE]
    OBVIOUS
  <1>4. /\ x \in Notices
        /\ notices' = IF NoticeExists(n[1], n[2], k) THEN notices ELSE notices \cup {x}
    BY <1>1, <1>2, <1>3, CommentsFacts DEF Notifies, Notices, FormedInv
  <1>5. notices \subseteq Notices /\ \A m, o \in notices : SameNotice(m, o) => m = o
    BY FormedTables, KeyedNotices DEF TablesTyped
  <1>6. notices' \subseteq Notices /\ \A m, o \in notices' : SameNotice(m, o) => m = o
    <2>1. CASE NoticeExists(n[1], n[2], k)
      BY <1>4, <1>5, <2>1
    <2>2. CASE ~NoticeExists(n[1], n[2], k)
      <3>1. \A m \in notices : ~SameNotice(m, x) /\ ~SameNotice(x, m)
        BY <1>3, <2>2 DEF NoticeExists, SameNotice
      <3>2. notices' = notices \cup {x}
        BY <1>4, <2>2
      <3>3. QED BY <1>4, <1>5, <3>1, <3>2
    <2>3. QED BY <2>1, <2>2
  <1>7. \A m, o \in notices' : m # o => [m EXCEPT !.read = o.read] # o
    BY <1>6, KeyedNotices
  <1>8. UNCHANGED <<mentions, timeline, torn, cut, requests, failures>>
    BY DEF notify
  <1>9. announced' \subseteq Users \X DOMAIN comments
    BY <1>2, FormedTables DEF TablesTyped
  <1>10. TablesTyped'
    BY <1>2, <1>6, <1>7, <1>8, <1>9, FormedTables DEF TablesTyped
  <1>11. QED BY <1>2, <1>10, MovedFormed

(* A request that fails before it has written, and one that fails after.   *)
GivesUp(c) ==
    /\ c \in InFlight /\ req[c].pc = "write" /\ Set(c, Idle)
    /\ UNCHANGED <<comments, mentions, timeline, notices, announced, torn, cut, requests>>

IsCut(c, k) ==
    /\ Moves(c, Idle, k) /\ k \in DOMAIN comments /\ comments' = comments
    /\ req[c].pc # "write"
    /\ torn' = torn \cup {k} /\ cut' = cut \cup {k}
    /\ UNCHANGED <<mentions, timeline, notices, announced, requests>>

LEMMA FailMoves ==
    ASSUME FormedInv, NEW c \in Clients, fail(c)
    PROVE  GivesUp(c) \/ \E k : IsCut(c, k)
  <1>1. c \in InFlight /\ Set(c, Idle) /\ req[c].pc # "idle"
        /\ UNCHANGED <<comments, mentions, timeline, notices, announced, requests>>
    BY DEF fail, InFlight, At
  <1>2. CASE req[c].pc = "write"
    BY <1>1, <1>2 DEF fail, At, GivesUp
  <1>3. CASE req[c].pc # "write"
    <2>1. PICK k \in DOMAIN comments : k = req[c].comment
      BY <1>1, <1>3, BusyFacts
    <2>2. torn' = torn \cup {k} /\ cut' = cut \cup {k}
      BY <1>3, <2>1 DEF fail, At
    <2>3. Moves(c, Idle, k)
      BY <1>1, <2>1, IdleMoves
    <2>4. IsCut(c, k)
      BY <1>1, <1>3, <2>1, <2>2, <2>3 DEF IsCut
    <2>5. QED BY <2>4
  <1>4. QED BY <1>2, <1>3

LEMMA FailFormed ==
    ASSUME FormedInv, NEW c \in Clients, fail(c)
    PROVE  FormedInv'
  <1>1. failures' \in Nat
    BY FormedTables DEF fail, TablesTyped
  <1>2. CASE GivesUp(c)
    <2>1. /\ req' \in [Clients -> Requests]
          /\ \A d \in Clients : req'[d].comment \in DOMAIN comments' \cup {0}
          /\ \A d \in Clients : Formed(req'[d])
      BY <1>2, IdleFormed, SetKeeps DEF GivesUp
    <2>2. TablesTyped'
      BY <1>1, <1>2, FormedTables DEF GivesUp, TablesTyped
    <2>3. QED BY <2>1, <2>2 DEF FormedInv, TypeOK, TablesTyped
  <1>3. ASSUME NEW k, IsCut(c, k)
        PROVE  FormedInv'
    <2>1. TablesTyped'
      BY <1>1, <1>3, FormedTables DEF IsCut, TablesTyped
    <2>2. QED BY <1>3, <2>1, MovedFormed DEF IsCut
  <1>4. QED BY <1>2, <1>3, FailMoves
----
(* The notification center changes rows of its user, or deletes one.       *)
LEMMA CenterFacts ==
    ASSUME FormedInv, NEW u, NotificationCenter(u)
    PROVE  /\ UNCHANGED <<comments, mentions, timeline, announced, torn, cut, req, failures>>
           /\ requests' = requests + 1
           /\ \/ \E n \in notices : notices' = notices \ {n}
              \/ \E N \in SUBSET notices : notices' = (notices \ N) \cup Read(N)
  <1>1. CASE markNotificationRead(u)
    <2>1. PICK n \in Own(u) : Update((notices \ {n}) \cup Read({n}))
      BY <1>1 DEF markNotificationRead
    <2>2. {n} \in SUBSET notices
      BY DEF Own
    <2>3. QED BY <2>1, <2>2 DEF Update
  <1>2. CASE markAllNotificationsRead(u)
    <2>1. Own(u) \in SUBSET notices
      BY DEF Own
    <2>2. Update((notices \ Own(u)) \cup Read(Own(u)))
      BY <1>2 DEF markAllNotificationsRead
    <2>3. QED BY <2>1, <2>2 DEF Update
  <1>3. CASE deleteNotification(u)
    <2>1. PICK n \in Own(u) : Update(notices \ {n})
      BY <1>3 DEF deleteNotification
    <2>2. QED BY <2>1 DEF Update, Own
  <1>4. QED BY <1>1, <1>2, <1>3 DEF NotificationCenter

LEMMA ReadNotices ==
    ASSUME NEW N \in SUBSET Notices
    PROVE  /\ Read(N) \subseteq Notices
           /\ \A x \in Read(N) : \E n \in N : SameNotice(n, x) /\ x = [n EXCEPT !.read = TRUE]
  <1>1. ASSUME NEW n \in N
        PROVE  [n EXCEPT !.read = TRUE] \in Notices /\ SameNotice(n, [n EXCEPT !.read = TRUE])
    BY DEF Notices, SameNotice
  <1>2. QED BY <1>1 DEF Read

LEMMA CenterFormed ==
    ASSUME FormedInv, NEW u, NotificationCenter(u)
    PROVE  FormedInv'
  <1>1. notices \subseteq Notices /\ \A m, o \in notices : SameNotice(m, o) => m = o
    BY FormedTables, KeyedNotices DEF TablesTyped
  <1>2. notices' \subseteq Notices /\ \A m, o \in notices' : SameNotice(m, o) => m = o
    <2>1. ASSUME NEW n \in notices, notices' = notices \ {n}
          PROVE  notices' \subseteq Notices /\ \A m, o \in notices' : SameNotice(m, o) => m = o
      BY <1>1, <2>1
    <2>2. ASSUME NEW N \in SUBSET notices, notices' = (notices \ N) \cup Read(N)
          PROVE  notices' \subseteq Notices /\ \A m, o \in notices' : SameNotice(m, o) => m = o
      <3>1. N \in SUBSET Notices
        BY <1>1
      <3>2. /\ Read(N) \subseteq Notices
            /\ \A x \in Read(N) : \E n \in N : SameNotice(n, x) /\ x = [n EXCEPT !.read = TRUE]
        BY <3>1, ReadNotices
      <3>3. ASSUME NEW m \in Read(N), NEW o \in Read(N), SameNotice(m, o)
            PROVE  m = o
        <4>1. PICK n \in N : SameNotice(n, m) /\ m = [n EXCEPT !.read = TRUE]
          BY <3>2
        <4>2. PICK l \in N : SameNotice(l, o) /\ o = [l EXCEPT !.read = TRUE]
          BY <3>2
        <4>3. n = l
          BY <1>1, <3>3, <4>1, <4>2 DEF SameNotice
        <4>4. QED BY <4>1, <4>2, <4>3
      <3>4. ASSUME NEW m \in Read(N), NEW o \in notices \ N
            PROVE  ~SameNotice(m, o) /\ ~SameNotice(o, m)
        <4>1. PICK n \in N : SameNotice(n, m)
          BY <3>2
        <4>2. n # o /\ n \in notices /\ o \in notices
          BY <3>4
        <4>3. QED BY <1>1, <4>1, <4>2 DEF SameNotice
      <3>5. QED BY <1>1, <2>2, <3>2, <3>3, <3>4
    <2>3. QED BY <2>1, <2>2, CenterFacts
  <1>3. \A m, o \in notices' : m # o => [m EXCEPT !.read = o.read] # o
    BY <1>2, KeyedNotices
  <1>4. /\ UNCHANGED <<comments, mentions, timeline, announced, torn, cut, req, failures>>
        /\ requests' = requests + 1
    BY CenterFacts
  <1>5. TablesTyped'
    BY <1>2, <1>3, <1>4, FormedTables DEF TablesTyped
  <1>6. QED BY <1>4, <1>5 DEF FormedInv, TypeOK, TablesTyped

LEMMA FormedInitially == Init => FormedInv
  <1> SUFFICES ASSUME Init PROVE FormedInv
    OBVIOUS
  <1>1. comments \in Seq(Comments) /\ timeline \in Seq(Entries) /\ DOMAIN timeline = {}
    BY EmptySeq DEF Init
  <1>2. TypeOK
    BY <1>1, IdleFormed DEF Init, TypeOK
  <1>3. QED BY <1>1, <1>2, IdleFormed DEF Init, FormedInv

LEMMA FormedStep ==
    ASSUME FormedInv, [Next]_vars
    PROVE  FormedInv'
  <1>1. ASSUME NEW c \in Clients, StartsSomething(c)
        PROVE  FormedInv'
    BY <1>1, RequestsStart, StartFormed DEF FormedInv
  <1>2. ASSUME NEW c \in Clients, Step(c)
        PROVE  FormedInv'
    BY <1>1, <1>2, WriteFormed, DeleteFormed, InsertFormed, AppendFormed, NotifyFormed, FailFormed
       DEF Step, StartsSomething
  <1>3. CASE UNCHANGED vars
    BY <1>3 DEF vars, FormedInv, TypeOK
  <1>4. QED BY <1>2, <1>3, CenterFormed DEF Next

LEMMA FormedAlways == Spec => []FormedInv
  BY FormedInitially, FormedStep, PTL DEF Spec
----
LEMMA AnnouncedIsTold ==
    (\A k \in DOMAIN comments \ cut : Told(k)) => MentionsAreAnnounced
  <1>1. \A k : (\E c \in Clients : Pending(c, k))
                 <=> \E c \in InFlight : /\ req[c].comment = k /\ ~At(c, "write")
                                         /\ req[c].actor = comments[k].editor
                                         /\ req[c].body = comments[k].body
    BY DEF Pending, InFlight, At
  <1>2. QED BY <1>1 DEF MentionsAreAnnounced, Told

LEMMA OthersPending ==
    ASSUME FormedInv, NEW c \in Clients, NEW r, NEW k, Moves(c, r, k), LeavesOthers(k),
           NEW j \in DOMAIN comments, NEW d \in Clients, Pending(d, j), d # c,
           j # k \/ UNCHANGED <<comments[k].editor, comments[k].body>>
    PROVE  Pending(d, j)'
  <1>1. req'[d] = req[d]
    BY MovedRequests
  <1>2. d \in InFlight'
    BY <1>1 DEF Pending, InFlight, At
  <1>3. comments'[j].editor = comments[j].editor /\ comments'[j].body = comments[j].body
    BY DEF LeavesOthers
  <1>4. QED BY <1>1, <1>2, <1>3 DEF Pending

LEMMA MovesElsewhere ==
    ASSUME FormedInv, NEW c \in Clients, NEW r, NEW k, Moves(c, r, k)
    PROVE  \A j \in DOMAIN comments \ {k} : ~Pending(c, j)
  <1>1. 0 \notin DOMAIN comments
    BY CommentsFacts DEF FormedInv
  <1>2. QED BY <1>1 DEF Moves, Pending

LEMMA AnnouncedMove ==
    ASSUME FormedInv, AnnouncedInv, NEW c \in Clients, NEW r, NEW k,
           Moves(c, r, k), LeavesOthers(k),
           cut \subseteq cut', announced \subseteq announced',
           Telling(r)', k \notin cut' => Told(k)'
    PROVE  AnnouncedInv'
  <1>1. ASSUME NEW d \in Clients
        PROVE  Telling(req[d])'
    <2>1. CASE d = c
      BY <2>1, MovedRequests
    <2>2. CASE d # c
      <3>1. req'[d] = req[d] /\ Telling(req[d])
        BY <2>2, MovedRequests DEF AnnouncedInv
      <3>2. QED BY <3>1 DEF Telling
    <2>3. QED BY <2>1, <2>2
  <1>2. ASSUME NEW j \in DOMAIN comments \ {k}, j \notin cut'
        PROVE  Told(j)'
    <2>1. Told(j)
      BY <1>2 DEF AnnouncedInv
    <2>2. comments'[j] = comments[j]
      BY DEF LeavesOthers
    <2>3. ASSUME NEW d \in Clients, Pending(d, j)
          PROVE  Pending(d, j)'
      BY <2>3, OthersPending, MovesElsewhere
    <2>4. QED BY <2>1, <2>2, <2>3 DEF Told
  <1>3. QED BY <1>1, <1>2 DEF AnnouncedInv, Moves

LEMMA StartAnnounced ==
    ASSUME FormedInv, AnnouncedInv, NEW c \in Clients, NEW r, Starts(c, r)
    PROVE  AnnouncedInv'
  <1>1. /\ req'[c] = r /\ \A d \in Clients \ {c} : req'[d] = req[d]
        /\ r.pc = "write" /\ UNCHANGED <<comments, announced, cut>>
    BY DEF Starts, Set, FormedInv, TypeOK
  <1>2. ASSUME NEW d \in Clients
        PROVE  Telling(req[d])'
    BY <1>1 DEF AnnouncedInv, Telling
  <1>3. ASSUME NEW d \in Clients, NEW k, Pending(d, k)
        PROVE  Pending(d, k)'
    <2>1. d # c
      BY <1>3 DEF Starts, At, Pending, InFlight
    <2>2. QED BY <1>1, <1>3, <2>1 DEF Pending, InFlight, At
  <1>4. ASSUME NEW k \in DOMAIN comments \ cut
        PROVE  Told(k)'
    BY <1>1, <1>3 DEF AnnouncedInv, Told
  <1>5. QED BY <1>1, <1>2, <1>4 DEF AnnouncedInv

LEMMA IdleTells == Telling(Idle)'
  BY DEF Telling, Idle

(* It goes on, and whoever it had to tell it still has.                    *)
LEMMA StillTold ==
    ASSUME FormedInv, AnnouncedInv, NEW c \in Clients, NEW r, NEW k,
           Moves(c, r, k), k \in DOMAIN comments, LeavesOthers(k), r.pc \notin {"idle", "write"},
           UNCHANGED <<comments[k].editor, comments[k].body>>,
           announced \subseteq announced', k \notin cut
    PROVE  Told(k)'
  <1>1. Told(k)
    BY DEF AnnouncedInv
  <1>2. ASSUME NEW d \in Clients, Pending(d, k)
        PROVE  Pending(d, k)'
    <2>1. CASE d # c
      BY <1>2, <2>1, OthersPending
    <2>2. CASE d = c
      <3>1. req'[c] = r /\ r # Idle
        BY MovedRequests, IdleFormed
      <3>2. r.comment = k /\ r.actor = req[c].actor /\ r.body = req[c].body
        BY <3>1 DEF Moves
      <3>3. c \in InFlight'
        BY <3>1 DEF InFlight, At
      <3>4. QED BY <1>2, <2>2, <3>1, <3>2, <3>3 DEF Pending
    <2>3. QED BY <2>1, <2>2
  <1>3. QED BY <1>1, <1>2 DEF Told

LEMMA WriteAnnounced ==
    ASSUME FormedInv, AnnouncedInv, NEW c \in Clients, writeComment(c)
    PROVE  AnnouncedInv'
  <1>1. UNCHANGED <<announced, cut>>
    BY DEF writeComment
  <1>2. PICK r, k : Creates(c, r, k) \/ Rewrites(c, r, k)
    BY WriteMoves
  <1>3. /\ Moves(c, r, k) /\ LeavesOthers(k) /\ r.pc \in {"mention", "unmention", "activity"}
    BY <1>2 DEF Creates, Rewrites
  <1>4. Telling(r)'
    BY <1>3 DEF Telling
  <1>5. CASE Creates(c, r, k) \/ r.kind = "edit"
    <2>1. comments'[k].editor = r.actor /\ comments'[k].body = r.body
      <3>1. CASE Creates(c, r, k)
        BY <3>1 DEF Creates
      <3>2. CASE Rewrites(c, r, k) /\ r.kind = "edit"
        <4>1. comments[k] \in Comments /\ comments'[k] = Updated(comments[k], r)
          BY <3>2, CommentsFacts DEF Rewrites, FormedInv
        <4>2. r \in Requests /\ Formed(r) /\ r.pc # "idle" /\ r.kind # "create"
          BY <1>3, <3>2 DEF Moves, Rewrites
        <4>3. Updated(comments[k], r).body = r.body /\ Updated(comments[k], r).editor = r.actor
          BY <3>2, <4>1, <4>2, UpdatedText
        <4>4. QED BY <4>1, <4>3
      <3>3. QED BY <1>2, <1>5, <3>1, <3>2
    <2>2. req'[c] = r /\ r.comment = k
      BY <1>3, MovedRequests, IdleFormed DEF Moves
    <2>3. Pending(c, k)'
      BY <1>3, <2>1, <2>2 DEF Pending, InFlight, At
    <2>4. Told(k)'
      BY <2>3 DEF Told
    <2>5. QED BY <1>1, <1>3, <1>4, <2>4, AnnouncedMove
  <1>6. CASE Rewrites(c, r, k) /\ r.kind # "edit"
    <2>1. comments[k] \in Comments /\ comments'[k] = Updated(comments[k], r) /\ k \in DOMAIN comments
      BY <1>6, CommentsFacts DEF Rewrites, FormedInv
    <2>2. r \in Requests /\ Formed(r) /\ r.pc # "idle" /\ r.kind # "create"
      BY <1>3, <1>6 DEF Moves, Rewrites
    <2>3. comments'[k].body = comments[k].body /\ comments'[k].editor = comments[k].editor
      <3>1. /\ Updated(comments[k], r).body = comments[k].body
            /\ Updated(comments[k], r).editor = comments[k].editor
        BY <1>6, <2>1, <2>2, UpdatedText
      <3>2. QED BY <2>1, <3>1
    <2>4. k \notin cut' => Told(k)'
      BY <1>1, <1>3, <2>1, <2>3, StillTold
    <2>5. QED BY <1>1, <1>3, <1>4, <2>4, AnnouncedMove
  <1>7. QED BY <1>2, <1>5, <1>6

LEMMA DeleteAnnounced ==
    ASSUME FormedInv, AnnouncedInv, NEW c \in Clients, deleteMentions(c)
    PROVE  AnnouncedInv'
  <1>1. UNCHANGED <<announced, cut>>
    BY DEF deleteMentions
  <1>2. PICK r, k : Unmentions(c, r, k)
    BY DeleteMoves
  <1>3. Moves(c, r, k) /\ k \in DOMAIN comments /\ comments' = comments /\ r.pc = "mention"
    BY <1>2 DEF Unmentions
  <1>4. LeavesOthers(k) /\ Telling(r)'
    BY <1>3 DEF LeavesOthers, Telling
  <1>5. k \notin cut' => Told(k)'
    BY <1>1, <1>3, <1>4, StillTold
  <1>6. QED BY <1>1, <1>3, <1>4, <1>5, AnnouncedMove

LEMMA InsertAnnounced ==
    ASSUME FormedInv, AnnouncedInv, NEW c \in Clients, insertMention(c)
    PROVE  AnnouncedInv'
  <1>1. UNCHANGED announced
    BY DEF insertMention
  <1>2. PICK r, k, u : Inserts(c, r, k, u)
    BY InsertMoves
  <1>3. /\ Moves(c, r, k) /\ k \in DOMAIN comments /\ comments' = comments
        /\ (r.pc = "mention" /\ cut' = cut) \/ (r = Idle /\ cut' = cut \cup {k})
    BY <1>2 DEF Inserts
  <1>4. LeavesOthers(k) /\ Telling(r)'
    BY <1>3, IdleTells DEF LeavesOthers, Telling
  <1>5. k \notin cut' => Told(k)'
    BY <1>1, <1>3, <1>4, StillTold
  <1>6. QED BY <1>1, <1>3, <1>4, <1>5, AnnouncedMove

(* Who writes a text tells everybody whom it mentions but himself.         *)
LEMMA WritersTell ==
    ASSUME NEW r, r.kind \in Writing, NEW u \in r.body \ {r.actor}, r.body \subseteq Users
    PROVE  <<u, "mention">> \in Recipients(r)
  BY DEF Recipients, Writing

LEMMA BodiesAreUsers ==
    ASSUME FormedInv, NEW c \in InFlight, req[c].kind \in Writing
    PROVE  req[c].body \subseteq Users
  <1>1. req[c].body \in Bodies
    BY DEF FormedInv, Formed, InFlight, At
  <1>2. QED BY <1>1, DiscussionAssumption

(* Only a request that writes has the text of a comment.                   *)
LEMMA PendingWrites ==
    ASSUME FormedInv, NEW c \in Clients, NEW k \in DOMAIN comments, Pending(c, k)
    PROVE  req[c].kind \in Writing
  <1>1. comments[k].body \in Bodies
    BY CommentsFacts DEF FormedInv, Comments
  <1>2. req[c].kind \notin Writing => req[c].body = None
    BY DEF FormedInv, Formed, Pending, InFlight, At
  <1>3. QED BY <1>1, <1>2, DiscussionAssumption DEF Pending

(* It is over, having told everybody.                                      *)
LEMMA ToldAtTheEnd ==
    ASSUME FormedInv, AnnouncedInv, NEW c \in Clients, NEW k,
           Moves(c, Idle, k), k \in DOMAIN comments, comments' = comments,
           announced \subseteq announced', k \notin cut,
           Pending(c, k) => \A u \in req[c].body \ {req[c].actor} : <<u, k>> \in announced'
    PROVE  Told(k)'
  <1>1. Told(k)
    BY DEF AnnouncedInv
  <1>2. LeavesOthers(k)
    BY DEF LeavesOthers
  <1>3. ASSUME NEW d \in Clients, Pending(d, k), d # c
        PROVE  Pending(d, k)'
    BY <1>2, <1>3, OthersPending
  <1>4. CASE Pending(c, k)
    BY <1>4 DEF Pending, Told
  <1>5. CASE ~Pending(c, k)
    BY <1>1, <1>3, <1>5 DEF Told
  <1>6. QED BY <1>4, <1>5

LEMMA AppendAnnounced ==
    ASSUME FormedInv, AnnouncedInv, NEW c \in Clients, appendActivity(c)
    PROVE  AnnouncedInv'
  <1>1. UNCHANGED <<announced, cut>>
    BY DEF appendActivity
  <1>2. PICK r, k : Records(c, r, k)
    BY AppendMoves
  <1>3. /\ Moves(c, r, k) /\ k \in DOMAIN comments /\ comments' = comments
        /\ Tells(r, Recipients(req[c]))
    BY <1>2 DEF Records
  <1>4. LeavesOthers(k) /\ c \in InFlight
    BY <1>3 DEF LeavesOthers, Moves
  <1>5. req[c].kind \in Writing
          => \A u \in req[c].body \ {req[c].actor} : <<u, "mention">> \in Recipients(req[c])
    BY <1>4, BodiesAreUsers, WritersTell
  <1>6. CASE Recipients(req[c]) = {}
    <2>1. r = Idle
      BY <1>3, <1>6 DEF Tells
    <2>2. Pending(c, k) => \A u \in req[c].body \ {req[c].actor} : <<u, k>> \in announced'
      BY <1>3, <1>5, <1>6, PendingWrites
    <2>3. k \notin cut' => Told(k)'
      BY <1>1, <1>3, <2>1, <2>2, ToldAtTheEnd
    <2>4. QED BY <1>1, <1>3, <1>4, <2>1, <2>3, IdleTells, AnnouncedMove
  <1>7. CASE Recipients(req[c]) # {}
    <2>1. r.pc = "notify" /\ r.notify = Recipients(req[c])
      BY <1>3, <1>7 DEF Tells
    <2>2. r.kind = req[c].kind /\ r.actor = req[c].actor /\ r.body = req[c].body
      BY <1>3, <2>1, IdleFormed DEF Moves
    <2>3. Telling(r)'
      BY <1>5, <2>1, <2>2 DEF Telling
    <2>4. k \notin cut' => Told(k)'
      BY <1>1, <1>3, <1>4, <2>1, StillTold
    <2>5. QED BY <1>1, <1>3, <1>4, <2>3, <2>4, AnnouncedMove
  <1>8. QED BY <1>6, <1>7

LEMMA NotifyAnnounced ==
    ASSUME FormedInv, AnnouncedInv, NEW c \in Clients, notify(c)
    PROVE  AnnouncedInv'
  <1>1. UNCHANGED cut
    BY DEF notify
  <1>2. PICK r, k, n : Notifies(c, r, k, n)
    BY NotifyMoves
  <1>3. /\ Moves(c, r, k) /\ k \in DOMAIN comments /\ comments' = comments
        /\ req[c].pc = "notify"
        /\ announced' = announced \cup IF n[2] = "mention" THEN {<<n[1], k>>} ELSE {}
        /\ Tells(r, req[c].notify \ {n})
    BY <1>2 DEF Notifies
  <1>4. LeavesOthers(k) /\ announced \subseteq announced'
    BY <1>3 DEF LeavesOthers
  <1>5. k = req[c].comment
    BY <1>3, BusyFacts DEF Moves
  <1>6. \A u : <<u, "mention">> = n => <<u, k>> \in announced'
    BY <1>3
  <1>7. req[c].kind \in Writing
          => \A u \in req[c].body \ {req[c].actor} :
                <<u, "mention">> \in req[c].notify \ {n} \/ <<u, k>> \in announced'
    BY <1>3, <1>4, <1>5, <1>6 DEF AnnouncedInv, Telling
  <1>8. CASE req[c].notify \ {n} = {}
    <2>1. r = Idle
      BY <1>3, <1>8 DEF Tells
    <2>2. Pending(c, k) => \A u \in req[c].body \ {req[c].actor} : <<u, k>> \in announced'
      BY <1>3, <1>7, <1>8, PendingWrites
    <2>3. k \notin cut' => Told(k)'
      BY <1>1, <1>3, <1>4, <2>1, <2>2, ToldAtTheEnd
    <2>4. QED BY <1>1, <1>3, <1>4, <2>1, <2>3, IdleTells, AnnouncedMove
  <1>9. CASE req[c].notify \ {n} # {}
    <2>1. r.pc = "notify" /\ r.notify = req[c].notify \ {n}
      BY <1>3, <1>9 DEF Tells
    <2>2. r.kind = req[c].kind /\ r.actor = req[c].actor /\ r.body = req[c].body /\ r.comment = k
      BY <1>3, <2>1, IdleFormed DEF Moves
    <2>3. Telling(r)'
      BY <1>7, <2>1, <2>2 DEF Telling
    <2>4. k \notin cut' => Told(k)'
      BY <1>1, <1>3, <1>4, <2>1, StillTold
    <2>5. QED BY <1>1, <1>3, <1>4, <2>3, <2>4, AnnouncedMove
  <1>10. QED BY <1>8, <1>9

LEMMA FailAnnounced ==
    ASSUME FormedInv, AnnouncedInv, NEW c \in Clients, fail(c)
    PROVE  AnnouncedInv'
  <1>1. CASE GivesUp(c)
    <2>1. /\ req'[c] = Idle /\ \A d \in Clients \ {c} : req'[d] = req[d]
          /\ UNCHANGED <<comments, announced, cut>> /\ req[c].pc = "write"
      BY <1>1 DEF GivesUp, Set, FormedInv, TypeOK
    <2>2. ASSUME NEW d \in Clients
          PROVE  Telling(req[d])'
      BY <2>1, IdleFormed DEF AnnouncedInv, Telling
    <2>3. ASSUME NEW d \in Clients, NEW k, Pending(d, k)
          PROVE  Pending(d, k)'
      BY <2>1, <2>3 DEF Pending, InFlight, At
    <2>4. ASSUME NEW k \in DOMAIN comments \ cut
          PROVE  Told(k)'
      BY <2>1, <2>3 DEF AnnouncedInv, Told
    <2>5. QED BY <2>1, <2>2, <2>4 DEF AnnouncedInv
  <1>2. ASSUME NEW k, IsCut(c, k)
        PROVE  AnnouncedInv'
    <2>1. LeavesOthers(k)
      BY <1>2 DEF IsCut, LeavesOthers
    <2>2. QED BY <1>2, <2>1, IdleTells, AnnouncedMove DEF IsCut
  <1>3. QED BY <1>1, <1>2, FailMoves

LEMMA SameAnnounced ==
    ASSUME AnnouncedInv, UNCHANGED <<comments, announced, cut, req>>
    PROVE  AnnouncedInv'
  <1>1. \A c \in Clients : Telling(req[c])'
    BY DEF AnnouncedInv, Telling
  <1>2. \A c \in Clients, k \in DOMAIN comments : Pending(c, k)' <=> Pending(c, k)
    BY DEF Pending, InFlight, At
  <1>3. \A k \in DOMAIN comments \ cut : Told(k)'
    BY <1>2 DEF AnnouncedInv, Told
  <1>4. QED BY <1>1, <1>3 DEF AnnouncedInv

LEMMA AnnouncedInitially == Init => AnnouncedInv
  <1> SUFFICES ASSUME Init PROVE AnnouncedInv
    OBVIOUS
  <1>1. DOMAIN comments = {}
    BY DEF Init
  <1>2. \A c \in Clients : Telling(req[c])
    BY IdleFormed DEF Init, Telling
  <1>3. QED BY <1>1, <1>2 DEF AnnouncedInv

LEMMA AnnouncedStep ==
    ASSUME FormedInv, AnnouncedInv, [Next]_vars
    PROVE  AnnouncedInv'
  <1>1. ASSUME NEW c \in Clients, StartsSomething(c)
        PROVE  AnnouncedInv'
    BY <1>1, RequestsStart, StartAnnounced DEF FormedInv
  <1>2. ASSUME NEW c \in Clients, Step(c)
        PROVE  AnnouncedInv'
    BY <1>1, <1>2, WriteAnnounced, DeleteAnnounced, InsertAnnounced, AppendAnnounced,
       NotifyAnnounced, FailAnnounced DEF Step, StartsSomething
  <1>3. CASE UNCHANGED vars
    BY <1>3, SameAnnounced DEF vars
  <1>4. ASSUME NEW u \in Users, NotificationCenter(u)
        PROVE  AnnouncedInv'
    BY <1>4, CenterFacts, SameAnnounced
  <1>5. QED BY <1>2, <1>3, <1>4 DEF Next

LEMMA AnnouncedAlways == Spec => []AnnouncedInv
  BY FormedAlways, AnnouncedInitially, AnnouncedStep, PTL DEF Spec
----
(* A new entry about a comment, and what stands after it.                  *)
LEMMA StandsAppended ==
    ASSUME timeline \in Seq(Entries), NEW e \in Entries, timeline' = Append(timeline, e),
           NEW k, NEW type, NEW undone, type # undone
    PROVE  Stands(k, type, undone)'
             <=> \/ e = [type |-> type, comment |-> k]
                 \/ e # [type |-> undone, comment |-> k] /\ Stands(k, type, undone)
  <1> DEFINE n == Len(timeline)
             on == [type |-> type, comment |-> k]
             off == [type |-> undone, comment |-> k]
  <1>1. /\ n \in Nat /\ DOMAIN timeline = 1..n /\ DOMAIN timeline' = 1..(n + 1)
        /\ timeline'[n + 1] = e /\ \A i \in 1..n : timeline'[i] = timeline[i]
    BY AddedEntry
  <1>2. on # off
    <2>1. on.type = type /\ off.type = undone
      OBVIOUS
    <2>2. QED BY <2>1
  <1>3. CASE e = on
    <2>1. \A j \in DOMAIN timeline' : ~(j > n + 1)
      BY <1>1
    <2>2. timeline'[n + 1] = on /\ n + 1 \in DOMAIN timeline'
      BY <1>1, <1>3
    <2>3. Stands(k, type, undone)'
      BY <2>1, <2>2 DEF Stands
    <2>4. QED BY <1>3, <2>3
  <1>4. CASE e = off
    <2>1. ~Stands(k, type, undone)'
      <3> SUFFICES ASSUME NEW i \in DOMAIN timeline', timeline'[i] = on,
                          \A j \in DOMAIN timeline' : j > i => timeline'[j] # off
                   PROVE  FALSE
        BY DEF Stands
      <3>1. i \in 1..(n + 1) /\ i # n + 1
        BY <1>1, <1>2, <1>4
      <3>2. n + 1 > i /\ n + 1 \in DOMAIN timeline'
        BY <1>1, <3>1
      <3>3. QED BY <1>1, <1>4, <3>2
    <2>2. QED BY <1>2, <1>4, <2>1
  <1>5. CASE e # on /\ e # off
    <2>1. ASSUME Stands(k, type, undone)
          PROVE  Stands(k, type, undone)'
      <3>1. PICK i \in DOMAIN timeline : timeline[i] = on
                  /\ \A j \in DOMAIN timeline : j > i => timeline[j] # off
        BY <2>1 DEF Stands
      <3>2. i \in DOMAIN timeline' /\ timeline'[i] = on
        BY <1>1, <3>1
      <3>3. \A j \in DOMAIN timeline' : j > i => timeline'[j] # off
        BY <1>1, <1>5, <3>1
      <3>4. QED BY <3>2, <3>3 DEF Stands
    <2>2. ASSUME Stands(k, type, undone)'
          PROVE  Stands(k, type, undone)
      <3>1. PICK i \in DOMAIN timeline' : timeline'[i] = on
                  /\ \A j \in DOMAIN timeline' : j > i => timeline'[j] # off
        BY <2>2 DEF Stands
      <3>2. i \in DOMAIN timeline /\ timeline[i] = on
        BY <1>1, <1>5, <3>1
      <3>3. \A j \in DOMAIN timeline : j > i => timeline[j] # off
        BY <1>1, <3>1
      <3>4. QED BY <3>2, <3>3 DEF Stands
    <2>3. QED BY <1>5, <2>1, <2>2
  <1>6. QED BY <1>3, <1>4, <1>5

(* What QuietInv says of a comment is not touched.                         *)
SameAbout(j) ==
    /\ comments'[j] = comments[j]
    /\ Rows(j)' = Rows(j)
    /\ Stands(j, "resolved", "reopened")' <=> Stands(j, "resolved", "reopened")
    /\ Stands(j, "deleted", "restored")' <=> Stands(j, "deleted", "restored")

LEMMA SameMatch ==
    ASSUME NEW j, SameAbout(j), Match(j)
    PROVE  Match(j)'
  BY DEF SameAbout, Match, RowsMatch, ResolvedMatches, DeletedMatches

LEMMA SameHalfway ==
    ASSUME NEW r, SameAbout(r.comment), Halfway(r)
    PROVE  Halfway(r)'
  BY DEF SameAbout, Halfway, RowsMatch, ResolvedMatches, DeletedMatches

LEMMA SameStands ==
    ASSUME UNCHANGED <<comments, mentions, timeline>>
    PROVE  \A j : SameAbout(j)
  BY DEF SameAbout, Rows, Stands

LEMMA QuietMove ==
    ASSUME FormedInv, QuietInv, NEW c \in Clients, NEW r, NEW k, Moves(c, r, k),
           torn \subseteq torn', torn' \subseteq torn \cup {k},
           \A j \in DOMAIN comments \ {k} : SameAbout(j),
           k \notin torn' => IF r = Idle THEN Match(k)' ELSE Halfway(r)'
    PROVE  QuietInv'
  <1>1. /\ req'[c] = r /\ \A d \in Clients \ {c} : req'[d] = req[d]
        /\ k \in DOMAIN comments' /\ DOMAIN comments' = DOMAIN comments \cup {k}
    BY MovedRequests DEF Moves
  <1>2. c \in InFlight /\ InFlight' = (InFlight \ {c}) \cup (IF r = Idle THEN {} ELSE {c})
    <2>1. c \in InFlight /\ (r = Idle <=> r.pc = "idle")
      BY IdleFormed DEF Moves
    <2>2. QED BY <1>1, <2>1 DEF InFlight, At
  <1>3. r # Idle => r.comment = k
    BY DEF Moves
  <1>4. \A d \in Clients : req[d].comment \in DOMAIN comments \cup {0}
    BY DEF FormedInv, TypeOK
  <1>5. /\ k = req[c].comment \/ (req[c].comment = 0 /\ k \notin DOMAIN comments /\ k # 0)
        /\ 0 \notin DOMAIN comments
    BY CommentsFacts DEF Moves, FormedInv
  <1>6. ASSUME NEW j \in Untorn', j # k
        PROVE  j \in Untorn /\ req[c].comment # j /\ SameAbout(j)
    BY <1>1, <1>5, <1>6 DEF Untorn
  <1>7. InFlight \subseteq Clients
    BY DEF InFlight
  <1>8. k \in Untorn' => \A d \in InFlight \ {c} : req[d].comment # k
    <2> SUFFICES ASSUME k \in Untorn', NEW d \in InFlight \ {c}, req[d].comment = k
                 PROVE  FALSE
      OBVIOUS
    <2>1. k \in DOMAIN comments /\ k \in Untorn
      <3>1. k \in DOMAIN comments \cup {0} /\ k \notin torn
        BY <1>4, <1>7 DEF Untorn
      <3>2. k # 0
        BY DEF Moves
      <3>3. QED BY <3>1, <3>2 DEF Untorn
    <2>2. k = req[c].comment
      BY <1>5, <2>1
    <2>3. QED BY <1>2, <2>1, <2>2 DEF QuietInv
  <1>9. ASSUME NEW j \in Untorn', \A d \in InFlight' : req'[d].comment # j
        PROVE  Match(j)'
    <2>1. CASE j = k
      <3>1. r = Idle
        BY <1>1, <1>2, <1>3, <1>9, <2>1
      <3>2. QED BY <2>1, <3>1, <1>9 DEF Untorn
    <2>2. CASE j # k
      <3>1. j \in Untorn /\ req[c].comment # j /\ SameAbout(j)
        BY <1>6, <2>2
      <3>2. \A d \in InFlight : req[d].comment # j
        BY <1>1, <1>2, <1>7, <1>9, <3>1
      <3>3. QED BY <3>1, <3>2, SameMatch DEF QuietInv
    <2>3. QED BY <2>1, <2>2
  <1>10. ASSUME NEW d \in InFlight', NEW e \in InFlight',
                req'[d].comment = req'[e].comment, req'[d].comment \in Untorn'
         PROVE  d = e
    <2>1. CASE d = c \/ e = c
      BY <1>1, <1>2, <1>3, <1>7, <1>8, <1>10, <2>1
    <2>2. CASE d # c /\ e # c
      <3>1. /\ d \in InFlight /\ e \in InFlight /\ req'[d] = req[d] /\ req'[e] = req[e]
        BY <1>1, <1>2, <1>7, <2>2
      <3>2. req[d].comment # k
        BY <1>8, <1>10, <2>2, <3>1
      <3>3. req[d].comment \in Untorn
        BY <1>6, <1>10, <3>1, <3>2
      <3>4. QED BY <1>10, <3>1, <3>3 DEF QuietInv
    <2>3. QED BY <2>1, <2>2
  <1>11. ASSUME NEW d \in InFlight', req'[d].comment \in Untorn'
         PROVE  Halfway(req[d])'
    <2>1. CASE d = c
      <3>1. r # Idle /\ req'[d] = r /\ k \notin torn'
        BY <1>1, <1>2, <1>3, <1>11, <2>1 DEF Untorn
      <3>2. QED BY <3>1
    <2>2. CASE d # c
      <3>1. d \in InFlight /\ req'[d] = req[d]
        BY <1>1, <1>2, <1>7, <2>2
      <3>2. req[d].comment # k
        BY <1>8, <1>11, <2>2, <3>1
      <3>3. req[d].comment \in Untorn /\ SameAbout(req[d].comment)
        BY <1>6, <1>11, <3>1, <3>2
      <3>4. Halfway(req[d])
        BY <3>1, <3>3 DEF QuietInv
      <3>5. PICK s : s = req[d]
        OBVIOUS
      <3>6. Halfway(s)'
        BY <3>3, <3>4, <3>5, SameHalfway
      <3>7. QED BY <3>1, <3>5, <3>6
    <2>3. QED BY <2>1, <2>2
  <1>12. QED BY <1>9, <1>10, <1>11 DEF QuietInv

LEMMA BusyHalfway ==
    ASSUME FormedInv, QuietInv, NEW c \in Clients, NEW r, NEW k, Moves(c, r, k),
           k \in DOMAIN comments, k \notin torn
    PROVE  Halfway(req[c]) /\ req[c].comment = k
  <1>1. k = req[c].comment
    BY CommentsFacts DEF Moves, FormedInv
  <1>2. QED BY <1>1 DEF QuietInv, Moves, Untorn

LEMMA StartQuiet ==
    ASSUME FormedInv, QuietInv, NEW c \in Clients, NEW r, Starts(c, r)
    PROVE  QuietInv'
  <1>1. /\ req'[c] = r /\ \A d \in Clients \ {c} : req'[d] = req[d]
        /\ InFlight' = InFlight \cup {c} /\ c \notin InFlight /\ InFlight \subseteq Clients
    BY DEF Starts, Set, InFlight, At, FormedInv, TypeOK
  <1>2. \A j : SameAbout(j)
    BY SameStands DEF Starts
  <1>3. Untorn' \subseteq Untorn /\ 0 \notin Untorn'
    BY CommentsFacts DEF Starts, Untorn, FormedInv
  <1>4. r.comment \in Untorn' => \A d \in InFlight : req[d].comment # r.comment
    <2> SUFFICES ASSUME r.comment \in Untorn', NEW d \in InFlight, req[d].comment = r.comment
                 PROVE  FALSE
      OBVIOUS
    <2>1. r.comment \in torn'
      BY <1>3 DEF Starts
    <2>2. QED BY <2>1 DEF Untorn
  <1>5. ASSUME NEW j \in Untorn', \A d \in InFlight' : req'[d].comment # j
        PROVE  Match(j)'
    <2>1. \A d \in InFlight : req[d].comment # j
      BY <1>1, <1>5
    <2>2. Match(j)
      BY <1>3, <2>1 DEF QuietInv
    <2>3. QED BY <1>2, <2>2, SameMatch
  <1>6. ASSUME NEW d \in InFlight', NEW e \in InFlight',
               req'[d].comment = req'[e].comment, req'[d].comment \in Untorn'
        PROVE  d = e
    <2>1. CASE d = c \/ e = c
      BY <1>1, <1>4, <1>6, <2>1
    <2>2. CASE d # c /\ e # c
      BY <1>1, <1>3, <1>6, <2>2 DEF QuietInv
    <2>3. QED BY <2>1, <2>2
  <1>7. ASSUME NEW d \in InFlight', req'[d].comment \in Untorn'
        PROVE  Halfway(req[d])'
    <2>1. PICK s : s = req'[d]
      OBVIOUS
    <2>2. Halfway(s)
      <3>1. CASE d = c
        <4>1. s = r /\ s.pc = "write"
          BY <1>1, <2>1, <3>1 DEF Starts
        <4>2. Match(s.comment)
          BY <1>3, <1>4, <1>7, <2>1, <4>1 DEF QuietInv
        <4>3. QED BY <4>1, <4>2 DEF Halfway, Match
      <3>2. CASE d # c
        BY <1>1, <1>3, <1>7, <2>1, <3>2 DEF QuietInv
      <3>3. QED BY <3>1, <3>2
    <2>3. Halfway(s)'
      BY <1>2, <2>2, SameHalfway
    <2>4. QED BY <2>1, <2>3
  <1>8. QED BY <1>5, <1>6, <1>7 DEF QuietInv

LEMMA CreateHalfway ==
    ASSUME FormedInv, NEW c \in Clients, NEW r, NEW k, Creates(c, r, k),
           UNCHANGED <<mentions, timeline>>
    PROVE  Halfway(r)'
  <1>1. /\ r.comment = k /\ k \notin DOMAIN comments /\ r.pc = "mention" /\ r.todo = r.body
        /\ comments'[k].body = r.body /\ comments'[k].resolved = FALSE
        /\ comments'[k].deleted = FALSE
    BY IdleFormed DEF Creates, Moves
  <1>2. Rows(k)' = {}
    BY <1>1 DEF Rows, FormedInv, TypeOK
  <1>3. \A i \in DOMAIN timeline' : timeline'[i].comment # k
    BY <1>1 DEF FormedInv
  <1>4. ~Stands(k, "resolved", "reopened")' /\ ~Stands(k, "deleted", "restored")'
    BY <1>3 DEF Stands
  <1>5. QED BY <1>1, <1>2, <1>4 DEF Halfway, ResolvedMatches, DeletedMatches

LEMMA UpdatedFlags ==
    ASSUME NEW row \in Comments, NEW r \in Requests, Formed(r), r.pc # "idle",
           r.kind # "create"
    PROVE  /\ r.kind \in {"resolve", "reopen"} => Updated(row, r).resolved = (r.kind = "resolve")
           /\ r.kind \notin {"resolve", "reopen"} => Updated(row, r).resolved = row.resolved
           /\ r.kind \in {"delete", "restore"} => Updated(row, r).deleted = (r.kind = "delete")
           /\ r.kind \notin {"delete", "restore"} => Updated(row, r).deleted = row.deleted
  BY UpdatedComment

LEMMA RewriteHalfway ==
    ASSUME FormedInv, QuietInv, NEW c \in Clients, NEW r, NEW k, Rewrites(c, r, k),
           UNCHANGED <<mentions, timeline>>, k \notin torn
    PROVE  Halfway(r)'
  <1>1. /\ Moves(c, r, k) /\ k \in DOMAIN comments /\ req[c].pc = "write"
        /\ r.kind # "create" /\ r.pc = IF r.kind = "edit" THEN "unmention" ELSE "activity"
        /\ comments'[k] = Updated(comments[k], r)
    BY DEF Rewrites
  <1>2. /\ r.pc # "idle" /\ r.comment = k /\ r \in Requests /\ Formed(r)
    BY <1>1, IdleFormed DEF Moves
  <1>3. RowsMatch(k) /\ ResolvedMatches(k) /\ DeletedMatches(k)
    BY <1>1, BusyHalfway DEF Halfway
  <1>4. comments[k] \in Comments
    BY <1>1, CommentsFacts DEF FormedInv
  <1>5. /\ Rows(k)' = Rows(k)
        /\ Stands(k, "resolved", "reopened")' <=> Stands(k, "resolved", "reopened")
        /\ Stands(k, "deleted", "restored")' <=> Stands(k, "deleted", "restored")
    BY DEF Rows, Stands
  <1>6. /\ r.kind \in {"resolve", "reopen"} => comments'[k].resolved = (r.kind = "resolve")
        /\ r.kind \notin {"resolve", "reopen"} => ResolvedMatches(k)'
    <2>1. /\ r.kind \in {"resolve", "reopen"} => comments'[k].resolved = (r.kind = "resolve")
          /\ r.kind \notin {"resolve", "reopen"} => comments'[k].resolved = comments[k].resolved
      BY <1>1, <1>2, <1>4, UpdatedFlags
    <2>2. QED BY <1>3, <1>5, <2>1 DEF ResolvedMatches
  <1>7. /\ r.kind \in {"delete", "restore"} => comments'[k].deleted = (r.kind = "delete")
        /\ r.kind \notin {"delete", "restore"} => DeletedMatches(k)'
    <2>1. /\ r.kind \in {"delete", "restore"} => comments'[k].deleted = (r.kind = "delete")
          /\ r.kind \notin {"delete", "restore"} => comments'[k].deleted = comments[k].deleted
      BY <1>1, <1>2, <1>4, UpdatedFlags
    <2>2. QED BY <1>3, <1>5, <2>1 DEF DeletedMatches
  <1>8. CASE r.kind = "edit"
    <2>1. Updated(comments[k], r).body = r.body
      BY <1>1, <1>2, <1>4, <1>8, UpdatedText
    <2>2. r.body = comments'[k].body /\ r.pc = "unmention"
      BY <1>1, <1>8, <2>1
    <2>3. ResolvedMatches(k)' /\ DeletedMatches(k)'
      BY <1>6, <1>7, <1>8
    <2>4. QED BY <1>2, <2>2, <2>3 DEF Halfway
  <1>9. CASE r.kind # "edit"
    <2>1. Updated(comments[k], r).body = comments[k].body
      BY <1>1, <1>2, <1>4, <1>9, UpdatedText
    <2>2. RowsMatch(k)' /\ r.pc = "activity"
      BY <1>1, <1>3, <1>5, <1>9, <2>1 DEF RowsMatch
    <2>3. QED BY <1>2, <1>6, <1>7, <2>2 DEF Halfway
  <1>10. QED BY <1>8, <1>9

LEMMA WriteQuiet ==
    ASSUME FormedInv, QuietInv, NEW c \in Clients, writeComment(c)
    PROVE  QuietInv'
  <1>1. UNCHANGED <<mentions, timeline, torn>>
    BY DEF writeComment
  <1>2. PICK r, k : Creates(c, r, k) \/ Rewrites(c, r, k)
    BY WriteMoves
  <1>3. Moves(c, r, k) /\ LeavesOthers(k) /\ r # Idle
    BY <1>2, IdleFormed DEF Creates, Rewrites
  <1>4. \A j \in DOMAIN comments \ {k} : SameAbout(j)
    BY <1>1, <1>3 DEF LeavesOthers, SameAbout, Rows, Stands
  <1>5. k \notin torn' => Halfway(r)'
    BY <1>1, <1>2, CreateHalfway, RewriteHalfway
  <1>6. QED BY <1>1, <1>3, <1>4, <1>5, QuietMove

LEMMA DeleteQuiet ==
    ASSUME FormedInv, QuietInv, NEW c \in Clients, deleteMentions(c)
    PROVE  QuietInv'
  <1>1. UNCHANGED <<comments, timeline, torn>>
    BY DEF deleteMentions
  <1>2. PICK r, k : Unmentions(c, r, k)
    BY DeleteMoves
  <1>3. /\ Moves(c, r, k) /\ k \in DOMAIN comments /\ req[c].pc = "unmention"
        /\ r.pc = "mention" /\ r.todo = r.body /\ mentions' = RowsLeft(k)
    BY <1>2 DEF Unmentions
  <1>4. r # Idle /\ r.comment = k /\ r.body = req[c].body
    BY <1>3, IdleFormed DEF Moves
  <1>5. \A j \in DOMAIN comments \ {k} : SameAbout(j)
    BY <1>1, <1>3 DEF RowsLeft, SameAbout, Rows, Stands
  <1>6. ASSUME k \notin torn'
        PROVE  Halfway(r)'
    <2>1. r.body = comments[k].body /\ ResolvedMatches(k) /\ DeletedMatches(k)
      BY <1>1, <1>3, <1>4, <1>6, BusyHalfway DEF Halfway
    <2>2. Rows(k)' = {}
      BY <1>3 DEF Rows, RowsLeft
    <2>3. ResolvedMatches(k)' /\ DeletedMatches(k)'
      BY <1>1, <2>1 DEF ResolvedMatches, DeletedMatches, Stands
    <2>4. QED BY <1>1, <1>3, <1>4, <2>1, <2>2, <2>3 DEF Halfway
  <1>7. QED BY <1>1, <1>3, <1>4, <1>5, <1>6, QuietMove

LEMMA InsertQuiet ==
    ASSUME FormedInv, QuietInv, NEW c \in Clients, insertMention(c)
    PROVE  QuietInv'
  <1>1. UNCHANGED <<comments, timeline, torn>>
    BY DEF insertMention
  <1>2. PICK r, k, u : Inserts(c, r, k, u)
    BY InsertMoves
  <1>3. /\ Moves(c, r, k) /\ k \in DOMAIN comments /\ req[c].pc = "mention"
        /\ u \in req[c].todo
    BY <1>2 DEF Inserts
  <1>4. mentions' = mentions \/ mentions' = mentions \cup {<<k, u>>}
    BY <1>2 DEF Inserts
  <1>5. \A j \in DOMAIN comments \ {k} : SameAbout(j)
    BY <1>1, <1>4 DEF SameAbout, Rows, Stands
  <1>6. ASSUME k \notin torn'
        PROVE  r # Idle /\ Halfway(r)'
    <2>1. /\ req[c].body = comments[k].body /\ ResolvedMatches(k) /\ DeletedMatches(k)
          /\ req[c].todo \subseteq req[c].body
          /\ Rows(k) = {k} \X (req[c].body \ req[c].todo)
      BY <1>1, <1>3, <1>6, BusyHalfway DEF Halfway
    <2>2. <<k, u>> \notin mentions
      BY <1>3, <2>1 DEF Rows
    <2>3. mentions' = mentions \cup {<<k, u>>} /\ r.pc = "mention" /\ r.todo = req[c].todo \ {u}
      BY <1>2, <2>2 DEF Inserts
    <2>4. r # Idle /\ r.comment = k /\ r.body = req[c].body
      BY <1>3, <2>3, IdleFormed DEF Moves
    <2>5. Rows(k)' = Rows(k) \cup {<<k, u>>}
      BY <2>3 DEF Rows
    <2>6. Rows(k)' = {k} \X (r.body \ r.todo)
      BY <1>3, <2>1, <2>3, <2>4, <2>5
    <2>7. ResolvedMatches(k)' /\ DeletedMatches(k)'
      BY <1>1, <2>1 DEF ResolvedMatches, DeletedMatches, Stands
    <2>8. QED BY <1>1, <2>1, <2>3, <2>4, <2>6, <2>7 DEF Halfway
  <1>7. QED BY <1>1, <1>3, <1>5, <1>6, QuietMove

LEMMA MatchGoesOn ==
    ASSUME NEW r, NEW k, r = Idle \/ (r.pc = "notify" /\ r.comment = k), Match(k)'
    PROVE  IF r = Idle THEN Match(k)' ELSE Halfway(r)'
  BY DEF Match, Halfway

LEMMA EntryTypes ==
    ASSUME NEW r, r.kind \in Kinds, NEW k, k = r.comment
    PROVE  /\ EntryOf(r) = [type |-> "resolved", comment |-> k] <=> r.kind = "resolve"
           /\ EntryOf(r) = [type |-> "reopened", comment |-> k] <=> r.kind = "reopen"
           /\ EntryOf(r) = [type |-> "deleted", comment |-> k] <=> r.kind = "delete"
           /\ EntryOf(r) = [type |-> "restored", comment |-> k] <=> r.kind = "restore"
           /\ EntryOf(r).comment = k
  <1>1. EntryOf(r).type = EntryType[r.kind] /\ EntryOf(r).comment = k
    BY DEF EntryOf
  <1>2. \A type : EntryOf(r) = [type |-> type, comment |-> k] <=> EntryType[r.kind] = type
    BY <1>1 DEF EntryOf
  <1>3. /\ EntryType[r.kind] = "resolved" <=> r.kind = "resolve"
        /\ EntryType[r.kind] = "reopened" <=> r.kind = "reopen"
        /\ EntryType[r.kind] = "deleted" <=> r.kind = "delete"
        /\ EntryType[r.kind] = "restored" <=> r.kind = "restore"
    BY DEF EntryType, Kinds
  <1>4. QED BY <1>1, <1>2, <1>3

LEMMA AppendQuiet ==
    ASSUME FormedInv, QuietInv, NEW c \in Clients, appendActivity(c)
    PROVE  QuietInv'
  <1>1. UNCHANGED <<comments, mentions, torn>>
    BY DEF appendActivity
  <1>2. PICK r, k : Records(c, r, k)
    BY AppendMoves
  <1>3. PICK e \in Entries : e = EntryOf(req[c])
    BY <1>2 DEF Records
  <1>4. /\ Moves(c, r, k) /\ k \in DOMAIN comments /\ timeline' = Append(timeline, e)
        /\ req[c].pc = "activity" \/ (req[c].pc = "mention" /\ req[c].todo = {})
        /\ r = Idle \/ (r.pc = "notify" /\ r.comment = k)
    BY <1>2, <1>3, IdleFormed DEF Records, Tells, Moves
  <1>5. timeline \in Seq(Entries)
    BY FormedTables DEF TablesTyped
  <1>6. /\ k = req[c].comment /\ req[c].kind \in Kinds
        /\ req[c].pc = "mention" => req[c].kind \in Writing
    BY <1>4, CommentsFacts, BusyFacts DEF Moves, FormedInv, Formed
  <1>7. \A j : /\ Stands(j, "resolved", "reopened")'
                    <=> \/ e = [type |-> "resolved", comment |-> j]
                        \/ /\ e # [type |-> "reopened", comment |-> j]
                           /\ Stands(j, "resolved", "reopened")
               /\ Stands(j, "deleted", "restored")'
                    <=> \/ e = [type |-> "deleted", comment |-> j]
                        \/ /\ e # [type |-> "restored", comment |-> j]
                           /\ Stands(j, "deleted", "restored")
    BY <1>4, <1>5, StandsAppended
  <1>8. Rows(k)' = Rows(k) /\ \A j : Rows(j)' = Rows(j)
    BY <1>1 DEF Rows
  <1>9. /\ e = [type |-> "resolved", comment |-> k] <=> req[c].kind = "resolve"
        /\ e = [type |-> "reopened", comment |-> k] <=> req[c].kind = "reopen"
        /\ e = [type |-> "deleted", comment |-> k] <=> req[c].kind = "delete"
        /\ e = [type |-> "restored", comment |-> k] <=> req[c].kind = "restore"
        /\ e.comment = k
    BY <1>3, <1>6, EntryTypes
  <1>10. \A j \in DOMAIN comments \ {k} : SameAbout(j)
    BY <1>1, <1>7, <1>8, <1>9 DEF SameAbout
  <1>11. ASSUME k \notin torn'
         PROVE  Match(k)'
    <2>1. Halfway(req[c])
      BY <1>1, <1>4, <1>11, BusyHalfway
    <2>2. RowsMatch(k)'
      <3>1. CASE req[c].pc = "activity"
        BY <1>1, <1>6, <1>8, <2>1, <3>1 DEF Halfway, RowsMatch
      <3>2. CASE req[c].pc = "mention" /\ req[c].todo = {}
        <4>1. Rows(k) = {k} \X (req[c].body \ req[c].todo) /\ req[c].body = comments[k].body
          BY <1>6, <2>1, <3>2 DEF Halfway
        <4>2. req[c].body \ req[c].todo = req[c].body
          BY <3>2
        <4>3. Rows(k) = {k} \X comments[k].body
          BY <4>1, <4>2
        <4>4. QED BY <1>1, <1>8, <4>3 DEF RowsMatch
      <3>3. QED BY <1>4, <3>1, <3>2
    <2>3. ResolvedMatches(k)'
      <3>1. CASE req[c].kind \in {"resolve", "reopen"}
        <4>1. req[c].pc = "activity"
          BY <1>4, <1>6, <3>1 DEF Writing
        <4>2. comments[k].resolved = (req[c].kind = "resolve")
          BY <1>6, <2>1, <3>1, <4>1 DEF Halfway
        <4>3. Stands(k, "resolved", "reopened")' <=> req[c].kind = "resolve"
          BY <1>7, <1>9, <3>1
        <4>4. QED BY <1>1, <4>2, <4>3 DEF ResolvedMatches
      <3>2. CASE req[c].kind \notin {"resolve", "reopen"}
        <4>1. ResolvedMatches(k)
          BY <1>6, <2>1, <3>2 DEF Halfway
        <4>2. Stands(k, "resolved", "reopened")' <=> Stands(k, "resolved", "reopened")
          BY <1>7, <1>9, <3>2
        <4>3. QED BY <1>1, <4>1, <4>2 DEF ResolvedMatches
      <3>3. QED BY <3>1, <3>2
    <2>4. DeletedMatches(k)'
      <3>1. CASE req[c].kind \in {"delete", "restore"}
        <4>1. req[c].pc = "activity"
          BY <1>4, <1>6, <3>1 DEF Writing
        <4>2. comments[k].deleted = (req[c].kind = "delete")
          BY <1>6, <2>1, <3>1, <4>1 DEF Halfway
        <4>3. Stands(k, "deleted", "restored")' <=> req[c].kind = "delete"
          BY <1>7, <1>9, <3>1
        <4>4. QED BY <1>1, <4>2, <4>3 DEF DeletedMatches
      <3>2. CASE req[c].kind \notin {"delete", "restore"}
        <4>1. DeletedMatches(k)
          BY <1>6, <2>1, <3>2 DEF Halfway
        <4>2. Stands(k, "deleted", "restored")' <=> Stands(k, "deleted", "restored")
          BY <1>7, <1>9, <3>2
        <4>3. QED BY <1>1, <4>1, <4>2 DEF DeletedMatches
      <3>3. QED BY <3>1, <3>2
    <2>5. QED BY <2>2, <2>3, <2>4 DEF Match
  <1>12. k \notin torn' => IF r = Idle THEN Match(k)' ELSE Halfway(r)'
    BY <1>4, <1>11, MatchGoesOn
  <1>13. QED BY <1>1, <1>4, <1>10, <1>12, QuietMove

LEMMA NotifyQuiet ==
    ASSUME FormedInv, QuietInv, NEW c \in Clients, notify(c)
    PROVE  QuietInv'
  <1>1. UNCHANGED <<comments, mentions, timeline, torn>>
    BY DEF notify
  <1>2. PICK r, k, n : Notifies(c, r, k, n)
    BY NotifyMoves
  <1>3. /\ Moves(c, r, k) /\ k \in DOMAIN comments /\ req[c].pc = "notify"
        /\ r = Idle \/ (r.pc = "notify" /\ r.comment = k)
    BY <1>2, IdleFormed DEF Notifies, Tells, Moves
  <1>4. \A j : SameAbout(j)
    BY <1>1, SameStands
  <1>5. ASSUME k \notin torn'
        PROVE  Match(k)'
    <2>1. Match(k)
      BY <1>1, <1>3, <1>5, BusyHalfway DEF Halfway, Match
    <2>2. QED BY <1>4, <2>1, SameMatch
  <1>6. k \notin torn' => IF r = Idle THEN Match(k)' ELSE Halfway(r)'
    BY <1>3, <1>5, MatchGoesOn
  <1>7. QED BY <1>1, <1>3, <1>4, <1>6, QuietMove

LEMMA FailQuiet ==
    ASSUME FormedInv, QuietInv, NEW c \in Clients, fail(c)
    PROVE  QuietInv'
  <1>1. CASE GivesUp(c)
    <2>1. /\ req'[c] = Idle /\ \A d \in Clients \ {c} : req'[d] = req[d]
          /\ UNCHANGED <<comments, mentions, timeline, torn>>
          /\ req[c].pc = "write" /\ c \in InFlight
      BY <1>1 DEF GivesUp, Set, FormedInv, TypeOK
    <2>2. InFlight' = InFlight \ {c} /\ Untorn' = Untorn /\ \A j : SameAbout(j)
      BY <2>1, IdleFormed, SameStands DEF InFlight, At, Untorn
    <2>3. req[c].comment \in Untorn => Match(req[c].comment)
      BY <2>1 DEF QuietInv, Halfway, Match
    <2>4. \A d \in InFlight' : d \in InFlight /\ req'[d] = req[d]
      BY <2>1, <2>2 DEF InFlight
    <2>5. ASSUME NEW j \in Untorn', \A d \in InFlight' : req'[d].comment # j
          PROVE  Match(j)'
      <3>1. \A d \in InFlight \ {c} : req[d].comment # j
        BY <2>2, <2>4, <2>5
      <3>2. Match(j)
        BY <2>2, <2>3, <3>1 DEF QuietInv
      <3>3. QED BY <2>2, <3>2, SameMatch
    <2>6. ASSUME NEW d \in InFlight', req'[d].comment \in Untorn'
          PROVE  Halfway(req[d])'
      <3>1. PICK s : s = req[d]
        OBVIOUS
      <3>2. Halfway(s)
        BY <2>2, <2>4, <2>6, <3>1 DEF QuietInv
      <3>3. Halfway(s)'
        BY <2>2, <3>2, SameHalfway
      <3>4. QED BY <2>4, <3>1, <3>3
    <2>7. \A d, e \in InFlight' :
              req'[d].comment = req'[e].comment /\ req'[d].comment \in Untorn' => d = e
      BY <2>2, <2>4 DEF QuietInv
    <2>8. QED BY <2>5, <2>6, <2>7 DEF QuietInv
  <1>2. ASSUME NEW k, IsCut(c, k)
        PROVE  QuietInv'
    <2>1. \A j : SameAbout(j)
      BY <1>2, SameStands DEF IsCut
    <2>2. Moves(c, Idle, k) /\ torn' = torn \cup {k}
      BY <1>2 DEF IsCut
    <2>3. QED BY <2>1, <2>2, QuietMove
  <1>3. QED BY <1>1, <1>2, FailMoves

LEMMA SameQuiet ==
    ASSUME QuietInv, UNCHANGED <<comments, mentions, timeline, torn, req>>
    PROVE  QuietInv'
  <1>1. InFlight' = InFlight /\ Untorn' = Untorn /\ \A j : SameAbout(j)
    BY SameStands DEF InFlight, At, Untorn
  <1>2. \A k : Match(k) => Match(k)'
    BY <1>1, SameMatch
  <1>3. \A r : Halfway(r) => Halfway(r)'
    BY <1>1, SameHalfway
  <1>4. \A c \in InFlight : Halfway(req[c]) => Halfway(req[c])'
    <2> SUFFICES ASSUME NEW c \in InFlight, Halfway(req[c]) PROVE Halfway(req[c])'
      OBVIOUS
    <2>1. PICK s : s = req[c]
      OBVIOUS
    <2>2. Halfway(s)'
      BY <1>3, <2>1
    <2>3. QED BY <2>1, <2>2
  <1>5. QED BY <1>1, <1>2, <1>4 DEF QuietInv

LEMMA QuietInitially == Init => QuietInv
  <1> SUFFICES ASSUME Init PROVE QuietInv
    OBVIOUS
  <1>1. DOMAIN comments = {} /\ InFlight = {}
    BY IdleFormed DEF Init, InFlight, At
  <1>2. QED BY <1>1 DEF QuietInv, Untorn

LEMMA QuietStep ==
    ASSUME FormedInv, QuietInv, [Next]_vars
    PROVE  QuietInv'
  <1>1. ASSUME NEW c \in Clients, StartsSomething(c)
        PROVE  QuietInv'
    BY <1>1, RequestsStart, StartQuiet DEF FormedInv
  <1>2. ASSUME NEW c \in Clients, Step(c)
        PROVE  QuietInv'
    BY <1>1, <1>2, WriteQuiet, DeleteQuiet, InsertQuiet, AppendQuiet, NotifyQuiet, FailQuiet
       DEF Step, StartsSomething
  <1>3. CASE UNCHANGED vars
    BY <1>3, SameQuiet DEF vars
  <1>4. ASSUME NEW u \in Users, NotificationCenter(u)
        PROVE  QuietInv'
    BY <1>4, CenterFacts, SameQuiet
  <1>5. QED BY <1>2, <1>3, <1>4 DEF Next

LEMMA QuietAlways == Spec => []QuietInv
  BY FormedAlways, QuietInitially, QuietStep, PTL DEF Spec
----
(* The rows of comments, mentions and notifications are of their types, a  *)
(* member has one active notification of a kind about a comment, and every *)
(* request is about a comment that exists or that it is to insert          *)
(* (notification-repository.ts:75, schema.ts).                             *)
THEOREM DiscussionTyped == Spec => []TypeOK
  <1>1. FormedInv => TypeOK
    BY DEF FormedInv
  <1>2. QED BY <1>1, FormedAlways, PTL

(* Nobody whom a comment mentions is lost to overlapping edits or to the   *)
(* deduplication of notifications                                          *)
(* (discussion-notifications.ts:53, notification-repository.ts:75).        *)
THEOREM NobodyIsForgotten == Spec => []MentionsAreAnnounced
  <1>1. AnnouncedInv => MentionsAreAnnounced
    BY AnnouncedIsTold DEF AnnouncedInv
  <1>2. QED BY <1>1, AnnouncedAlways, PTL

(* A comment whose requests never overlapped and all ran to their end has  *)
(* the mention rows of its text and the flags that its timeline tells      *)
(* (discussion-service.ts:157, 211, 257, 288, 313, 349, 385).              *)
THEOREM QuietCommentsStayConsistent == Spec => []QuietCommentsAreConsistent
  <1>1. QuietInv => QuietCommentsAreConsistent
    BY DEF QuietInv, QuietCommentsAreConsistent, Untorn, Match, Rows, RowsMatch,
           ResolvedMatches, DeletedMatches
  <1>2. QED BY <1>1, QuietAlways, PTL
====
