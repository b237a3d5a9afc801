---- MODULE Discussion ----
(***************************************************************************)
(* The comments of one control, the mentions in them, their entries on the *)
(* activity timeline and the notifications they cause.  No request opens a *)
(* transaction: the UPDATE of a comment, the replacement of its mention    *)
(* rows, the timeline entry and each notification are separate statements. *)
(*                                                                         *)
(* Abstractions.  A comment's text is the set of members it mentions, in   *)
(* no order, and its entries on the timeline are without it.  The reads    *)
(* that precede a write ask for the same columns, so that one read stands  *)
(* for them.  The control record exists: how requests make it is in        *)
(* ControlReview.  A deleted notification is gone, which is what its       *)
(* partial unique index and its queries see.                               *)
(* Operators named Faulty... are not the code: see ProjectStore.           *)
(***************************************************************************)
EXTENDS Authorization, Naturals, Sequences, FiniteSets

CONSTANTS Clients,      \* server actions that may be in flight at once
          Users,
          Role,         \* the role of each member of the organization
          Bodies,       \* the texts that are written
          None,
          MaxComments, MaxRequests, MaxFailures    \* bounds of the model

ASSUME DiscussionAssumption ==
    /\ Role \in [Users -> OrgRoles]
    /\ Bodies \subseteq SUBSET Users
    /\ None \notin Users \cup Bodies
    /\ MaxComments \in Nat /\ MaxRequests \in Nat /\ MaxFailures \in Nat

Comments == [parent : Nat, author : Users, body : Bodies, resolved : BOOLEAN,
             deleted : BOOLEAN,
             editor : Users]            \* ghost: who wrote the body
Entries == [type : {"added", "edited", "deleted", "restored", "resolved", "reopened"},
            comment : Nat]
Notices == [user : Users, type : {"mention", "reply", "resolved"}, comment : Nat,
            read : BOOLEAN]

VARIABLES comments,     \* table comments, in the order of insertion
          mentions,     \* table comment_mentions: pairs of a comment and a user
          timeline,     \* the control's activities about comments
          notices,      \* active rows of table notifications
          announced,    \* ghost: users ever notified of a mention in a comment
          torn,         \* ghost: comments with overlapping or failed requests
          cut,          \* ghost: comments with a request that failed midway
          req,          \* per client, the server action it has in flight
          requests, failures

vars == <<comments, mentions, timeline, notices, announced, torn, cut, req,
          requests, failures>>

Kinds == {"create", "edit", "delete", "restore", "resolve", "reopen"}
Requests ==
    [pc : {"idle", "write", "unmention", "mention", "activity", "notify"},
     kind : Kinds \cup {None},
     actor : Users \cup {None},
     comment : Nat,                     \* 0: not inserted yet
     parent : Nat,                      \* 0: the root of a thread
     body : Bodies \cup {None},
     todo : SUBSET Users,               \* mention rows still to be inserted
     notify : SUBSET (Users \X {"mention", "reply", "resolved"})]

Idle == [pc |-> "idle", kind |-> None, actor |-> None, comment |-> 0, parent |-> 0,
         body |-> None, todo |-> {}, notify |-> {}]

TypeOK ==
    /\ comments \in Seq(Comments)
    /\ mentions \subseteq (DOMAIN comments) \X Users
    /\ timeline \in Seq(Entries)
    /\ notices \subseteq Notices
    /\ \A n, m \in notices : n # m => [n EXCEPT !.read = m.read] # m
    /\ announced \subseteq Users \X (DOMAIN comments)
    /\ torn \subseteq DOMAIN comments /\ cut \subseteq DOMAIN comments
    /\ req \in [Clients -> Requests]
    /\ \A c \in Clients : req[c].comment \in DOMAIN comments \cup {0}
    /\ requests \in Nat /\ failures \in Nat

Init ==
    /\ comments = <<>> /\ mentions = {} /\ timeline = <<>>
    /\ notices = {} /\ announced = {} /\ torn = {} /\ cut = {}
    /\ req = [c \in Clients |-> Idle]
    /\ requests = 0 /\ failures = 0
----
At(c, pc) == req[c].pc = pc
Set(c, r) == req' = [req EXCEPT ![c] = r]
Goto(c, pc) == Set(c, [req[c] EXCEPT !.pc = pc])
InFlight == {c \in Clients : ~At(c, "idle")}

Start(c, r) ==
    /\ At(c, "idle") /\ requests < MaxRequests
    /\ requests' = requests + 1
    /\ Set(c, [r EXCEPT !.pc = "write"])
    /\ torn' = torn \cup ({req[d].comment : d \in InFlight} \cap ({r.comment} \ {0}))
    /\ UNCHANGED <<comments, mentions, timeline, notices, announced, cut, failures>>

Moderates(u) == can(Role[u], "discussion.moderate")
OwnOrModerate(u, k, permission) ==
    Moderates(u) \/ (u = comments[k].author /\ can(Role[u], permission))

Root(k) ==
    LET up[j \in DOMAIN comments] ==
            IF comments[j].parent = 0 THEN j ELSE up[comments[j].parent]
    IN  up[k]

createDiscussion(c) ==
    \E u \in Users, b \in Bodies, p \in DOMAIN comments \cup {0} :
        /\ IF p = 0 THEN can(Role[u], "discussion.create")
           ELSE can(Role[u], "discussion.reply") /\ ~comments[p].deleted
        /\ Len(comments) + Cardinality({d \in Clients : req[d].kind = "create"
                                           /\ At(d, "write")}) < MaxComments
        /\ Start(c, [Idle EXCEPT !.kind = "create", !.actor = u, !.parent = p, !.body = b])

editDiscussion(c) ==
    \E u \in Users, b \in Bodies, k \in DOMAIN comments :
        /\ ~comments[k].deleted /\ OwnOrModerate(u, k, "discussion.edit_own")
        /\ Start(c, [Idle EXCEPT !.kind = "edit", !.actor = u, !.comment = k, !.body = b])

deleteDiscussion(c) ==
    \E u \in Users, k \in DOMAIN comments :
        /\ ~comments[k].deleted /\ OwnOrModerate(u, k, "discussion.delete_own")
        /\ Start(c, [Idle EXCEPT !.kind = "delete", !.actor = u, !.comment = k])

restoreDiscussion(c) ==
    \E u \in Users, k \in DOMAIN comments :
        /\ comments[k].deleted /\ Moderates(u)
        /\ Start(c, [Idle EXCEPT !.kind = "restore", !.actor = u, !.comment = k])

(* The author of the whole thread may resolve any comment of it.           *)
resolveDiscussion(c) ==
    \E u \in Users, k \in DOMAIN comments :
        /\ can(Role[u], "discussion.resolve")
        /\ Moderates(u) \/ comments[Root(k)].author = u
        /\ ~comments[k].deleted /\ ~comments[k].resolved
        /\ Start(c, [Idle EXCEPT !.kind = "resolve", !.actor = u, !.comment = k])

(* Only the author of the comment itself may reopen it.                    *)
reopenDiscussion(c) ==
    \E u \in Users, k \in DOMAIN comments :
        /\ can(Role[u], "discussion.resolve")
        /\ Moderates(u) \/ comments[k].author = u
        /\ ~comments[k].deleted /\ comments[k].resolved
        /\ Start(c, [Idle EXCEPT !.kind = "reopen", !.actor = u, !.comment = k])

(* The UPDATE is by id and sets only its own columns.  A new comment has   *)
(* no mention rows to delete.                                              *)
Updated(row, r) ==
    CASE r.kind = "edit" -> [row EXCEPT !.body = r.body, !.editor = r.actor]
      [] r.kind = "delete" -> [row EXCEPT !.deleted = TRUE]
      [] r.kind = "restore" -> [row EXCEPT !.deleted = FALSE]
      [] r.kind = "resolve" -> [row EXCEPT !.resolved = TRUE]
      [] r.kind = "reopen" -> [row EXCEPT !.resolved = FALSE]

writeComment(c) ==
    /\ At(c, "write")
    /\ \/ /\ req[c].kind = "create"
          /\ comments' = Append(comments,
                [parent |-> req[c].parent, author |-> req[c].actor, body |-> req[c].body,
                 resolved |-> FALSE, deleted |-> FALSE, editor |-> req[c].actor])
          /\ Set(c, [req[c] EXCEPT !.pc = "mention", !.comment = Len(comments) + 1,
                                    !.todo = req[c].body])
       \/ /\ req[c].kind # "create"
          /\ comments' = [comments EXCEPT ![req[c].comment] = Updated(@, req[c])]
          /\ Goto(c, IF req[c].kind = "edit" THEN "unmention" ELSE "activity")
    /\ UNCHANGED <<mentions, timeline, notices, announced, torn, cut, requests, failures>>

(* replaceCommentMentions deletes all rows of the comment.                 *)
RowsLeft(k) == {m \in mentions : m[1] # k}

deleteMentions(c) ==
    /\ At(c, "unmention")
    /\ mentions' = RowsLeft(req[c].comment)
    /\ Set(c, [req[c] EXCEPT !.pc = "mention", !.todo = req[c].body])
    /\ UNCHANGED <<comments, timeline, notices, announced, torn, cut, requests, failures>>

(* A row that exists is refused by comment_mentions_comment_user_uid: the  *)
(* request throws and does nothing more.                                   *)
insertMention(c) ==
    /\ At(c, "mention") /\ req[c].todo # {}
    /\ \E u \in req[c].todo :
        LET row == <<req[c].comment, u>>
        IN  \/ /\ row \notin mentions
               /\ mentions' = mentions \cup {row}
               /\ Set(c, [req[c] EXCEPT !.todo = @ \ {u}])
               /\ UNCHANGED cut
            \/ /\ row \in mentions
               /\ Set(c, Idle)
               /\ cut' = cut \cup {req[c].comment}
               /\ UNCHANGED mentions
    /\ UNCHANGED <<comments, timeline, notices, announced, torn, requests, failures>>

EntryType == [create |-> "added", edit |-> "edited", delete |-> "deleted",
              restore |-> "restored", resolve |-> "resolved", reopen |-> "reopened"]

(* MentionsAreAnnounced: an edit notifies nobody.                          *)
FaultyRecipients(r) ==
    LET others == Users \ {r.actor}
    IN  CASE r.kind = "create" ->
                {<<u, "mention">> : u \in r.body \cap others}
                  \cup {<<u, "reply">> : u \in {comments[p].author : p \in {r.parent} \ {0}}
                                                 \cap others}
          [] r.kind = "resolve" ->
                {<<u, "resolved">> : u \in {comments[Root(r.comment)].author} \cap others}
          [] OTHER -> {}

(* Whom emitDiscussionNotifications notifies, and of what; never the actor. *)
Recipients(r) ==
    LET others == Users \ {r.actor}
    IN  CASE r.kind \in {"create", "edit"} ->
                {<<u, "mention">> : u \in r.body \cap others}
                  \cup {<<u, "reply">> : u \in {comments[p].author : p \in {r.parent} \ {0}}
                                                 \cap others}
          [] r.kind = "resolve" ->
                {<<u, "resolved">> : u \in {comments[Root(r.comment)].author} \cap others}
          [] OTHER -> {}

(* A request with nobody left to notify is over.                           *)
Notifying(r, recipients) ==
    IF recipients = {} THEN Idle ELSE [r EXCEPT !.pc = "notify", !.notify = recipients]

(* QuietCommentsAreConsistent: the reopening is recorded as a resolution.  *)
FaultyEntryOf(r) ==
    [type |-> IF r.kind = "reopen" THEN "resolved" ELSE EntryType[r.kind],
     comment |-> r.comment]

EntryOf(r) == [type |-> EntryType[r.kind], comment |-> r.comment]

appendActivity(c) ==
    /\ At(c, "activity") \/ (At(c, "mention") /\ req[c].todo = {})
    /\ timeline' = Append(timeline, EntryOf(req[c]))
    /\ Set(c, Notifying(req[c], Recipients(req[c])))
    /\ UNCHANGED <<comments, mentions, notices, announced, torn, cut, requests, failures>>

(* TypeOK: a read notification is not found, and the index is not there.   *)
FaultyNoticeExists(u, type, k) ==
    \E n \in notices : n.user = u /\ n.type = type /\ n.comment = k /\ ~n.read

(* An active notification of the same kind about the same comment exists.  *)
NoticeExists(u, type, k) ==
    \E n \in notices : n.user = u /\ n.type = type /\ n.comment = k

(* create in the notification repository: the SELECT, or notifications_    *)
(* dedupe_uid if the row appears after it, keeps the one that exists.      *)
notify(c) ==
    /\ At(c, "notify")
    /\ \E n \in req[c].notify :
        LET u == n[1]  type == n[2]  k == req[c].comment
        IN  /\ notices' = IF NoticeExists(u, type, k) THEN notices
                          ELSE notices \cup {[user |-> u, type |-> type, comment |-> k,
                                              read |-> FALSE]}
            /\ announced' = announced \cup IF type = "mention" THEN {<<u, k>>} ELSE {}
            /\ Set(c, Notifying(req[c], req[c].notify \ {n}))
    /\ UNCHANGED <<comments, mentions, timeline, torn, cut, requests, failures>>

(* The connection or the server fails: the statements left never run.      *)
fail(c) ==
    /\ ~At(c, "idle") /\ failures < MaxFailures
    /\ failures' = failures + 1
    /\ LET k == IF At(c, "write") THEN {} ELSE {req[c].comment}
       IN  torn' = torn \cup k /\ cut' = cut \cup k
    /\ Set(c, Idle)
    /\ UNCHANGED <<comments, mentions, timeline, notices, announced, requests>>
----
(* An action of the notification center is one UPDATE, hence one step.     *)
Update(rows) ==
    /\ requests < MaxRequests
    /\ requests' = requests + 1
    /\ notices' = rows
    /\ UNCHANGED <<comments, mentions, timeline, announced, torn, cut, req, failures>>

Manages(u) == can(Role[u], "notification.manage_own")
Own(u) == {n \in notices : n.user = u}
Read(some) == {[n EXCEPT !.read = TRUE] : n \in some}

markNotificationRead(u) ==
    \E n \in Own(u) :
        ~n.read /\ Update((notices \ {n}) \cup Read({n}))

markAllNotificationsRead(u) ==
    /\ \E n \in Own(u) : ~n.read
    /\ Update((notices \ Own(u)) \cup Read(Own(u)))

deleteNotification(u) ==
    \E n \in Own(u) : Update(notices \ {n})

NotificationCenter(u) ==
    /\ Manages(u)
    /\ markNotificationRead(u) \/ markAllNotificationsRead(u) \/ deleteNotification(u)

Step(c) ==
    \/ createDiscussion(c) \/ editDiscussion(c) \/ deleteDiscussion(c)
    \/ restoreDiscussion(c) \/ resolveDiscussion(c) \/ reopenDiscussion(c)
    \/ writeComment(c) \/ deleteMentions(c) \/ insertMention(c)
    \/ appendActivity(c) \/ notify(c) \/ fail(c)

Next == (\E c \in Clients : Step(c)) \/ (\E u \in Users : NotificationCenter(u))

Spec == Init /\ [][Next]_vars
----
(* The timeline has an entry of the type about the comment and none after  *)
(* it that undoes it.                                                      *)
Stands(k, type, undone) ==
    \E i \in DOMAIN timeline :
        /\ timeline[i] = [type |-> type, comment |-> k]
        /\ \A j \in DOMAIN timeline : j > i => timeline[j] # [type |-> undone, comment |-> k]

(* A comment whose requests never overlapped and all ran to their end has  *)
(* the mention rows of its text, and its row says what the timeline says   *)
(* last (discussion-service.ts:157, 211, 257, 288, 313, 349, 385).         *)
QuietCommentsAreConsistent ==
    \A k \in DOMAIN comments \ torn :
        (\A c \in InFlight : req[c].comment # k) =>
            /\ {m \in mentions : m[1] = k} = {k} \X comments[k].body
            /\ comments[k].resolved <=> Stands(k, "resolved", "reopened")
            /\ comments[k].deleted <=> Stands(k, "deleted", "restored")

(* Whoever a comment mentions, its writer excepted, has been notified of   *)
(* it, unless a request that wrote it is still running or was cut short:   *)
(* overlapping edits and deduplication lose no recipient                   *)
(* (discussion-notifications.ts:53, notification-repository.ts:75).        *)
MentionsAreAnnounced ==
    \A k \in DOMAIN comments \ cut : \A u \in comments[k].body \ {comments[k].editor} :
        \/ <<u, k>> \in announced
        \/ \E c \in InFlight : /\ req[c].comment = k /\ ~At(c, "write")
                               /\ req[c].actor = comments[k].editor
                               /\ req[c].body = comments[k].body

====
