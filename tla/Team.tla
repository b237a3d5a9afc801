---- MODULE Team ----
(***************************************************************************)
(* The members of one organization and the invitations that admit them.    *)
(* Every SQL statement of an invitation, a revocation, a removal or an     *)
(* acceptance is a step of its own: none of these requests opens a         *)
(* transaction.  A request reads the caller's membership once and acts on  *)
(* that role to its end.                                                   *)
(*                                                                         *)
(* Abstractions.  A user is known by an email address, compared without    *)
(* case or blanks; invitations are in the order they were inserted; the    *)
(* expiry of an invitation is an event, Expire, instead of a clock.        *)
(* Requests that are refused, and answers, change nothing and are left out. *)
(* Operators named Faulty... are not the code: see ProjectStore.           *)
(***************************************************************************)
EXTENDS Authorization, Naturals, Sequences, FiniteSets

CONSTANTS Clients,      \* server actions that may be in flight at once
          Users,
          Founder,      \* the administrator made by bootstrapAdministrator
          Verified,     \* users whose email address is verified
          Grants,       \* the roles that invitations name
          None,
          MaxRequests, MaxFailures    \* bounds of the model

Admin == "organization_admin"
Memberships == [id : Nat, role : OrgRoles]
Statuses == {"pending", "accepted", "canceled"}
Kinds == {"invite", "revoke", "remove", "accept"}
Invitations == [email : Users, role : Grants, status : Statuses, expired : BOOLEAN]

ASSUME TeamAssumption ==
    /\ IsFiniteSet(Users) /\ Founder \in Users /\ Verified \subseteq Users
    /\ Grants \subseteq OrgRoles
    /\ None \notin Users \cup OrgRoles \cup Memberships \cup Kinds
    /\ MaxRequests \in Nat /\ MaxFailures \in Nat

VARIABLES member,       \* table member: a row per user, or None
          invitation,   \* table invitation, in the order of insertion
          req,          \* per client, the server action it has in flight
          rows,         \* memberships ever inserted: the next row's id
          requests, failures

vars == <<member, invitation, req, rows, requests, failures>>

Requests ==
    [pc : {"idle", "cancel", "create", "membership", "count", "delete",
           "existing", "lookup", "update", "insert", "status"},
     kind : Kinds \cup {None},
     user : Users \cup {None},      \* the invited, removed or accepting user
     role : OrgRoles \cup {None},   \* the role that is granted
     invite : Nat,                  \* the invitation it is about, or 0
     row : Nat,                     \* id of the membership to update, or 0
     open : BOOLEAN,                \* ghost: its invitation was open when read
     disturbed : BOOLEAN]           \* ghost: others changed the members meanwhile

Idle == [pc |-> "idle", kind |-> None, user |-> None, role |-> None, invite |-> 0,
         row |-> 0, open |-> FALSE, disturbed |-> FALSE]

TypeOK ==
    /\ member \in [Users -> Memberships \cup {None}]
    /\ invitation \in Seq(Invitations)
    /\ req \in [Clients -> Requests]
    /\ \A c \in Clients : req[c].kind \in {"revoke", "accept"} =>
                              req[c].invite \in DOMAIN invitation
    /\ \A c \in Clients : req[c].kind \in {"invite", "remove", "accept"} =>
                              req[c].user \in Users
    /\ rows \in Nat
    /\ requests \in Nat /\ failures \in Nat

Init ==
    /\ member = [u \in Users |-> IF u = Founder THEN [id |-> 0, role |-> Admin] ELSE None]
    /\ invitation = <<>>
    /\ req = [c \in Clients |-> Idle]
    /\ rows = 1
    /\ requests = 0 /\ failures = 0
----
At(c, pc) == req[c].pc = pc
Set(c, r) == req' = [req EXCEPT ![c] = r]
Goto(c, pc) == Set(c, [req[c] EXCEPT !.pc = pc])
End(c) == Set(c, Idle)
Tables == <<member, invitation, rows>>

(* A step that changes the members: every other request may have read      *)
(* what it changes.                                                        *)
SetDisturbing(c, r) ==
    req' = [d \in Clients |-> IF d = c THEN r ELSE [req[d] EXCEPT !.disturbed = TRUE]]

RoleOf(u) == IF member[u] = None THEN None ELSE member[u].role
Admins == {u \in Users : RoleOf(u) = Admin}
IsOpen(i) == invitation[i].status = "pending" /\ ~invitation[i].expired

Start(c, r) ==
    /\ At(c, "idle") /\ requests < MaxRequests
    /\ requests' = requests + 1
    /\ Set(c, r)
    /\ UNCHANGED <<Tables, failures>>

canAssignRole(inviterRole, targetRole) ==
    inviterRole = Admin \/ targetRole # Admin

(* inviteMember, and resendInvitationAction, which is the same function.   *)
inviteMember(c) ==
    \E caller \in Users, email \in Users, role \in Grants :
        /\ can(RoleOf(caller), "org.invite") /\ canAssignRole(RoleOf(caller), role)
        /\ Start(c, [Idle EXCEPT !.pc = "cancel", !.kind = "invite", !.user = email,
                                 !.role = role])

cancelPendingInvitationsForEmail(c) ==
    /\ At(c, "cancel")
    /\ invitation' = [i \in DOMAIN invitation |->
                        IF invitation[i].email = req[c].user /\ invitation[i].status = "pending"
                        THEN [invitation[i] EXCEPT !.status = "canceled"]
                        ELSE invitation[i]]
    /\ Goto(c, "create")
    /\ UNCHANGED <<member, rows, requests, failures>>

createInvitation(c) ==
    /\ At(c, "create")
    /\ invitation' = Append(invitation, [email |-> req[c].user, role |-> req[c].role,
                                         status |-> "pending", expired |-> FALSE])
    /\ End(c)
    /\ UNCHANGED <<member, rows, requests, failures>>

(* revokeInvitation asks whether the invitation exists, not for its status. *)
revokeInvitation(c) ==
    \E caller \in Users, i \in DOMAIN invitation :
        /\ can(RoleOf(caller), "org.manage_members")
        /\ Start(c, [Idle EXCEPT !.pc = "status", !.kind = "revoke", !.invite = i])

removeMember(c) ==
    \E caller \in Users, u \in Users :
        /\ can(RoleOf(caller), "org.manage_members")
        /\ Start(c, [Idle EXCEPT !.pc = "membership", !.kind = "remove", !.user = u])

(* AdministratorsRemain: an administrator is removed without counting.     *)
FaultyNeedsCount(u) == FALSE

NeedsCount(u) == RoleOf(u) = Admin

getMembershipToRemove(c) ==
    /\ At(c, "membership")
    /\ \/ member[req[c].user] = None /\ End(c)
       \/ member[req[c].user] # None
          /\ Goto(c, IF NeedsCount(req[c].user) THEN "count" ELSE "delete")
    /\ UNCHANGED <<Tables, requests, failures>>

countAdmins(c) ==
    /\ At(c, "count")
    /\ \/ Cardinality(Admins) <= 1 /\ End(c)
       \/ Cardinality(Admins) > 1 /\ Goto(c, "delete")
    /\ UNCHANGED <<Tables, requests, failures>>

removeMembership(c) ==
    /\ At(c, "delete")
    /\ member' = [member EXCEPT ![req[c].user] = None]
    /\ SetDisturbing(c, Idle)
    /\ UNCHANGED <<invitation, rows, requests, failures>>

(* MembersWereInvited: the address of the invitation is not compared.      *)
FaultyMayAccept(u, i) == IsOpen(i) /\ u \in Verified

(* ClosedInvitationsAdmitNobody: the expiry is not looked at.              *)
FaultyMayAcceptExpired(u, i) ==
    invitation[i].status = "pending" /\ u \in Verified /\ u = invitation[i].email

(* The checks of acceptInvitation.  An invitation already accepted changes *)
(* nothing any more, whatever the answer.                                  *)
MayAccept(u, i) == IsOpen(i) /\ u \in Verified /\ u = invitation[i].email

acceptInvitation(c) ==
    \E u \in Users, i \in DOMAIN invitation :
        LET r == [Idle EXCEPT !.pc = "existing", !.kind = "accept", !.user = u, !.invite = i,
                              !.role = invitation[i].role, !.open = IsOpen(i)]
        IN  MayAccept(u, i) /\ Start(c, r)

getMembership(c) ==
    /\ At(c, "existing")
    /\ Goto(c, IF member[req[c].user] = None THEN "lookup" ELSE "status")
    /\ UNCHANGED <<Tables, requests, failures>>

(* upsertMembership looks for the row itself, then updates or inserts.     *)
lookupMembership(c) ==
    /\ At(c, "lookup")
    /\ LET row == member[req[c].user]
       IN  Set(c, IF row = None THEN [req[c] EXCEPT !.pc = "insert"]
                  ELSE [req[c] EXCEPT !.pc = "update", !.row = row.id])
    /\ UNCHANGED <<Tables, requests, failures>>

(* UPDATE ... WHERE id: nothing happens to a row that is gone.             *)
updateMembership(c) ==
    /\ At(c, "update")
    /\ LET u == req[c].user
           found == member[u] # None /\ member[u].id = req[c].row
       IN  \/ /\ found
              /\ member' = [member EXCEPT ![u].role = req[c].role]
              /\ SetDisturbing(c, [req[c] EXCEPT !.pc = "status"])
           \/ ~found /\ Goto(c, "status") /\ UNCHANGED member
    /\ UNCHANGED <<invitation, rows, requests, failures>>

(* The unique key on organization and user refuses a second row.           *)
insertMembership(c) ==
    /\ At(c, "insert")
    /\ LET u == req[c].user
       IN  \/ /\ member[u] = None
              /\ member' = [member EXCEPT ![u] = [id |-> rows, role |-> req[c].role]]
              /\ rows' = rows + 1
              /\ SetDisturbing(c, [req[c] EXCEPT !.pc = "status"])
           \/ member[u] # None /\ End(c) /\ UNCHANGED <<member, rows>>
    /\ UNCHANGED <<invitation, requests, failures>>

StatusSet(c) == IF req[c].kind = "revoke" THEN "canceled" ELSE "accepted"

(* By id alone, whatever the status is by now.                             *)
setInvitationStatus(c) ==
    /\ At(c, "status")
    /\ invitation' = [invitation EXCEPT ![req[c].invite].status = StatusSet(c)]
    /\ End(c)
    /\ UNCHANGED <<member, rows, requests, failures>>

(* The connection or the server fails: the statements left never run.      *)
fail(c) ==
    /\ ~At(c, "idle") /\ failures < MaxFailures
    /\ failures' = failures + 1
    /\ End(c)
    /\ UNCHANGED <<Tables, requests>>

(* The seven days of an invitation are over.                               *)
Expire ==
    \E i \in DOMAIN invitation :
        /\ ~invitation[i].expired
        /\ invitation' = [invitation EXCEPT ![i].expired = TRUE]
        /\ UNCHANGED <<member, req, rows, requests, failures>>

Step(c) ==
    \/ inviteMember(c) \/ cancelPendingInvitationsForEmail(c) \/ createInvitation(c)
    \/ revokeInvitation(c) \/ setInvitationStatus(c)
    \/ removeMember(c) \/ getMembershipToRemove(c) \/ countAdmins(c) \/ removeMembership(c)
    \/ acceptInvitation(c) \/ getMembership(c)
    \/ lookupMembership(c) \/ updateMembership(c) \/ insertMembership(c)
    \/ fail(c)

Next == Expire \/ \E c \in Clients : Step(c)

Spec == Init /\ [][Next]_vars
----
(* Whoever is a member got that role from an invitation to that address,   *)
(* except the founder (authorized-organizations.ts:188, 202).              *)
MembersWereInvited ==
    \A u \in Users : member[u] # None =>
        \/ u = Founder /\ member[u] = [id |-> 0, role |-> Admin]
        \/ \E i \in DOMAIN invitation :
              invitation[i].email = u /\ invitation[i].role = member[u].role

(* The last administrator disappears only by a request during which        *)
(* another one changed the members: removeMember alone refuses it, and an  *)
(* acceptance alone never touches an existing membership                   *)
(* (authorized-organizations.ts:113, 201).                                 *)
AdministratorsRemain ==
    [][Admins # {} /\ Admins' = {} =>
        \E c \in Clients : req[c].disturbed /\ req'[c] # req[c]]_vars

(* A new membership comes from an acceptance whose invitation was open,    *)
(* neither used, revoked, superseded nor expired, when the request read it *)
(* (authorized-organizations.ts:155, 171, 178).                            *)
ClosedInvitationsAdmitNobody ==
    [][\A u \in Users : member[u] = None /\ member'[u] # None =>
        \E c \in Clients : At(c, "insert") /\ req[c].user = u /\ req[c].open]_vars

====
