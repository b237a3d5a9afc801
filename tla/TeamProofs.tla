---- MODULE TeamProofs ----
(***************************************************************************)
(* Proofs about Team for every number of clients and users and every       *)
(* bound.  None of the properties is inductive: a request inserts a role   *)
(* that it copied from an invitation several statements earlier, and       *)
(* deletes a row it looked at before it counted the administrators.        *)
(* Good(r) says what a request may rely on at each of its statements; the  *)
(* ghost "disturbed" separates what is true whatever the others do from    *)
(* what is true only as long as nobody else changes the members.           *)
(***************************************************************************)
EXTENDS Team, FiniteSetTheorems, TLAPS

(* Which requests run which statements.                                    *)
RunsItsOwn(r) ==
    /\ r.pc \in {"cancel", "create"} => r.kind = "invite"
    /\ r.pc \in {"membership", "count", "delete"} => r.kind = "remove"
    /\ r.pc \in {"existing", "lookup", "update", "insert"} => r.kind = "accept"
    /\ r.pc = "status" => r.kind \in {"revoke", "accept"}

AnotherAdmin(u) == \E v \in Users \ {u} : RoleOf(v) = Admin

(* What stays true of a request as long as no other one changes the        *)
(* members.                                                                *)
Undisturbed(r) ==
    /\ r.pc \in {"lookup", "insert"} => member[r.user] = None
    /\ r.pc # "update"
    /\ r.pc = "delete" => (RoleOf(r.user) = Admin => AnotherAdmin(r.user))

(* What holds of a request in flight, whatever the others do.              *)
Good(r) ==
    /\ RunsItsOwn(r)
    /\ r.kind \in {"invite", "remove", "accept"} => r.user \in Users
    /\ r.kind \in {"revoke", "accept"} => r.invite \in DOMAIN invitation
    /\ r.kind \in {"invite", "accept"} => r.role \in Grants
    /\ r.kind = "accept" => /\ invitation[r.invite].email = r.user
                            /\ invitation[r.invite].role = r.role
                            /\ r.open
    /\ ~r.disturbed => Undisturbed(r)

TeamInv ==
    /\ TypeOK
    /\ MembersWereInvited
    /\ \A c \in Clients : Good(req[c])
----
(* What the invariant says of one request and of the tables.               *)
LEMMA TeamTypes ==
    ASSUME TeamInv, NEW c \in Clients
    PROVE  /\ req \in [Clients -> Requests] /\ req[c] \in Requests
           /\ Good(req[c])
           /\ member \in [Users -> Memberships \cup {None}]
           /\ invitation \in Seq(Invitations)
           /\ rows \in Nat /\ requests \in Nat /\ failures \in Nat
  BY DEF TeamInv, TypeOK

LEMMA IdleIsGood ==
    ASSUME TeamAssumption
    PROVE  Idle \in Requests /\ Good(Idle)
  BY DEF TeamAssumption, Idle, Requests, Kinds, Good, RunsItsOwn, Undisturbed

(* A step of one request that leaves the members alone and only adds       *)
(* invitations or changes their status and expiry.                         *)
LEMMA GrowStep ==
    ASSUME TeamInv, NEW c \in Clients, NEW r \in Requests, Good(r), Set(c, r),
           UNCHANGED <<member, rows>>, requests' \in Nat, failures' \in Nat,
           invitation' \in Seq(Invitations),
           \A i \in DOMAIN invitation :
               /\ i \in DOMAIN invitation'
               /\ invitation'[i].email = invitation[i].email
               /\ invitation'[i].role = invitation[i].role
    PROVE  TeamInv'
  <1>1. /\ req \in [Clients -> Requests]
        /\ member \in [Users -> Memberships \cup {None}] /\ rows \in Nat
        /\ \A d \in Clients : Good(req[d])
    BY DEF TeamInv, TypeOK
  <1>2. /\ req' \in [Clients -> Requests]
        /\ \A d \in Clients : Good(req'[d])
    BY <1>1 DEF Set
  <1>3. ASSUME NEW d \in Clients PROVE Good(req[d])'
    <2>1. UNCHANGED member /\ Good(req'[d])
      BY <1>2
    <2>2. Undisturbed(req'[d]) => Undisturbed(req[d])'
      BY <2>1 DEF Undisturbed, AnotherAdmin, RoleOf
    <2>3. QED BY <2>1, <2>2 DEF Good
  <1>4. TypeOK'
    BY <1>1, <1>2, <1>3 DEF TypeOK, Good
  <1>5. MembersWereInvited'
    BY DEF TeamInv, MembersWereInvited
  <1>6. QED BY <1>3, <1>4, <1>5 DEF TeamInv

(* A step of one request that changes no table.                            *)
LEMMA QuietStep ==
    ASSUME TeamInv, NEW c \in Clients, NEW r \in Requests, Good(r), Set(c, r),
           UNCHANGED Tables, requests' \in Nat, failures' \in Nat
    PROVE  TeamInv'
  <1>1. UNCHANGED <<member, rows>> /\ invitation' = invitation
    BY DEF Tables
  <1>2. invitation \in Seq(Invitations)
    BY DEF TeamInv, TypeOK
  <1>3. QED BY <1>1, <1>2, GrowStep

LEMMA EndStep ==
    ASSUME TeamInv, TeamAssumption, NEW c \in Clients, End(c),
           UNCHANGED Tables, requests' \in Nat, failures' \in Nat
    PROVE  TeamInv'
  BY IdleIsGood, QuietStep DEF End

(* A step of one request that writes the row of one member: all the others *)
(* are disturbed, and the writer itself looks at no member any more.       *)
LEMMA MemberStep ==
    ASSUME TeamInv, NEW c \in Clients, NEW r \in Requests, Good(r),
           r.pc \in {"idle", "status"}, SetDisturbing(c, r),
           NEW u \in Users, NEW m \in Memberships \cup {None},
           member' = [member EXCEPT ![u] = m],
           m # None => \E i \in DOMAIN invitation :
                          invitation[i].email = u /\ invitation[i].role = m.role,
           rows' \in Nat, UNCHANGED <<invitation, requests, failures>>
    PROVE  TeamInv'
  <1>1. /\ req \in [Clients -> Requests]
        /\ member \in [Users -> Memberships \cup {None}]
        /\ invitation \in Seq(Invitations) /\ requests \in Nat /\ failures \in Nat
        /\ \A d \in Clients : Good(req[d])
    BY DEF TeamInv, TypeOK
  <1>2. ASSUME NEW d \in Clients PROVE Good(req[d])' /\ req'[d] \in Requests
    <2>1. CASE d = c
      <3>1. req'[d] = r
        BY <2>1 DEF SetDisturbing
      <3>2. QED BY <3>1 DEF Good, Undisturbed
    <2>2. CASE d # c
      <3>1. req'[d] = [req[d] EXCEPT !.disturbed = TRUE] /\ req[d] \in Requests
        BY <1>1, <2>2 DEF SetDisturbing
      <3>2. /\ req'[d] \in Requests /\ req'[d].disturbed
            /\ \A f \in {"pc", "kind", "user", "role", "invite", "open"} :
                  req'[d][f] = req[d][f]
        BY <3>1 DEF Requests
      <3>3. Good(req[d])
        BY <1>1
      <3>4. QED BY <3>2, <3>3 DEF Good, RunsItsOwn
    <2>3. QED BY <2>1, <2>2
  <1>3. req' \in [Clients -> Requests]
    BY <1>2 DEF SetDisturbing
  <1>4. TypeOK'
    BY <1>1, <1>2, <1>3 DEF TypeOK, Good
  <1>5. MembersWereInvited'
    BY <1>1 DEF TeamInv, MembersWereInvited
  <1>6. QED BY <1>2, <1>4, <1>5 DEF TeamInv
----
(* One lemma per statement of the service.                                 *)

LEMMA StartStep ==
    ASSUME TeamInv, TeamAssumption, NEW c \in Clients, NEW r \in Requests, Good(r),
           Start(c, r)
    PROVE  TeamInv'
  <1>1. requests' \in Nat /\ failures' \in Nat /\ UNCHANGED Tables /\ Set(c, r)
    BY TeamTypes DEF Start
  <1>2. QED BY <1>1, QuietStep

LEMMA InviteStep ==
    ASSUME TeamInv, TeamAssumption, NEW c \in Clients, inviteMember(c)
    PROVE  TeamInv'
  <1>1. PICK email \in Users, role \in Grants :
          Start(c, [Idle EXCEPT !.pc = "cancel", !.kind = "invite", !.user = email,
                                !.role = role])
    BY DEF inviteMember
  <1> DEFINE r == [Idle EXCEPT !.pc = "cancel", !.kind = "invite", !.user = email,
                               !.role = role]
  <1>2. r \in Requests
    BY DEF TeamAssumption, Idle, Requests, Kinds
  <1>3. Good(r)
    BY DEF Idle, Good, RunsItsOwn, Undisturbed
  <1>4. QED BY <1>1, <1>2, <1>3, StartStep

LEMMA RevokeStep ==
    ASSUME TeamInv, TeamAssumption, NEW c \in Clients, revokeInvitation(c)
    PROVE  TeamInv'
  <1>1. PICK i \in DOMAIN invitation :
          Start(c, [Idle EXCEPT !.pc = "status", !.kind = "revoke", !.invite = i])
    BY DEF revokeInvitation
  <1> DEFINE r == [Idle EXCEPT !.pc = "status", !.kind = "revoke", !.invite = i]
  <1>2. i \in Nat
    BY TeamTypes
  <1>3. r \in Requests
    BY <1>2 DEF Idle, Requests, Kinds
  <1>4. Good(r)
    BY DEF Idle, Good, RunsItsOwn, Undisturbed
  <1>5. QED BY <1>1, <1>3, <1>4, StartStep

LEMMA RemoveStep ==
    ASSUME TeamInv, TeamAssumption, NEW c \in Clients, removeMember(c)
    PROVE  TeamInv'
  <1>1. PICK u \in Users :
          Start(c, [Idle EXCEPT !.pc = "membership", !.kind = "remove", !.user = u])
    BY DEF removeMember
  <1> DEFINE r == [Idle EXCEPT !.pc = "membership", !.kind = "remove", !.user = u]
  <1>2. r \in Requests
    BY DEF Idle, Requests, Kinds
  <1>3. Good(r)
    BY DEF Idle, Good, RunsItsOwn, Undisturbed
  <1>4. QED BY <1>1, <1>2, <1>3, StartStep

LEMMA AcceptStep ==
    ASSUME TeamInv, TeamAssumption, NEW c \in Clients, acceptInvitation(c)
    PROVE  TeamInv'
  <1>1. PICK u \in Users, i \in DOMAIN invitation :
          /\ MayAccept(u, i)
          /\ Start(c, [Idle EXCEPT !.pc = "existing", !.kind = "accept", !.user = u,
                                   !.invite = i, !.role = invitation[i].role,
                                   !.open = IsOpen(i)])
    BY DEF acceptInvitation
  <1>2. /\ invitation[i] \in Invitations /\ i \in Nat
        /\ IsOpen(i) /\ invitation[i].email = u
    BY <1>1, TeamTypes DEF MayAccept
  <1> DEFINE r == [Idle EXCEPT !.pc = "existing", !.kind = "accept", !.user = u,
                               !.invite = i, !.role = invitation[i].role,
                               !.open = TRUE]
  <1>3. IsOpen(i) = TRUE
    BY <1>2 DEF IsOpen
  <1>4. Start(c, r)
    BY <1>1, <1>3
  <1>5. r \in Requests
    BY <1>2 DEF TeamAssumption, Idle, Requests, Kinds, Invitations
  <1>6. Good(r)
    BY <1>2 DEF Idle, Good, RunsItsOwn, Undisturbed, Invitations
  <1>7. QED BY <1>4, <1>5, <1>6, StartStep

(* Every statement that only moves the request on to its next one.         *)
LEMMA GotoStep ==
    ASSUME TeamInv, NEW c \in Clients,
           NEW pc \in {"create", "count", "delete", "lookup", "status", "insert"},
           LET r == [req[c] EXCEPT !.pc = pc]
           IN  RunsItsOwn(r) /\ (~req[c].disturbed => Undisturbed(r)),
           Goto(c, pc)
    PROVE  /\ [req[c] EXCEPT !.pc = pc] \in Requests
           /\ Good([req[c] EXCEPT !.pc = pc])
           /\ Set(c, [req[c] EXCEPT !.pc = pc])
  <1> DEFINE r == [req[c] EXCEPT !.pc = pc]
  <1>1. req[c] \in Requests /\ Good(req[c])
    BY TeamTypes
  <1>2. /\ r \in Requests
        /\ \A f \in {"kind", "user", "role", "invite", "open", "disturbed"} :
              r[f] = req[c][f]
    BY <1>1 DEF Requests
  <1>3. Good(r)
    BY <1>1, <1>2 DEF Good
  <1>4. QED BY <1>2, <1>3 DEF Goto

LEMMA MoveStep ==
    ASSUME TeamInv, NEW c \in Clients,
           NEW pc \in {"create", "count", "delete", "lookup", "status", "insert"},
           RunsItsOwn([req[c] EXCEPT !.pc = pc]),
           ~req[c].disturbed => Undisturbed([req[c] EXCEPT !.pc = pc]),
           Goto(c, pc), UNCHANGED Tables, requests' \in Nat, failures' \in Nat
    PROVE  TeamInv'
  BY GotoStep, QuietStep

LEMMA CancelStep ==
    ASSUME TeamInv, TeamAssumption, NEW c \in Clients,
           cancelPendingInvitationsForEmail(c)
    PROVE  TeamInv'
  <1> DEFINE r == [req[c] EXCEPT !.pc = "create"]
  <1>1. req[c] \in Requests /\ Good(req[c]) /\ req[c].pc = "cancel"
    BY TeamTypes DEF cancelPendingInvitationsForEmail, At
  <1>2. r \in Requests /\ Good(r) /\ Set(c, r)
    <2>1. RunsItsOwn(r) /\ Undisturbed(r)
      BY <1>1 DEF Requests, Good, RunsItsOwn, Undisturbed
    <2>2. Goto(c, "create")
      BY DEF cancelPendingInvitationsForEmail
    <2>3. QED BY <2>1, <2>2, GotoStep
  <1>3. invitation \in Seq(Invitations)
    BY TeamTypes
  <1>4. /\ invitation' \in Seq(Invitations)
        /\ DOMAIN invitation' = DOMAIN invitation
        /\ \A i \in DOMAIN invitation :
              /\ invitation'[i].email = invitation[i].email
              /\ invitation'[i].role = invitation[i].role
    <2> DEFINE canceled(i) ==
                 IF invitation[i].email = req[c].user /\ invitation[i].status = "pending"
                 THEN [invitation[i] EXCEPT !.status = "canceled"]
                 ELSE invitation[i]
    <2>1. \A i \in DOMAIN invitation :
            /\ canceled(i) \in Invitations
            /\ canceled(i).email = invitation[i].email
            /\ canceled(i).role = invitation[i].role
      <3>1. \A i \in DOMAIN invitation : invitation[i] \in Invitations
        BY <1>3
      <3>2. QED BY <3>1 DEF Invitations, Statuses
    <2>2. invitation' = [i \in DOMAIN invitation |-> canceled(i)]
      BY DEF cancelPendingInvitationsForEmail
    <2> HIDE DEF canceled
    <2>3. DOMAIN invitation = 1..Len(invitation) /\ Len(invitation) \in Nat
      BY <1>3
    <2>4. invitation' \in [1..Len(invitation) -> Invitations]
      BY <2>1, <2>2, <2>3
    <2>5. QED BY <2>1, <2>2, <2>3, <2>4
  <1>5. /\ UNCHANGED <<member, rows>> /\ requests' \in Nat /\ failures' \in Nat
    BY TeamTypes DEF cancelPendingInvitationsForEmail
  <1>6. QED BY <1>2, <1>4, <1>5, GrowStep

LEMMA CreateStep ==
    ASSUME TeamInv, TeamAssumption, NEW c \in Clients, createInvitation(c)
    PROVE  TeamInv'
  <1> DEFINE i == [email |-> req[c].user, role |-> req[c].role,
                   status |-> "pending", expired |-> FALSE]
  <1>1. i \in Invitations
    BY TeamTypes DEF createInvitation, At, Good, RunsItsOwn, Invitations, Statuses
  <1>2. /\ invitation \in Seq(Invitations)
        /\ invitation' = Append(invitation, i)
    BY TeamTypes DEF createInvitation
  <1> HIDE DEF i
  <1>3. /\ invitation' \in Seq(Invitations)
        /\ \A k \in DOMAIN invitation : k \in DOMAIN invitation'
                                        /\ invitation'[k] = invitation[k]
    BY <1>1, <1>2
  <1>4. /\ UNCHANGED <<member, rows>> /\ requests' \in Nat /\ failures' \in Nat
        /\ End(c)
    BY TeamTypes DEF createInvitation
  <1>5. QED BY <1>3, <1>4, IdleIsGood, GrowStep DEF End

(* Only an administrator is counted for, so one that is not counted is     *)
(* none.                                                                   *)
LEMMA RemovalReadStep ==
    ASSUME TeamInv, TeamAssumption, NEW c \in Clients, getMembershipToRemove(c)
    PROVE  TeamInv'
  <1>1. /\ UNCHANGED Tables /\ requests' \in Nat /\ failures' \in Nat
        /\ req[c] \in Requests /\ Good(req[c]) /\ req[c].pc = "membership"
    BY TeamTypes DEF getMembershipToRemove, At
  <1>2. CASE End(c)
    BY <1>1, <1>2, EndStep
  <1>3. CASE NeedsCount(req[c].user) /\ Goto(c, "count")
    <2>1. /\ RunsItsOwn([req[c] EXCEPT !.pc = "count"])
          /\ ~req[c].disturbed => Undisturbed([req[c] EXCEPT !.pc = "count"])
      BY <1>1, <1>3
         DEF Requests, Good, RunsItsOwn, Undisturbed
    <2>2. QED BY <1>1, <1>3, <2>1, MoveStep
  <1>4. CASE ~NeedsCount(req[c].user) /\ Goto(c, "delete")
    <2>1. /\ RunsItsOwn([req[c] EXCEPT !.pc = "delete"])
          /\ ~req[c].disturbed => Undisturbed([req[c] EXCEPT !.pc = "delete"])
      BY <1>1, <1>4
         DEF Requests, Good, RunsItsOwn, Undisturbed, NeedsCount
    <2>2. QED BY <1>1, <1>4, <2>1, MoveStep
  <1>5. QED BY <1>2, <1>3, <1>4 DEF getMembershipToRemove

(* More than one administrator: there is one besides any given user.       *)
LEMMA MoreThanOne ==
    ASSUME TeamAssumption, NEW u, Cardinality(Admins) > 1
    PROVE  AnotherAdmin(u)
  <1>1. IsFiniteSet(Admins)
    BY FS_Subset DEF TeamAssumption, Admins
  <1>2. SUFFICES ASSUME ~AnotherAdmin(u) PROVE FALSE
    OBVIOUS
  <1>3. Admins \in SUBSET {u}
    BY <1>2 DEF AnotherAdmin, Admins
  <1>4. Cardinality(Admins) <= 1
    <2>1. IsFiniteSet({u}) /\ Cardinality({u}) = 1
      BY FS_Singleton
    <2>2. Cardinality(Admins) <= Cardinality({u})
      BY <1>3, <2>1, FS_Subset
    <2>3. QED BY <2>1, <2>2
  <1>5. Cardinality(Admins) \in Nat
    BY <1>1, FS_CardinalityType
  <1>6. QED BY <1>4, <1>5

LEMMA CountStep ==
    ASSUME TeamInv, TeamAssumption, NEW c \in Clients, countAdmins(c)
    PROVE  TeamInv'
  <1>1. /\ UNCHANGED Tables /\ requests' \in Nat /\ failures' \in Nat
        /\ req[c] \in Requests /\ Good(req[c]) /\ req[c].pc = "count"
    BY TeamTypes DEF countAdmins, At
  <1>2. CASE End(c)
    BY <1>1, <1>2, EndStep
  <1>3. CASE Cardinality(Admins) > 1 /\ Goto(c, "delete")
    <2>1. AnotherAdmin(req[c].user)
      BY <1>3, MoreThanOne
    <2>2. /\ RunsItsOwn([req[c] EXCEPT !.pc = "delete"])
          /\ ~req[c].disturbed => Undisturbed([req[c] EXCEPT !.pc = "delete"])
      BY <1>1, <1>3, <2>1
         DEF Requests, Good, RunsItsOwn, Undisturbed
    <2>3. QED BY <1>1, <1>3, <2>2, MoveStep
  <1>4. QED BY <1>2, <1>3 DEF countAdmins

LEMMA DeleteStep ==
    ASSUME TeamInv, TeamAssumption, NEW c \in Clients, removeMembership(c)
    PROVE  TeamInv'
  <1>1. /\ req[c].user \in Users /\ rows' \in Nat
        /\ UNCHANGED <<invitation, requests, failures>>
        /\ member' = [member EXCEPT ![req[c].user] = None]
        /\ SetDisturbing(c, Idle)
    BY TeamTypes DEF removeMembership, At, Good, RunsItsOwn
  <1>2. Idle \in Requests /\ Good(Idle) /\ Idle.pc = "idle"
    BY IdleIsGood DEF Idle
  <1>3. QED BY <1>1, <1>2, MemberStep

LEMMA ExistingStep ==
    ASSUME TeamInv, TeamAssumption, NEW c \in Clients, getMembership(c)
    PROVE  TeamInv'
  <1>1. /\ UNCHANGED Tables /\ requests' \in Nat /\ failures' \in Nat
        /\ req[c] \in Requests /\ Good(req[c]) /\ req[c].pc = "existing"
    BY TeamTypes DEF getMembership, At
  <1>2. CASE member[req[c].user] = None /\ Goto(c, "lookup")
    <2>1. /\ RunsItsOwn([req[c] EXCEPT !.pc = "lookup"])
          /\ ~req[c].disturbed => Undisturbed([req[c] EXCEPT !.pc = "lookup"])
      BY <1>1, <1>2
         DEF Requests, Good, RunsItsOwn, Undisturbed
    <2>2. QED BY <1>1, <1>2, <2>1, MoveStep
  <1>3. CASE Goto(c, "status")
    <2>1. /\ RunsItsOwn([req[c] EXCEPT !.pc = "status"])
          /\ ~req[c].disturbed => Undisturbed([req[c] EXCEPT !.pc = "status"])
      BY <1>1, <1>3
         DEF Requests, Good, RunsItsOwn, Undisturbed
    <2>2. QED BY <1>1, <1>3, <2>1, MoveStep
  <1>4. QED BY <1>2, <1>3 DEF getMembership

LEMMA LookupStep ==
    ASSUME TeamInv, TeamAssumption, NEW c \in Clients, lookupMembership(c)
    PROVE  TeamInv'
  <1>1. /\ UNCHANGED Tables /\ requests' \in Nat /\ failures' \in Nat
        /\ req[c] \in Requests /\ Good(req[c]) /\ req[c].pc = "lookup"
    BY TeamTypes DEF lookupMembership, At
  <1>2. CASE member[req[c].user] = None
    <2>1. Goto(c, "insert")
      BY <1>2 DEF lookupMembership, Goto
    <2>2. /\ RunsItsOwn([req[c] EXCEPT !.pc = "insert"])
          /\ ~req[c].disturbed => Undisturbed([req[c] EXCEPT !.pc = "insert"])
      BY <1>1, <1>2
         DEF Requests, Good, RunsItsOwn, Undisturbed
    <2>3. QED BY <1>1, <1>2, <2>1, <2>2, MoveStep
  <1>3. CASE member[req[c].user] # None
    <2> DEFINE r == [req[c] EXCEPT !.pc = "update", !.row = member[req[c].user].id]
    <2>1. member[req[c].user].id \in Nat
      BY <1>1, <1>3, TeamTypes DEF Good, RunsItsOwn, Memberships
    <2>2. /\ r \in Requests /\ r.pc = "update"
          /\ \A f \in {"kind", "user", "role", "invite", "open", "disturbed"} :
                r[f] = req[c][f]
      BY <1>1, <2>1 DEF Requests
    <2>3. req[c].disturbed
      BY <1>1, <1>3 DEF Good, Undisturbed
    <2>4. Good(r)
      BY <1>1, <2>2, <2>3 DEF Good, RunsItsOwn
    <2>5. Set(c, r)
      BY <1>3 DEF lookupMembership
    <2>6. QED BY <1>1, <2>2, <2>4, <2>5, QuietStep
  <1>4. QED BY <1>2, <1>3

(* The invitation that a request carries admits the member it writes.      *)
LEMMA CarriedInvitation ==
    ASSUME TeamInv, TeamAssumption, NEW c \in Clients,
           req[c].pc \in {"update", "insert"}
    PROVE  LET r == [req[c] EXCEPT !.pc = "status"]
           IN  /\ req[c] \in Requests /\ req[c].user \in Users /\ req[c].role \in OrgRoles
               /\ req[c].invite \in DOMAIN invitation
               /\ invitation[req[c].invite].email = req[c].user
               /\ invitation[req[c].invite].role = req[c].role
               /\ req[c].open
               /\ r \in Requests /\ Good(r) /\ r.pc = "status"
  <1> DEFINE r == [req[c] EXCEPT !.pc = "status"]
  <1>1. req[c] \in Requests /\ Good(req[c]) /\ req[c].kind = "accept"
    BY TeamTypes DEF Good, RunsItsOwn
  <1>2. /\ r \in Requests /\ r.pc = "status"
        /\ \A f \in {"kind", "user", "role", "invite", "open", "disturbed"} :
              r[f] = req[c][f]
    BY <1>1 DEF Requests
  <1>3. Good(r)
    BY <1>1, <1>2 DEF Good, RunsItsOwn, Undisturbed
  <1>4. QED BY <1>1, <1>2, <1>3 DEF Good, TeamAssumption

LEMMA UpdateStep ==
    ASSUME TeamInv, TeamAssumption, NEW c \in Clients, updateMembership(c)
    PROVE  TeamInv'
  <1> DEFINE u == req[c].user
             r == [req[c] EXCEPT !.pc = "status"]
             m == [member[u] EXCEPT !.role = req[c].role]
  <1>1. req[c].pc = "update" /\ UNCHANGED <<invitation, rows, requests, failures>>
    BY DEF updateMembership, At
  <1>2. CASE member[u] # None /\ member' = [member EXCEPT ![u].role = req[c].role]
             /\ SetDisturbing(c, r)
    <2>1. u \in Users /\ req[c].role \in OrgRoles
      BY <1>1, CarriedInvitation
    <2>2. member[u] \in Memberships
      BY <1>2, <2>1, TeamTypes
    <2>3. m \in Memberships /\ m.role = req[c].role
      BY <2>1, <2>2 DEF Memberships
    <2>4. member' = [member EXCEPT ![u] = m]
      BY <1>2
    <2>5. rows' \in Nat
      BY <1>1, TeamTypes
    <2>6. /\ r \in Requests /\ Good(r) /\ r.pc = "status"
          /\ \E i \in DOMAIN invitation :
                invitation[i].email = u /\ invitation[i].role = m.role
      BY <1>1, <2>3, CarriedInvitation
    <2> HIDE DEF m, r, u
    <2>7. QED BY <1>1, <1>2, <2>1, <2>3, <2>4, <2>5, <2>6, MemberStep
  <1>3. CASE Goto(c, "status") /\ UNCHANGED member
    BY <1>1, <1>3, CarriedInvitation, TeamTypes, QuietStep DEF Goto, Tables
  <1>4. QED BY <1>2, <1>3 DEF updateMembership

LEMMA InsertStep ==
    ASSUME TeamInv, TeamAssumption, NEW c \in Clients, insertMembership(c)
    PROVE  TeamInv'
  <1> DEFINE u == req[c].user
             r == [req[c] EXCEPT !.pc = "status"]
             m == [id |-> rows, role |-> req[c].role]
  <1>1. req[c].pc = "insert" /\ UNCHANGED <<invitation, requests, failures>>
    BY DEF insertMembership, At
  <1>2. CASE member' = [member EXCEPT ![u] = m] /\ rows' = rows + 1
             /\ SetDisturbing(c, r)
    <2>1. u \in Users /\ req[c].role \in OrgRoles
      BY <1>1, CarriedInvitation
    <2>2. m \in Memberships /\ m.role = req[c].role /\ rows' \in Nat
      BY <1>2, <2>1, TeamTypes DEF Memberships
    <2>3. QED BY <1>1, <1>2, <2>1, <2>2, CarriedInvitation, MemberStep
  <1>3. CASE End(c) /\ UNCHANGED <<member, rows>>
    BY <1>1, <1>3, TeamTypes, EndStep DEF Tables
  <1>4. QED BY <1>2, <1>3 DEF insertMembership

LEMMA StatusStep ==
    ASSUME TeamInv, TeamAssumption, NEW c \in Clients, setInvitationStatus(c)
    PROVE  TeamInv'
  <1> DEFINE i == req[c].invite
             n == [invitation[i] EXCEPT !.status = StatusSet(c)]
  <1>1. i \in DOMAIN invitation /\ invitation \in Seq(Invitations)
    BY TeamTypes DEF setInvitationStatus, At, Good, RunsItsOwn
  <1>2. /\ n \in Invitations
        /\ n.email = invitation[i].email /\ n.role = invitation[i].role
    <2>1. invitation[i] \in Invitations /\ StatusSet(c) \in Statuses
      BY <1>1 DEF StatusSet, Statuses
    <2>2. QED BY <2>1 DEF Invitations
  <1>3. invitation' = [invitation EXCEPT ![i] = n]
    BY DEF setInvitationStatus
  <1> HIDE DEF n
  <1>4. /\ invitation' \in Seq(Invitations)
        /\ \A k \in DOMAIN invitation :
              /\ k \in DOMAIN invitation'
              /\ invitation'[k].email = invitation[k].email
              /\ invitation'[k].role = invitation[k].role
    BY <1>1, <1>2, <1>3
  <1>5. /\ UNCHANGED <<member, rows>> /\ requests' \in Nat /\ failures' \in Nat
        /\ End(c)
    BY TeamTypes DEF setInvitationStatus
  <1>6. QED BY <1>4, <1>5, IdleIsGood, GrowStep DEF End

LEMMA FailStep ==
    ASSUME TeamInv, TeamAssumption, NEW c \in Clients, fail(c)
    PROVE  TeamInv'
  BY TeamTypes, EndStep DEF fail
----
(* The invariant, and the properties that rest on it.                      *)

LEMMA InvInit ==
    ASSUME TeamAssumption, Init
    PROVE  TeamInv
  <1>1. \A u \in Users : member[u] # None =>
            u = Founder /\ member[u] = [id |-> 0, role |-> Admin]
    BY DEF Init
  <1>2. member \in [Users -> Memberships \cup {None}]
    BY DEF Init, Memberships, Admin, OrgRoles
  <1>3. \A c \in Clients : req[c] = Idle
    BY DEF Init
  <1>4. TypeOK
    BY <1>2, <1>3, IdleIsGood DEF Init, TypeOK, Good
  <1>5. MembersWereInvited
    BY <1>1 DEF MembersWereInvited
  <1>6. QED BY <1>3, <1>4, <1>5, IdleIsGood DEF TeamInv

LEMMA InvNext ==
    ASSUME TeamAssumption, TeamInv, [Next]_vars
    PROVE  TeamInv'
  <1>1. ASSUME NEW c \in Clients, Step(c) PROVE TeamInv'
    BY <1>1, InviteStep, CancelStep, CreateStep, RevokeStep, StatusStep, RemoveStep,
       RemovalReadStep, CountStep, DeleteStep, AcceptStep, ExistingStep, LookupStep,
       UpdateStep, InsertStep, FailStep
       DEF Step
  <1>2. CASE Expire
    <2>1. PICK i \in DOMAIN invitation :
            /\ invitation' = [invitation EXCEPT ![i].expired = TRUE]
            /\ UNCHANGED <<member, req, rows, requests, failures>>
      BY <1>2 DEF Expire
    <2> DEFINE n == [invitation[i] EXCEPT !.expired = TRUE]
    <2>2. invitation \in Seq(Invitations) /\ invitation[i] \in Invitations
      BY DEF TeamInv, TypeOK
    <2>3. n \in Invitations /\ n.email = invitation[i].email
                            /\ n.role = invitation[i].role
      BY <2>2 DEF Invitations
    <2>4. invitation' = [invitation EXCEPT ![i] = n]
      BY <2>1
    <2> HIDE DEF n
    <2>5. /\ invitation' \in Seq(Invitations)
          /\ DOMAIN invitation' = DOMAIN invitation
          /\ \A k \in DOMAIN invitation :
                /\ invitation'[k].email = invitation[k].email
                /\ invitation'[k].role = invitation[k].role
      BY <2>2, <2>3, <2>4
    <2>6. TypeOK'
      BY <2>1, <2>5 DEF TeamInv, TypeOK
    <2>7. MembersWereInvited'
      BY <2>1, <2>5 DEF TeamInv, MembersWereInvited
    <2>8. ASSUME NEW c \in Clients PROVE Good(req[c])'
      <3>1. Good(req[c]) /\ req' = req /\ member' = member
        BY <2>1 DEF TeamInv
      <3>2. QED
        BY <2>5, <3>1 DEF Good, RunsItsOwn, Undisturbed, AnotherAdmin, RoleOf
    <2>9. QED BY <2>6, <2>7, <2>8 DEF TeamInv
  <1>3. CASE UNCHANGED vars
    <2>1. TypeOK' /\ MembersWereInvited'
      BY <1>3 DEF TeamInv, TypeOK, MembersWereInvited, vars
    <2>2. \A c \in Clients : Good(req[c])'
      BY <1>3 DEF TeamInv, Good, RunsItsOwn, Undisturbed, AnotherAdmin, RoleOf, vars
    <2>3. QED BY <2>1, <2>2 DEF TeamInv
  <1>4. QED BY <1>1, <1>2, <1>3 DEF Next

LEMMA TeamInvariant == Spec => []TeamInv
  BY InvInit, InvNext, TeamAssumption, PTL DEF Spec

(* The tables and the requests keep their types: a request that accepts or *)
(* revokes always names an invitation that exists.                         *)
THEOREM TypeCorrect == Spec => []TypeOK
  <1>1. TeamInv => TypeOK
    BY DEF TeamInv
  <1>2. QED BY <1>1, TeamInvariant, PTL

(* Nobody but the founder is a member without an invitation to their       *)
(* address with that very role (authorized-organizations.ts:188, 202).     *)
THEOREM MembersAreInvited == Spec => []MembersWereInvited
  <1>1. TeamInv => MembersWereInvited
    BY DEF TeamInv
  <1>2. QED BY <1>1, TeamInvariant, PTL

(* The only statements that write the table of members.                    *)
LEMMA MemberWriters ==
    ASSUME [Next]_vars, member' # member
    PROVE  \E c \in Clients :
              removeMembership(c) \/ updateMembership(c) \/ insertMembership(c)
  <1>1. PICK c \in Clients : Step(c)
    BY DEF Next, Expire, vars
  <1>2. QED
    BY <1>1
       DEF Step, inviteMember, cancelPendingInvitationsForEmail, createInvitation,
           revokeInvitation, setInvitationStatus, removeMember,
           getMembershipToRemove, countAdmins, acceptInvitation, getMembership,
           lookupMembership, fail, Start, Tables

(* A new membership comes from an acceptance that found its invitation     *)
(* open (authorized-organizations.ts:155, 171, 178).                       *)
THEOREM OnlyOpenInvitationsAdmit == Spec => ClosedInvitationsAdmitNobody
  <1> DEFINE Admits(u) == member[u] = None /\ member'[u] # None
             Answered(u) == \E c \in Clients :
                              At(c, "insert") /\ req[c].user = u /\ req[c].open
  <1>1. ASSUME TeamInv, [Next]_vars, NEW u \in Users, Admits(u)
        PROVE  Answered(u)
    <2>1. member' # member /\ member \in [Users -> Memberships \cup {None}]
      BY <1>1 DEF TeamInv, TypeOK
    <2>3. PICK c \in Clients :
            removeMembership(c) \/ updateMembership(c) \/ insertMembership(c)
      BY <1>1, <2>1, MemberWriters
    <2>4. CASE removeMembership(c)
      BY <1>1, <2>1, <2>4 DEF removeMembership
    <2>5. CASE updateMembership(c)
      <3>1. \/ UNCHANGED member
            \/ /\ member[req[c].user] # None
               /\ member' = [member EXCEPT ![req[c].user].role = req[c].role]
        BY <2>5 DEF updateMembership
      <3>2. QED BY <1>1, <2>1, <3>1
    <2>6. CASE insertMembership(c)
      <3>1. member' = [member EXCEPT ![req[c].user] =
                                       [id |-> rows, role |-> req[c].role]]
            /\ At(c, "insert")
        BY <2>1, <2>6 DEF insertMembership
      <3>2. req[c].user = u
        BY <1>1, <2>1, <3>1
      <3>3. req[c].open
        BY <1>1, <3>1, CarriedInvitation, TeamAssumption DEF At
      <3>4. QED BY <3>1, <3>2, <3>3
    <2>7. QED BY <2>3, <2>4, <2>5, <2>6
  <1>2. TeamInv /\ [Next]_vars => [\A u \in Users : Admits(u) => Answered(u)]_vars
    BY <1>1
  <1>3. QED
    BY <1>2, TeamInvariant, PTL DEF Spec, ClosedInvitationsAdmitNobody

(* An undisturbed removal leaves an administrator, and an undisturbed      *)
(* acceptance changes no existing membership: the organization loses its   *)
(* last administrator only in a race (authorized-organizations.ts:113,     *)
(* 201).                                                                   *)
THEOREM LastAdministratorFallsInARace == Spec => AdministratorsRemain
  <1> DEFINE Orphaned == Admins # {} /\ Admins' = {}
             Raced == \E c \in Clients : req[c].disturbed /\ req'[c] # req[c]
  <1>1. ASSUME TeamInv, [Next]_vars, Orphaned
        PROVE  Raced
    <2>1. member' # member /\ member \in [Users -> Memberships \cup {None}]
      BY <1>1 DEF Admins, RoleOf, TeamInv, TypeOK
    <2>2. PICK c \in Clients :
            removeMembership(c) \/ updateMembership(c) \/ insertMembership(c)
      BY <1>1, <2>1, MemberWriters
    <2>3. /\ req \in [Clients -> Requests] /\ req[c] \in Requests /\ Good(req[c])
      BY <1>1, TeamTypes
    <2>4. PICK a \in Users : RoleOf(a) = Admin
      BY <1>1 DEF Admins
    <2>5. \A v \in Users : RoleOf(v)' # Admin
      BY <1>1 DEF Admins
    <2>6. CASE removeMembership(c)
      <3>1. /\ At(c, "delete") /\ member' = [member EXCEPT ![req[c].user] = None]
            /\ req'[c] = Idle
        BY <2>6 DEF removeMembership, SetDisturbing
      <3>2. \A v \in Users \ {req[c].user} : RoleOf(v)' = RoleOf(v)
        BY <2>1, <3>1 DEF RoleOf
      <3>3. RoleOf(req[c].user) = Admin /\ ~AnotherAdmin(req[c].user)
        BY <2>4, <2>5, <3>2 DEF AnotherAdmin
      <3>4. req[c].disturbed
        BY <2>3, <3>1, <3>3 DEF Good, Undisturbed, At
      <3>5. req'[c] # req[c]
        BY <3>1 DEF At, Idle
      <3>6. QED BY <3>4, <3>5
    <2>7. CASE updateMembership(c)
      <3>1. At(c, "update")
        BY <2>7 DEF updateMembership
      <3>2. req[c].disturbed
        BY <2>3, <3>1 DEF At, Good, Undisturbed
      <3>3. req'[c] = [req[c] EXCEPT !.pc = "status"]
        BY <2>1, <2>3, <2>7 DEF updateMembership, SetDisturbing
      <3>4. req'[c] # req[c]
        BY <2>3, <3>1, <3>3 DEF At, Requests
      <3>5. QED BY <3>2, <3>4
    <2>8. CASE insertMembership(c)
      <3>1. /\ member[req[c].user] = None
            /\ member' = [member EXCEPT ![req[c].user] =
                                          [id |-> rows, role |-> req[c].role]]
        BY <2>1, <2>8 DEF insertMembership
      <3>2. RoleOf(req[c].user) = None /\ None # Admin
        BY <3>1, TeamAssumption DEF RoleOf, Admin, OrgRoles, TeamAssumption
      <3>3. a # req[c].user
        BY <2>4, <3>2
      <3>4. RoleOf(a)' = Admin
        BY <2>1, <2>4, <3>1, <3>3 DEF RoleOf
      <3>5. QED BY <2>5, <3>4
    <2>9. QED BY <2>2, <2>6, <2>7, <2>8
  <1>2. TeamInv /\ [Next]_vars => [Orphaned => Raced]_vars
    BY <1>1
  <1>3. QED BY <1>2, TeamInvariant, PTL DEF Spec, AdministratorsRemain
====
