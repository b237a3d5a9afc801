---- MODULE Authorization ----
(***************************************************************************)
(* The role matrix of src/src/authz/permissions.ts and the check every     *)
(* server action makes with it.  Modules that model one organization read  *)
(* the membership of the caller once, at the start of a request, and keep  *)
(* that role until the request ends.                                       *)
(***************************************************************************)

OrgRoles == {"organization_admin", "project_manager", "author", "reviewer", "viewer"}

CollaborationParticipant ==
    {"discussion.read", "discussion.create", "discussion.reply",
     "discussion.edit_own", "discussion.delete_own", "discussion.resolve",
     "assignment.read", "notification.read", "notification.manage_own"}
CollaborationModerator ==
    CollaborationParticipant \cup {"discussion.moderate", "assignment.manage"}

EvidenceAuthor == {"evidence.read", "evidence.create", "evidence.update",
                   "evidence.associate", "evidence.archive"}
EvidenceManager == EvidenceAuthor \cup {"evidence.delete"}

ProjectEditing == {"project.read", "project.update", "control.edit_implementation",
                   "control.edit_metadata"}
Submitting == {"review.submit", "review.resubmit"}
Reviewing == {"review.start", "review.approve", "review.request_changes", "review.reopen"}

PermissionsOfManager ==
    ProjectEditing \cup {"project.create", "project.delete"} \cup Submitting
      \cup Reviewing \cup CollaborationModerator \cup EvidenceManager

(* ROLE_PERMISSION_LISTS: every role lists all it may do.                  *)
PermissionsOf(role) ==
    CASE role = "organization_admin" ->
            PermissionsOfManager
              \cup {"org.manage_members", "org.invite", "event.diagnostics.read",
                    "workflow.read", "workflow.manage"}
      [] role = "project_manager" -> PermissionsOfManager
      [] role = "author" ->
            ProjectEditing \cup Submitting \cup CollaborationParticipant \cup EvidenceAuthor
      [] role = "reviewer" ->
            {"project.read", "evidence.read"} \cup Reviewing \cup CollaborationParticipant
      [] role = "viewer" ->
            {"project.read", "discussion.read", "assignment.read", "notification.read",
             "evidence.read"}
      [] OTHER -> {}

Permissions == UNION {PermissionsOf(role) : role \in OrgRoles}

(* can: a caller without a membership has no role and no permission.       *)
can(role, permission) == role \in OrgRoles /\ permission \in PermissionsOf(role)

====
