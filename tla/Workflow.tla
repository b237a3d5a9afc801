---- MODULE Workflow ----
(***************************************************************************)
(* Workflow rules at work on one control.  A server action changes the     *)
(* control record or an assignment and then publishes domain events; the   *)
(* bus runs the workflow engine in the same request, event by event and    *)
(* rule by rule, while other requests go on.  What the rules did is        *)
(* recorded after all of them have run.                                    *)
(*                                                                         *)
(* Abstractions.  The record has an implementation status and one more     *)
(* field, its owner; it exists, and a save of it is one step (ControlReview *)
(* has the transaction).  A rule has at most one condition, so that the    *)
(* reads of the evaluation context are one step; its conditions and        *)
(* actions do not change.  Assignments have one role; the timeline and the *)
(* notifications are in ControlReview and Discussion.  An event has its id *)
(* from the order of publication; each is dispatched once, so that         *)
(* hasExecution never finds a row.                                         *)
(* Operators named Faulty... are not the code: see ProjectStore.           *)
(***************************************************************************)
EXTENDS Naturals, Sequences, FiniteSets, SequencesExt

CONSTANTS Clients,      \* server actions that may be in flight at once
          Users,
          Members,      \* of the organization
          Statuses,     \* implementation statuses
          Rules,        \* ids of the organization's rules
          Rule,         \* their triggers, conditions and actions
          None,
          MaxRequests, MaxFailures    \* bounds of the model

Records == [status : Statuses, owner : Users \cup {None}]
Triggers == {"updated", "assigned", "completed"}
Conditions == [kind : {"always"}, value : {None}] \cup [kind : {"status"}, value : Statuses]
                \cup [kind : {"assignee"}, value : Users]
Actions == [kind : {"status"}, value : Statuses] \cup [kind : {"assign"}, value : Users]

ASSUME WorkflowAssumption ==
    /\ IsFiniteSet(Rules) /\ IsFiniteSet(Members) /\ Members \subseteq Users
    /\ Rule \in [Rules -> [trigger : Triggers, condition : Conditions, actions : Seq(Actions)]]
    /\ None \notin Users \cup Rules \cup Statuses
    /\ MaxRequests \in Nat /\ MaxFailures \in Nat

VARIABLES record,       \* the row of control_records
          assignments,  \* table assignments, in the order of insertion
          rules,        \* table workflow_rules: enabled, disabled or deleted
          executions,   \* table workflow_executions
          req,          \* per client, the server action it has in flight
          published,    \* ghost: the events, and whether a rule's action made them
          loaded, acted,    \* ghosts: the rules that ran for an event; that acted
          crashed,      \* ghost: events whose request failed
          requests, failures

vars == <<record, assignments, rules, executions, req, published, loaded, acted,
          crashed, requests, failures>>
Ghosts == <<published, loaded, acted, crashed>>

Assignments == [assignee : Users, completed : BOOLEAN, removed : BOOLEAN]
Runs == Nat \X Rules                    \* an event and a rule
Contexts == [status : Statuses \cup {None}, assignees : SUBSET Users]
NoContext == [status |-> None, assignees |-> {}]

Requests ==
    [pc : {"idle", "write", "publish", "context", "rules", "act", "assign", "upsert",
           "record"},
     kind : {"complete", "reassign", "remove", None},
     assignment : Nat,                  \* the row it is about
     user : Users \cup {None},          \* the new assignee
     events : Seq(Triggers),            \* still to be published
     event : Nat,                       \* the one being handled
     rules : Seq(Rules),                \* still to run for it, the first one now
     context : Contexts,
     actions : Seq(Actions),            \* of the first rule, still to be executed
     guard : Nat,                       \* depth of the cascade guard
     owner : Users \cup {None},         \* as change_status has read it
     results : Seq([rule : Rules, status : {"succeeded", "failed", "skipped"}]),
     disturbed : BOOLEAN]               \* ghost: others changed the assignments

Idle == [pc |-> "idle", kind |-> None, assignment |-> 0, user |-> None, events |-> <<>>,
         event |-> 0, rules |-> <<>>, context |-> NoContext, actions |-> <<>>,
         guard |-> 0, owner |-> None, results |-> <<>>, disturbed |-> FALSE]

TypeOK ==
    /\ record \in Records
    /\ assignments \in Seq(Assignments)
    /\ rules \in [Rules -> {"enabled", "disabled", "deleted"}]
    /\ \A x \in executions : x[1] \in DOMAIN published /\ rules[x[2]] # "deleted"
    /\ req \in [Clients -> Requests]
    /\ \A c \in Clients : req[c].guard = IF req[c].actions = <<>> THEN 0 ELSE 1
    /\ published \in Seq([type : Triggers, by : {"user", "rule"}])
    /\ loaded \subseteq Runs /\ acted \subseteq loaded
    /\ crashed \subseteq DOMAIN published
    /\ requests \in Nat /\ failures \in Nat

Init ==
    /\ record \in [status : Statuses, owner : {None}]
    /\ \E some \in SUBSET Members :
         assignments = SetToSeq({[assignee |-> u, completed |-> FALSE, removed |-> FALSE] :
                                   u \in some})
    /\ rules = [r \in Rules |-> "enabled"]
    /\ executions = {}
    /\ req = [c \in Clients |-> Idle]
    /\ published = <<>> /\ loaded = {} /\ acted = {} /\ crashed = {}
    /\ requests = 0 /\ failures = 0
----
At(c, pc) == req[c].pc = pc
Set(c, r) == req' = [req EXCEPT ![c] = r]
Tables == <<record, assignments, rules, executions>>

(* A step that changes the assignments: another request may have listed    *)
(* them before.                                                            *)
SetDisturbing(c, r) ==
    req' = [d \in Clients |-> IF d = c THEN r
                              ELSE [req[d] EXCEPT !.disturbed = @ \/ At(d, "assign")]]

Begin(c) == At(c, "idle") /\ requests < MaxRequests /\ requests' = requests + 1

(* The events of a request are published after its own change, in turn.    *)
Publishing(events) ==
    IF events = <<>> THEN Idle ELSE [Idle EXCEPT !.pc = "publish", !.events = events]

(* Autosave sends all fields of the record; unchanged, it has no event.    *)
saveControl(c) ==
    \E r \in Records :
        /\ Begin(c)
        /\ record' = r
        /\ Set(c, Publishing(IF r = record THEN <<>> ELSE <<"updated">>))
        /\ UNCHANGED <<assignments, rules, executions, Ghosts, failures>>

Assigned(u) == Append(assignments, [assignee |-> u, completed |-> FALSE, removed |-> FALSE])

createAssignment(c) ==
    \E u \in Members :
        /\ Begin(c)
        /\ assignments' = Assigned(u)
        /\ SetDisturbing(c, Publishing(<<"assigned">>))
        /\ UNCHANGED <<record, rules, executions, Ghosts, failures>>

(* The row is read, then written by id; whether it is completed already is *)
(* not asked.                                                              *)
readAssignment(c) ==
    \E i \in DOMAIN assignments, kind \in {"complete", "reassign", "remove"}, u \in Members :
        /\ ~assignments[i].removed
        /\ Begin(c)
        /\ Set(c, [Idle EXCEPT !.pc = "write", !.kind = kind, !.assignment = i, !.user = u])
        /\ UNCHANGED <<Tables, Ghosts, failures>>

Written(row, r) ==
    CASE row.removed -> row
      [] r.kind = "complete" -> [row EXCEPT !.completed = TRUE]
      [] r.kind = "reassign" -> [row EXCEPT !.assignee = r.user, !.completed = FALSE]
      [] r.kind = "remove" -> [row EXCEPT !.removed = TRUE]

EventsOf == [complete |-> <<"completed">>, reassign |-> <<"assigned">>, remove |-> <<>>]

(* A row removed meanwhile is not found, and the event is published.       *)
writeAssignment(c) ==
    /\ At(c, "write")
    /\ assignments' = [assignments EXCEPT ![req[c].assignment] = Written(@, req[c])]
    /\ SetDisturbing(c, Publishing(EventsOf[req[c].kind]))
    /\ UNCHANGED <<record, rules, executions, Ghosts, requests, failures>>

setRuleEnabled(c) ==
    \E r \in Rules :
        /\ rules[r] # "deleted"
        /\ Begin(c)
        /\ rules' = [rules EXCEPT ![r] = IF @ = "enabled" THEN "disabled" ELSE "enabled"]
        /\ UNCHANGED <<record, assignments, executions, req, Ghosts, failures>>

(* The executions of a rule are deleted with it.                           *)
deleteRule(c) ==
    \E r \in Rules :
        /\ rules[r] # "deleted"
        /\ Begin(c)
        /\ rules' = [rules EXCEPT ![r] = "deleted"]
        /\ executions' = {x \in executions : x[2] # r}
        /\ UNCHANGED <<record, assignments, req, Ghosts, failures>>
----
Matching(type) == {r \in Rules : rules[r] = "enabled" /\ Rule[r].trigger = type}
Orders(some) ==
    {s \in [1..Cardinality(some) -> some] : \A i, j \in DOMAIN s : s[i] = s[j] => i = j}

(* processWorkflowDomainEvent: the enabled rules of the trigger, the one   *)
(* updated last first.                                                     *)
listEnabledRulesByTrigger(c) ==
    /\ At(c, "publish")
    /\ LET type == Head(req[c].events)
           found == Matching(type)
       IN  /\ \/ /\ found = {}
                 /\ Set(c, Publishing(Tail(req[c].events)))
              \/ /\ found # {}
                 /\ \E order \in Orders(found) :
                        Set(c, [req[c] EXCEPT !.pc = "context", !.event = Len(published) + 1,
                                  !.events = Tail(@), !.rules = order])
           /\ published' = Append(published, [type |-> type, by |-> "user"])
           /\ loaded' = loaded \cup {<<Len(published) + 1, r>> : r \in found}
    /\ UNCHANGED <<Tables, acted, crashed, requests, failures>>

IsActive(i) == ~assignments[i].completed /\ ~assignments[i].removed
Assignees == {assignments[i].assignee : i \in {j \in DOMAIN assignments : IsActive(j)}}

(* One context for all rules of the event.                                 *)
buildWorkflowEvaluationContext(c) ==
    /\ At(c, "context")
    /\ Set(c, [req[c] EXCEPT !.pc = "rules",
                 !.context = [status |-> record.status, assignees |-> Assignees]])
    /\ UNCHANGED <<Tables, Ghosts, requests, failures>>

Matches(context, condition) ==
    CASE condition.kind = "always" -> TRUE
      [] condition.kind = "status" -> context.status = condition.value
      [] condition.kind = "assignee" -> condition.value \in context.assignees

(* The rule that is first is done; the next one runs, or the results are   *)
(* recorded.                                                               *)
AfterRule(r, status) ==
    [r EXCEPT !.rules = Tail(@), !.actions = <<>>, !.guard = 0, !.owner = None, !.disturbed = FALSE,
              !.results = Append(@, [rule |-> Head(r.rules), status |-> status]),
              !.pc = IF Tail(r.rules) = <<>> THEN "record" ELSE "rules"]

runRule(c) ==
    /\ At(c, "rules")
    /\ LET rule == Rule[Head(req[c].rules)]
       IN  Set(c, IF ~Matches(req[c].context, rule.condition)
                    THEN AfterRule(req[c], "skipped")
                  ELSE IF rule.actions = <<>> THEN AfterRule(req[c], "succeeded")
                  ELSE [req[c] EXCEPT !.pc = "act", !.actions = rule.actions, !.guard = @ + 1])
    /\ UNCHANGED <<Tables, Ghosts, requests, failures>>

(* RunsAreRecorded: the failure of an action ends the handling of the      *)
(* event.                                                                  *)
FaultyAfterFailure(r) == Publishing(r.events)

(* The remaining actions of the rule are not executed; other rules run.    *)
AfterFailure(r) == AfterRule(r, "failed")

AfterAction(r) ==
    IF Tail(r.actions) = <<>> THEN AfterRule(r, "succeeded")
    ELSE [r EXCEPT !.actions = Tail(@), !.pc = "act", !.owner = None, !.disturbed = FALSE]

(* AutomationAssignsOnce: the assignments are not looked at.               *)
FaultyIsAssigned(u) == FALSE

IsAssigned(u) == u \in Assignees

(* assign_user: membership, then ensureAssignment lists the assignments.   *)
assignUser(c) ==
    /\ At(c, "act") /\ Head(req[c].actions).kind = "assign"
    /\ LET u == Head(req[c].actions).value
       IN  \/ u \notin Members /\ Set(c, AfterFailure(req[c]))
           \/ u \in Members /\ IsAssigned(u) /\ Set(c, AfterAction(req[c]))
           \/ u \in Members /\ ~IsAssigned(u) /\ Set(c, [req[c] EXCEPT !.pc = "assign"])
    /\ UNCHANGED <<Tables, Ghosts, requests, failures>>

(* NoCascade: the guard is not asked.                                      *)
FaultySuppressed(r) == FALSE

(* isWorkflowCascadeSuppressed in the context of the request.              *)
Suppressed(r) == r.guard > 0

(* An event that an action publishes reaches the engine, which ignores it  *)
(* under the guard and would handle it before the others otherwise.        *)
PublishFromAction(r, type) ==
    /\ published' = Append(published, [type |-> type, by |-> "rule"])
    /\ loaded' = loaded \cup IF Suppressed(r) THEN {}
                             ELSE {<<Len(published) + 1, x>> : x \in Matching(type)}

Act(c) == acted' = acted \cup {<<req[c].event, Head(req[c].rules)>>}

insertAssignment(c) ==
    /\ At(c, "assign")
    /\ assignments' = Assigned(Head(req[c].actions).value)
    /\ SetDisturbing(c, AfterAction(req[c]))
    /\ PublishFromAction(req[c], "assigned") /\ Act(c)
    /\ UNCHANGED <<record, rules, executions, crashed, requests, failures>>

(* change_status reads the record outside of the transaction that writes   *)
(* it, and writes all of its fields back.                                  *)
readRecord(c) ==
    /\ At(c, "act") /\ Head(req[c].actions).kind = "status"
    /\ Set(c, [req[c] EXCEPT !.pc = "upsert", !.owner = record.owner])
    /\ UNCHANGED <<Tables, Ghosts, requests, failures>>

upsertRecord(c) ==
    /\ At(c, "upsert")
    /\ LET r == [status |-> Head(req[c].actions).value, owner |-> req[c].owner]
       IN  \/ /\ r # record
              /\ record' = r
              /\ PublishFromAction(req[c], "updated") /\ Act(c)
           \/ r = record /\ UNCHANGED <<record, published, loaded, acted>>
    /\ Set(c, AfterAction(req[c]))
    /\ UNCHANGED <<assignments, rules, executions, crashed, requests, failures>>

(* The foreign key refuses a rule deleted meanwhile: the handler throws,   *)
(* the other results are lost, and the next event is published.            *)
AfterRefusal(r) == Publishing(r.events)

recordExecution(c) ==
    /\ At(c, "record")
    /\ LET result == Head(req[c].results)
       IN  \/ /\ rules[result.rule] # "deleted"
              /\ executions' = executions \cup {<<req[c].event, result.rule>>}
              /\ Set(c, IF Tail(req[c].results) = <<>> THEN Publishing(req[c].events)
                        ELSE [req[c] EXCEPT !.results = Tail(@)])
           \/ /\ rules[result.rule] = "deleted"
              /\ Set(c, AfterRefusal(req[c]))
              /\ UNCHANGED executions
    /\ UNCHANGED <<record, assignments, rules, Ghosts, requests, failures>>

(* The server fails: the statements left never run.                        *)
fail(c) ==
    /\ ~At(c, "idle") /\ failures < MaxFailures
    /\ failures' = failures + 1
    /\ crashed' = crashed \cup ({req[c].event} \ {0})
    /\ Set(c, Idle)
    /\ UNCHANGED <<Tables, published, loaded, acted, requests>>

Engine(c) ==
    \/ listEnabledRulesByTrigger(c) \/ buildWorkflowEvaluationContext(c) \/ runRule(c)
    \/ assignUser(c) \/ insertAssignment(c) \/ readRecord(c) \/ upsertRecord(c)
    \/ recordExecution(c)

Action(c) ==
    saveControl(c) \/ createAssignment(c) \/ readAssignment(c)
      \/ setRuleEnabled(c) \/ deleteRule(c)

Next == \E c \in Clients : Action(c) \/ writeAssignment(c) \/ Engine(c) \/ fail(c)

Spec == Init /\ [][Next]_vars

----
(* Rules run only for events of users, never for what a rule's action      *)
(* published (engine.ts:258, loop-guard.ts:26).                            *)
NoCascade == \A x \in loaded : published[x[1]].by = "user"

(* A rule that has changed something for an event has an execution for it, *)
(* once the request is over, unless the request failed or a rule of the    *)
(* same event was deleted meanwhile: a failed action does not keep its     *)
(* rule, or the others, from being recorded (engine.ts:129, runtime.ts:125). *)
RunsAreRecorded ==
    \A x \in acted :
        \/ x \in executions \/ x[1] \in crashed
        \/ \E y \in loaded : y[1] = x[1] /\ rules[y[2]] = "deleted"
        \/ \E c \in Clients : req[c].event = x[1]

(* An action gives a user a second active assignment only if another       *)
(* request changed the assignments after the action had listed them        *)
(* (action-executors.ts:108, 123).                                         *)
AutomationAssignsOnce ==
    [][\A c \in Clients :
        insertAssignment(c) /\ Head(req[c].actions).value \in Assignees => req[c].disturbed]_vars

====
