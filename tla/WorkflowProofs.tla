---- MODULE WorkflowProofs ----
(***************************************************************************)
(* Proofs about Workflow for any number of clients, any rules and any      *)
(* bounds.  The invariants come in layers: what a request carries at each  *)
(* statement (Typed), the ledger of what rules ran for which event and     *)
(* what is still to be recorded (Ledger), and what ensureAssignment has    *)
(* seen (Unassigned).                                                      *)
(***************************************************************************)
EXTENDS Workflow, FiniteSetTheorems, SequenceTheorems, TLAPS

Acting == {"act", "assign", "upsert"}
Handling == {"context", "rules", "record"} \cup Acting

(* What a request carries at the statement it has reached.                 *)
Shape(r) ==
    /\ r \in Requests
    /\ r.guard = IF r.actions = <<>> THEN 0 ELSE 1
    /\ r.pc \in Acting <=> r.actions # <<>>
    /\ r.event # 0 <=> r.pc \in Handling
    /\ r.pc = "write" => r.kind \in {"complete", "reassign", "remove"} /\ r.user \in Users
    /\ r.pc = "publish" => r.events # <<>>
    /\ r.pc \in Handling \ {"record"} => r.rules # <<>>
    /\ r.pc \notin Handling \ {"record"} => r.rules = <<>>
    /\ r.pc \notin Handling => r.results = <<>>
    /\ r.pc = "record" => r.results # <<>>
    /\ r.pc = "assign" => Head(r.actions).kind = "assign"
    /\ r.pc = "upsert" => Head(r.actions).kind = "status"

Typed ==
    /\ record \in Records
    /\ assignments \in Seq(Assignments)
    /\ rules \in [Rules -> {"enabled", "disabled", "deleted"}]
    /\ req \in [Clients -> Requests]
    /\ published \in Seq([type : Triggers, by : {"user", "rule"}])
    /\ requests \in Nat /\ failures \in Nat
    /\ \A c \in Clients : Shape(req[c])

RulesIn(results) == {results[i].rule : i \in DOMAIN results}

(* The rules that are still to run or to be recorded for its event.        *)
Ahead(r) == Range(r.rules) \cup RulesIn(r.results)

Settled(x) ==
    \/ x \in executions \/ x[1] \in crashed
    \/ \E y \in loaded : y[1] = x[1] /\ rules[y[2]] = "deleted"

(* A rule that acted for the event is recorded, ahead, or among those that *)
(* a deletion or a failure has cost.                                       *)
Accounts(r) ==
    /\ r.event \in {0} \cup DOMAIN published
    /\ \A x \in Ahead(r) : <<r.event, x>> \in loaded
    /\ \A x \in acted : x[1] = r.event => Settled(x) \/ x[2] \in Ahead(r)

Ledger ==
    /\ \A x \in executions : x[1] \in DOMAIN published /\ rules[x[2]] # "deleted"
    /\ loaded \subseteq (DOMAIN published) \X Rules
    /\ acted \subseteq loaded
    /\ crashed \subseteq DOMAIN published
    /\ NoCascade
    /\ \A c \in Clients : Accounts(req[c])
    /\ \A c, d \in Clients : req[c].event = req[d].event => c = d \/ req[c].event = 0
    /\ RunsAreRecorded

(* Nobody has the assignment that an action found missing.                 *)
Unassigned ==
    \A c \in Clients :
        At(c, "assign") /\ ~ req[c].disturbed => Head(req[c].actions).value \notin Assignees

WorkflowInv == Typed /\ Ledger /\ Unassigned
----
(* Sequences.                                                              *)

LEMMA HeadAndTail ==
    ASSUME NEW S, NEW s \in Seq(S), s # <<>>
    PROVE  /\ Head(s) \in S /\ Tail(s) \in Seq(S)
           /\ Range(s) = {Head(s)} \cup Range(Tail(s))
  <1>1. /\ Head(s) \in S /\ Tail(s) \in Seq(S) /\ Len(Tail(s)) = Len(s) - 1
        /\ \A i \in 1..Len(Tail(s)) : Tail(s)[i] = s[i + 1]
    BY HeadTailProperties
  <1>2. PICK t \in Seq(S) : t = Tail(s)  BY <1>1, Zenon
  <1> DEFINE n == Len(t)
  <1>3. /\ n = Len(s) - 1 /\ DOMAIN t = 1..n /\ DOMAIN s = 1..(n + 1)
        /\ \A i \in 1..n : t[i] = s[i + 1]
    <2>1. Len(s) \in Nat /\ DOMAIN s = 1..Len(s)  OBVIOUS
    <2>2. n = Len(s) - 1  BY <1>1, <1>2, Zenon
    <2>4. n \in Nat /\ DOMAIN t = 1..n  OBVIOUS
    <2>3. \A i \in 1..n : t[i] = s[i + 1]  BY <1>1, <1>2, Zenon
    <2> QED  BY <2>1, <2>2, <2>3, <2>4
  <1>4. s[1] = Head(s)  OBVIOUS
  <1>a. n \in Nat  OBVIOUS
  <1> HIDE DEF n
  <1>5. ASSUME NEW x \in Range(s)  PROVE x \in {Head(s)} \cup Range(t)
    <2>1. PICK i \in 1..(n + 1) : x = s[i]  BY <1>3, <1>5 DEF Range
    <2>2. CASE i = 1  BY <1>4, <2>1, <2>2
    <2>3. CASE i # 1
      <3>1. i - 1 \in 1..n /\ i = (i - 1) + 1  BY <1>a, <2>3
      <3>2. x = t[i - 1]  BY <1>3, <2>1, <3>1
      <3> QED  BY <1>3, <3>1, <3>2 DEF Range
    <2> QED  BY <2>2, <2>3
  <1>6. ASSUME NEW x \in {Head(s)} \cup Range(t)  PROVE x \in Range(s)
    <2>1. CASE x = Head(s)  BY <1>3, <1>4, <2>1 DEF Range
    <2>2. CASE x \in Range(t)
      <3>1. PICK i \in 1..n : x = t[i]  BY <1>3, <2>2 DEF Range
      <3>2. i + 1 \in 1..(n + 1) /\ x = s[i + 1]  BY <1>3, <1>a, <3>1
      <3> QED  BY <1>3, <3>2 DEF Range
    <2> QED  BY <1>6, <2>1, <2>2
  <1>7. Range(s) = {Head(s)} \cup Range(t)  BY <1>5, <1>6
  <1> QED  BY <1>1, <1>2, <1>7, Zenon

LEMMA RangeOfNothing == Range(<<>>) = {} /\ RulesIn(<<>>) = {}
  BY DEF Range, RulesIn

LEMMA RulesInAppend ==
    ASSUME NEW S, NEW s \in Seq(S), NEW e \in S
    PROVE  /\ Append(s, e) \in Seq(S) /\ Append(s, e) # <<>>
           /\ RulesIn(Append(s, e)) = RulesIn(s) \cup {e.rule}
  <1>1. /\ Append(s, e) \in Seq(S) /\ Len(s) \in Nat
        /\ DOMAIN s = 1..Len(s) /\ DOMAIN Append(s, e) = 1..(Len(s) + 1)
        /\ \A i \in 1..Len(s) : Append(s, e)[i] = s[i]
        /\ Append(s, e)[Len(s) + 1] = e
    OBVIOUS
  <1>2. Append(s, e) # <<>>  BY <1>1
  <1>3. RulesIn(Append(s, e)) = RulesIn(s) \cup {e.rule}  BY <1>1 DEF RulesIn
  <1> QED  BY <1>1, <1>2, <1>3

LEMMA RulesInTail ==
    ASSUME NEW S, NEW s \in Seq(S), s # <<>>
    PROVE  RulesIn(s) = {Head(s).rule} \cup RulesIn(Tail(s))
  <1>1. /\ \A t \in Seq(S) : RulesIn(t) = {x.rule : x \in Range(t)}
    BY DEF RulesIn, Range
  <1>2. Tail(s) \in Seq(S) /\ Range(s) = {Head(s)} \cup Range(Tail(s))
    BY HeadAndTail
  <1>3. PICK h, t : t = Tail(s) /\ h = Head(s)  OBVIOUS
  <1>6. t \in Seq(S)  BY <1>2, <1>3, Zenon
  <1>4. Range(s) = {h} \cup Range(t)  BY <1>2, <1>3
  <1>5. RulesIn(s) = {h.rule} \cup RulesIn(t)  BY <1>1, <1>4, <1>6
  <1> QED  BY <1>3, <1>5

----
(* Requests.                                                               *)

LEMMA IdleShape == Shape(Idle) /\ Ahead(Idle) = {} /\ Idle.event = 0 /\ Idle.pc = "idle"
  <1>1. NoContext \in Contexts  BY DEF NoContext, Contexts
  <1>2. \A S : <<>> \in Seq(S)  OBVIOUS
  <1>3. Idle \in Requests  BY <1>1, <1>2 DEF Idle, Requests
  <1> QED  BY <1>3, RangeOfNothing DEF Shape, Idle, Ahead, Acting, Handling

LEMMA PublishingShape ==
    ASSUME NEW events \in Seq(Triggers)
    PROVE  /\ Shape(Publishing(events)) /\ Ahead(Publishing(events)) = {}
           /\ Publishing(events).event = 0
           /\ Publishing(events).pc \in {"idle", "publish"}
  <1>1. CASE events = <<>>
    BY <1>1, IdleShape DEF Publishing
  <1>2. CASE events # <<>>
    <2>1. PICK r : r = [Idle EXCEPT !.pc = "publish", !.events = events]  OBVIOUS
    <2>2. Publishing(events) = r  BY <1>2, <2>1 DEF Publishing
    <2>3. /\ r \in Requests /\ r.pc = "publish" /\ r.events = events
          /\ \A f \in {"kind", "assignment", "user", "event", "rules", "context",
                       "actions", "guard", "owner", "results", "disturbed"} : r[f] = Idle[f]
      BY <2>1, IdleShape DEF Shape, Requests
    <2>4. Ahead(r) = {}  BY <2>3, IdleShape DEF Ahead
    <2>5. Shape(r)  BY <1>2, <2>3, IdleShape DEF Shape, Acting, Handling
    <2> QED  BY <2>2, <2>3, <2>4, <2>5, IdleShape
  <1> QED  BY <1>1, <1>2

Results == [rule : Rules, status : {"succeeded", "failed", "skipped"}]

(* A rule that is done is no longer to run, but to be recorded.            *)
LEMMA AfterRuleShape ==
    ASSUME NEW q, Shape(q), q.pc \in {"rules"} \cup Acting,
           NEW status \in {"succeeded", "failed", "skipped"}
    PROVE  /\ Shape(AfterRule(q, status)) /\ Ahead(AfterRule(q, status)) = Ahead(q)
           /\ AfterRule(q, status).event = q.event
           /\ AfterRule(q, status).pc \in {"rules", "record"}
  <1>1. /\ q \in Requests /\ q.rules \in Seq(Rules) /\ q.results \in Seq(Results)
        /\ q.rules # <<>>
    BY DEF Shape, Requests, Results, Handling, Acting
  <1>2. PICK h, t : h = Head(q.rules) /\ t = Tail(q.rules)  OBVIOUS
  <1>3. /\ h \in Rules /\ t \in Seq(Rules)
        /\ Range(q.rules) = {h} \cup Range(t)
    BY <1>1, <1>2, HeadAndTail, Zenon
  <1>4. PICK e : e = [rule |-> h, status |-> status]  OBVIOUS
  <1>5. e \in Results /\ e.rule = h  BY <1>3, <1>4 DEF Results
  <1>6. PICK s : s = Append(q.results, e)  OBVIOUS
  <1>7. s \in Seq(Results) /\ s # <<>> /\ RulesIn(s) = RulesIn(q.results) \cup {h}
    BY <1>1, <1>5, <1>6, RulesInAppend
  <1>8. PICK r : r = AfterRule(q, status)  OBVIOUS
  <1>9. r = [q EXCEPT !.rules = t, !.actions = <<>>, !.guard = 0, !.owner = None,
                      !.disturbed = FALSE, !.results = s,
                      !.pc = IF t = <<>> THEN "record" ELSE "rules"]
    BY <1>1, <1>2, <1>4, <1>6, <1>8 DEF AfterRule, Requests
  <1>10. /\ r \in Requests /\ r.rules = t /\ r.actions = <<>> /\ r.guard = 0 /\ r.results = s
         /\ r.pc = (IF t = <<>> THEN "record" ELSE "rules")
         /\ r.event = q.event
    <2>1. <<>> \in Seq(Actions)  OBVIOUS
    <2> QED  BY <1>1, <1>3, <1>7, <1>9, <2>1 DEF Requests, Results
  <1>11. Ahead(r) = Ahead(q)  BY <1>3, <1>7, <1>10 DEF Ahead
  <1>12. r.pc \in {"rules", "record"}  BY <1>10
  <1>13. q.event # 0  BY DEF Shape, Handling, Acting
  <1>14. Shape(r)  BY <1>7, <1>10, <1>12, <1>13 DEF Shape, Acting, Handling
  <1> QED  BY <1>8, <1>10, <1>11, <1>12, <1>14

LEMMA AfterActionShape ==
    ASSUME NEW q, Shape(q), q.pc \in Acting
    PROVE  /\ Shape(AfterAction(q)) /\ Ahead(AfterAction(q)) = Ahead(q)
           /\ AfterAction(q).event = q.event
           /\ AfterAction(q).pc \in {"act", "rules", "record"}
  <1>1. CASE Tail(q.actions) = <<>>
    BY <1>1, AfterRuleShape DEF AfterAction
  <1>2. CASE Tail(q.actions) # <<>>
    <2>1. q \in Requests /\ q.actions \in Seq(Actions) /\ q.actions # <<>>
      BY DEF Shape, Requests
    <2>2. PICK t : t = Tail(q.actions)  OBVIOUS
    <2>3. t \in Seq(Actions) /\ t # <<>>
      BY <1>2, <2>1, <2>2, HeadAndTail, Zenon
    <2>4. PICK r : r = AfterAction(q)  OBVIOUS
    <2>5. r = [q EXCEPT !.actions = t, !.pc = "act", !.owner = None, !.disturbed = FALSE]
      BY <1>2, <2>1, <2>2, <2>4 DEF AfterAction, Requests
    <2>6. /\ r \in Requests /\ r.actions = t /\ r.pc = "act"
          /\ \A f \in {"kind", "assignment", "user", "events", "event", "rules", "context",
                       "guard", "results"} : r[f] = q[f]
      BY <2>1, <2>3, <2>5 DEF Requests
    <2>7. Ahead(r) = Ahead(q)  BY <2>6 DEF Ahead
    <2>8. Shape(r)  BY <2>1, <2>3, <2>6 DEF Shape, Acting, Handling
    <2> QED  BY <2>4, <2>6, <2>7, <2>8
  <1> QED  BY <1>1, <1>2

(* A request moves on to another statement of the same rule.               *)
LEMMA GoShape ==
    ASSUME NEW q, Shape(q), NEW r \in Requests,
           q.pc \in Handling \ {"record"}, r.pc \in Handling \ {"record"},
           \A f \in {"event", "rules", "results"} : r[f] = q[f],
           r.guard = IF r.actions = <<>> THEN 0 ELSE 1,
           r.pc \in Acting <=> r.actions # <<>>,
           r.pc = "assign" => Head(r.actions).kind = "assign",
           r.pc = "upsert" => Head(r.actions).kind = "status"
    PROVE  Shape(r) /\ Ahead(r) = Ahead(q)
  <1>1. r.event = q.event /\ r.rules = q.rules /\ r.results = q.results  OBVIOUS
  <1>2. Ahead(r) = Ahead(q)  BY <1>1 DEF Ahead
  <1>3. Shape(r)  BY <1>1 DEF Shape, Acting, Handling
  <1> QED  BY <1>2, <1>3

----
(* Steps.                                                                  *)

(* A step gives its request a new state; the others may see that the       *)
(* assignments were disturbed.                                             *)
Moves(c, r) == Set(c, r) \/ SetDisturbing(c, r)

LEMMA Fitting ==
    ASSUME Typed, NEW c \in Clients
    PROVE  req[c] \in Requests /\ Shape(req[c])
  BY DEF Typed

Lasting == {"pc", "kind", "assignment", "user", "events", "event", "rules", "context",
            "actions", "guard", "owner", "results"}

LEMMA OthersStay ==
    ASSUME Typed, NEW c \in Clients, NEW r \in Requests, Moves(c, r)
    PROVE  /\ req' \in [Clients -> Requests] /\ req'[c] = r
           /\ \A d \in Clients \ {c} :
                /\ \A f \in Lasting : req'[d][f] = req[d][f]
                /\ Ahead(req'[d]) = Ahead(req[d])
                /\ Shape(req'[d])
  <1>1. \A d \in Clients : req[d] \in Requests /\ Shape(req[d])  BY Fitting
  <1>2. /\ req' \in [Clients -> Requests] /\ req'[c] = r
        /\ \A d \in Clients \ {c} : \E b \in BOOLEAN : req'[d] = [req[d] EXCEPT !.disturbed = b]
    <2>1. CASE Set(c, r)
      <3>1. req' = [req EXCEPT ![c] = r] /\ req \in [Clients -> Requests]
        BY <2>1 DEF Set, Typed
      <3>2. \A d \in Clients : /\ req[d].disturbed \in BOOLEAN
                               /\ req[d] = [req[d] EXCEPT !.disturbed = req[d].disturbed]
        BY <1>1 DEF Requests
      <3> QED  BY <3>1, <3>2
    <2>2. CASE SetDisturbing(c, r)
      <3>1. req' = [d \in Clients |-> IF d = c THEN r
                      ELSE [req[d] EXCEPT !.disturbed = req[d].disturbed \/ At(d, "assign")]]
        BY <1>1, <2>2 DEF SetDisturbing, Requests
      <3>2. \A d \in Clients : (req[d].disturbed \/ At(d, "assign")) \in BOOLEAN
        OBVIOUS
      <3>3. \A d \in Clients : \A b \in BOOLEAN : [req[d] EXCEPT !.disturbed = b] \in Requests
        BY <1>1 DEF Requests
      <3> QED  BY <3>1, <3>2, <3>3
    <2> QED  BY <2>1, <2>2 DEF Moves
  <1>3. ASSUME NEW d \in Clients \ {c}
        PROVE  /\ \A f \in Lasting : req'[d][f] = req[d][f]
               /\ Ahead(req'[d]) = Ahead(req[d])
               /\ Shape(req'[d])
    <2>1. PICK p, q : p = req[d] /\ q = req'[d]  OBVIOUS
    <2>2. p \in Requests /\ Shape(p) /\ q \in Requests
      BY <1>1, <1>2, <2>1
    <2>6. PICK b \in BOOLEAN : q = [p EXCEPT !.disturbed = b]  BY <1>2, <2>1
    <2>3. \A f \in Lasting : q[f] = p[f]
      BY <2>2, <2>6 DEF Requests, Lasting
    <2>4. Ahead(q) = Ahead(p)  BY <2>3 DEF Ahead, Lasting
    <2>5. Shape(q)  BY <2>2, <2>3 DEF Shape, Acting, Handling, Lasting
    <2> QED  BY <2>1, <2>3, <2>4, <2>5
  <1> QED  BY <1>2, <1>3

LEMMA TypedStep ==
    ASSUME Typed, NEW c \in Clients, NEW r, Shape(r), Moves(c, r),
           record' \in Records, assignments' \in Seq(Assignments),
           rules' \in [Rules -> {"enabled", "disabled", "deleted"}],
           published' \in Seq([type : Triggers, by : {"user", "rule"}]),
           requests' \in Nat, failures' \in Nat
    PROVE  Typed'
  <1>1. r \in Requests  BY DEF Shape
  <1>2. /\ req' \in [Clients -> Requests] /\ req'[c] = r
        /\ \A d \in Clients \ {c} : Shape(req'[d])
    BY <1>1, OthersStay
  <1> QED  BY <1>2 DEF Typed

(* What a step may do to the ledger.                                       *)
LEMMA LedgerStep ==
    ASSUME Typed, Ledger, NEW c \in Clients, NEW r \in Requests, Moves(c, r),
           published' \in Seq([type : Triggers, by : {"user", "rule"}]),
           DOMAIN published \subseteq DOMAIN published',
           \A i \in DOMAIN published : published'[i] = published[i],
           \A x \in executions' : x[1] \in DOMAIN published' /\ rules'[x[2]] # "deleted",
           \A x \in executions \ executions' : rules'[x[2]] = "deleted",
           \A x \in Rules : rules[x] = "deleted" => rules'[x] = "deleted",
           loaded \subseteq loaded', loaded' \subseteq (DOMAIN published') \X Rules,
           \A x \in loaded' \ loaded : published'[x[1]].by = "user",
           acted \subseteq acted', acted' \subseteq loaded',
           \A x \in acted' \ acted : x[1] = r.event,
           crashed \subseteq crashed', crashed' \subseteq DOMAIN published',
           r.event \in {0, req[c].event} \/ r.event \notin DOMAIN published,
           Accounts(r)',
           \A x \in acted' : x[1] = req[c].event /\ x[1] # r.event => Settled(x)'
    PROVE  Ledger'
  <1>1. /\ req'[c] = r
        /\ \A d \in Clients \ {c} :
              req'[d].event = req[d].event /\ Ahead(req'[d]) = Ahead(req[d])
    BY OthersStay DEF Lasting
  <1>2. 0 \notin DOMAIN published' /\ 0 \notin DOMAIN published
    BY DEF Typed
  <1>3. NoCascade'  BY DEF NoCascade, Ledger
  <1>4. ASSUME NEW x \in acted, Settled(x)  PROVE Settled(x)'
    <2>1. CASE x \in executions /\ x \notin executions'
      <3>1. rules'[x[2]] = "deleted" /\ x \in loaded'  BY <2>1 DEF Ledger
      <3> QED  BY <3>1 DEF Settled
    <2>2. CASE x \in executions'  BY <2>2 DEF Settled
    <2>3. CASE x[1] \in crashed  BY <2>3 DEF Settled
    <2>4. CASE \E y \in loaded : y[1] = x[1] /\ rules[y[2]] = "deleted"
      <3>1. PICK y \in loaded : y[1] = x[1] /\ rules[y[2]] = "deleted"  BY <2>4
      <3>2. y[2] \in Rules  BY <3>1 DEF Ledger
      <3>3. rules'[y[2]] = "deleted"  BY <3>1, <3>2
      <3> QED  BY <3>1, <3>3 DEF Settled
    <2> QED  BY <1>4, <2>1, <2>2, <2>3, <2>4 DEF Settled
  <1>5. ASSUME NEW d \in Clients \ {c}  PROVE r.event # req[d].event \/ r.event = 0
    <2>1. req[d].event \in {0} \cup DOMAIN published  BY DEF Ledger, Accounts
    <2>2. req[c].event = req[d].event => req[c].event = 0  BY DEF Ledger
    <2> QED  BY <2>1, <2>2
  <1>6. ASSUME NEW d \in Clients \ {c}  PROVE Accounts(req[d])'
    <2>1. PICK q : q = req'[d]  OBVIOUS
    <2>2. q.event = req[d].event /\ Ahead(q) = Ahead(req[d])  BY <1>1, <2>1
    <2>3. Accounts(req[d])  BY DEF Ledger
    <2>4. \A x \in acted' : x[1] \in DOMAIN published'  OBVIOUS
    <2>5. \A x \in acted' : x[1] = q.event => x \in acted
      BY <1>2, <1>5, <2>2, <2>4
    <2>6. \A x \in acted' : x[1] = q.event => Settled(x)' \/ x[2] \in Ahead(q)
      BY <1>4, <2>2, <2>3, <2>5 DEF Accounts
    <2>7. /\ q.event \in {0} \cup DOMAIN published'
          /\ \A x \in Ahead(q) : <<q.event, x>> \in loaded'
      BY <2>2, <2>3 DEF Accounts
    <2>8. Accounts(q)'  BY <2>6, <2>7 DEF Accounts
    <2> QED  BY <2>1, <2>8
  <1>7. \A d \in Clients : Accounts(req[d])'  BY <1>1, <1>6
  <1>8. \A d, e \in Clients : req'[d].event = req'[e].event => d = e \/ req'[d].event = 0
    BY <1>1, <1>5 DEF Ledger
  <1>9. ASSUME NEW x \in acted'
        PROVE  Settled(x)' \/ \E d \in Clients : req'[d].event = x[1]
    <2>1. CASE x \notin acted  BY <1>1, <2>1
    <2>2. CASE x \in acted
      <3>1. Settled(x) \/ \E d \in Clients : req[d].event = x[1]
        BY <2>2 DEF Ledger, RunsAreRecorded, Settled
      <3>2. CASE Settled(x)  BY <1>4, <2>2, <3>2
      <3>3. CASE req[c].event = x[1]  BY <1>1, <3>3
      <3>4. ASSUME NEW d \in Clients \ {c}, req[d].event = x[1]
            PROVE  \E e \in Clients : req'[e].event = x[1]
        BY <1>1, <3>4
      <3> QED  BY <3>1, <3>2, <3>3, <3>4
    <2> QED  BY <2>1, <2>2
  <1>10. RunsAreRecorded'  BY <1>9 DEF RunsAreRecorded, Settled
  <1> QED  BY <1>3, <1>7, <1>8, <1>10 DEF Ledger

(* A step of which the ledger takes no notice.                             *)
LEMMA LedgerQuiet ==
    ASSUME Typed, Ledger, NEW c \in Clients, NEW r \in Requests, Moves(c, r),
           UNCHANGED <<rules, executions, Ghosts>>,
           r.event = req[c].event, Ahead(r) = Ahead(req[c])
    PROVE  Ledger'
  <1>1. /\ rules' = rules /\ executions' = executions /\ published' = published
        /\ loaded' = loaded /\ acted' = acted /\ crashed' = crashed
    BY DEF Ghosts
  <1>2. Accounts(req[c])  BY DEF Ledger
  <1>3. PICK q : q = req[c]  OBVIOUS
  <1>4. Accounts(r)'  BY <1>1, <1>2 DEF Accounts, Settled
  <1> QED  BY <1>1, <1>4, LedgerStep DEF Typed, Ledger, NoCascade

(* A rule's action has changed something and published its event, which    *)
(* the guard keeps from the engine.                                        *)
LEMMA LedgerActs ==
    ASSUME Typed, Ledger, NEW c \in Clients, NEW r \in Requests, Moves(c, r),
           UNCHANGED <<rules, executions, crashed>>,
           req[c].pc \in Acting, NEW type \in Triggers,
           PublishFromAction(req[c], type), Act(c),
           r.event = req[c].event, Ahead(r) = Ahead(req[c])
    PROVE  Ledger' /\ published' \in Seq([type : Triggers, by : {"user", "rule"}])
  <1>1. PICK q : q = req[c]  OBVIOUS
  <1>2. /\ q \in Requests /\ q.guard = 1 /\ q.rules # <<>> /\ q.event # 0
        /\ q.rules \in Seq(Rules)
    BY <1>1, Fitting DEF Shape, Acting, Handling, Requests
  <1>3. Head(q.rules) \in Rules /\ Head(q.rules) \in Ahead(q)
    BY <1>2, HeadAndTail DEF Ahead
  <1>4. PICK h : h = Head(q.rules)  OBVIOUS
  <1>5. Suppressed(q)  BY <1>2 DEF Suppressed
  <1>6. PICK e : e = [type |-> type, by |-> "rule"]  OBVIOUS
  <1>7. /\ published' = Append(published, e)
        /\ loaded' = loaded /\ acted' = acted \cup {<<q.event, h>>}
    BY <1>1, <1>4, <1>5, <1>6 DEF PublishFromAction, Act
  <1>8. /\ published' \in Seq([type : Triggers, by : {"user", "rule"}])
        /\ DOMAIN published \subseteq DOMAIN published'
        /\ \A i \in DOMAIN published : published'[i] = published[i]
    BY <1>6, <1>7 DEF Typed
  <1>9. Accounts(q)  BY <1>1 DEF Ledger
  <1>10. <<q.event, h>> \in loaded  BY <1>3, <1>4, <1>9 DEF Accounts
  <1>11. h \in Ahead(r) /\ r.event = q.event /\ Ahead(r) = Ahead(q)
    BY <1>1, <1>3, <1>4
  <1>12. \A x \in acted : Settled(x) => Settled(x)'
    BY <1>7 DEF Settled
  <1>13. Accounts(r)'
    <2>1. r.event \in {0} \cup DOMAIN published'
      BY <1>8, <1>9, <1>11 DEF Accounts
    <2>2. \A x \in Ahead(r) : <<r.event, x>> \in loaded'
      BY <1>7, <1>9, <1>11 DEF Accounts
    <2>3. ASSUME NEW x \in acted', x[1] = r.event
          PROVE  Settled(x)' \/ x[2] \in Ahead(r)
      <3>1. CASE x = <<q.event, h>>  BY <1>11, <3>1
      <3>2. CASE x \in acted  BY <1>9, <1>11, <1>12, <2>3, <3>2 DEF Accounts
      <3> QED  BY <1>7, <3>1, <3>2
    <2> QED  BY <2>1, <2>2, <2>3 DEF Accounts
  <1>14. /\ executions' = executions /\ rules' = rules /\ crashed' = crashed
    OBVIOUS
  <1>15. /\ \A x \in executions' : x[1] \in DOMAIN published' /\ rules'[x[2]] # "deleted"
         /\ loaded' \subseteq (DOMAIN published') \X Rules
         /\ acted' \subseteq loaded' /\ crashed' \subseteq DOMAIN published'
    BY <1>7, <1>8, <1>10, <1>14 DEF Ledger
  <1>16. \A x \in acted' \ acted : x[1] = r.event  BY <1>7, <1>11
  <1>17. Ledger'
    BY <1>1, <1>7, <1>8, <1>11, <1>13, <1>14, <1>15, <1>16, LedgerStep
  <1> QED  BY <1>8, <1>17

(* Enabling, disabling and deleting a rule.                                *)
LEMMA LedgerRules ==
    ASSUME Typed, Ledger, NEW c \in Clients, UNCHANGED <<req, Ghosts>>,
           rules' \in [Rules -> {"enabled", "disabled", "deleted"}],
           \A x \in Rules : rules[x] = "deleted" => rules'[x] = "deleted",
           executions' = {x \in executions : rules'[x[2]] # "deleted"}
    PROVE  Ledger'
  <1>1. /\ req' = req /\ published' = published /\ loaded' = loaded
        /\ acted' = acted /\ crashed' = crashed
    BY DEF Ghosts
  <1>2. PICK q : q = req[c]  OBVIOUS
  <1>3. q \in Requests /\ Moves(c, q)
    BY <1>1, <1>2, Fitting DEF Moves, Set, Typed
  <1>4. Accounts(q)  BY <1>2 DEF Ledger
  <1>5. ASSUME NEW x \in acted, Settled(x)  PROVE Settled(x)'
    <2>1. CASE x \in executions
      BY <1>1, <2>1 DEF Settled, Ledger
    <2>2. CASE x[1] \in crashed  BY <1>1, <2>2 DEF Settled
    <2>3. CASE \E y \in loaded : y[1] = x[1] /\ rules[y[2]] = "deleted"
      BY <1>1, <2>3 DEF Settled, Ledger
    <2> QED  BY <1>5, <2>1, <2>2, <2>3 DEF Settled
  <1>6. Accounts(q)'  BY <1>1, <1>4, <1>5 DEF Accounts
  <1>7. /\ \A x \in executions' : x[1] \in DOMAIN published' /\ rules'[x[2]] # "deleted"
        /\ \A x \in executions \ executions' : rules'[x[2]] = "deleted"
        /\ loaded' \subseteq (DOMAIN published') \X Rules
        /\ acted' \subseteq loaded' /\ crashed' \subseteq DOMAIN published'
        /\ published' \in Seq([type : Triggers, by : {"user", "rule"}])
    BY <1>1 DEF Ledger, Typed
  <1> QED  BY <1>1, <1>2, <1>3, <1>6, <1>7, LedgerStep

(* An event reaches the engine: nothing has acted for it yet.              *)
LEMMA LedgerLists ==
    ASSUME Typed, Ledger, NEW c \in Clients, NEW r \in Requests, Moves(c, r),
           UNCHANGED <<rules, executions, acted, crashed>>,
           req[c].event = 0, NEW type \in Triggers, NEW found \in SUBSET Rules,
           published' = Append(published, [type |-> type, by |-> "user"]),
           loaded' = loaded \cup {<<Len(published) + 1, x>> : x \in found},
           \/ r.event = 0 /\ Ahead(r) = {}
           \/ r.event = Len(published) + 1 /\ Ahead(r) \subseteq found
    PROVE  Ledger'
  <1>1. PICK e : e = [type |-> type, by |-> "user"]  OBVIOUS
  <1>2. PICK n : n = Len(published) + 1  OBVIOUS
  <1>3. /\ published' \in Seq([type : Triggers, by : {"user", "rule"}])
        /\ DOMAIN published = 1..Len(published) /\ Len(published) \in Nat
        /\ DOMAIN published' = DOMAIN published \cup {n}
        /\ n \notin DOMAIN published /\ n # 0
        /\ \A i \in DOMAIN published : published'[i] = published[i]
        /\ published'[n] = e
    BY <1>1, <1>2 DEF Typed
  <1>4. loaded' = loaded \cup {<<n, x>> : x \in found}  BY <1>2
  <1>5. \A x \in acted : x[1] \in DOMAIN published  BY DEF Ledger
  <1>6. /\ executions' = executions /\ rules' = rules /\ crashed' = crashed
        /\ acted' = acted
    OBVIOUS
  <1>7. r.event \in {0, n} /\ \A x \in Ahead(r) : <<r.event, x>> \in loaded'
    BY <1>2, <1>4
  <1>8. \A x \in acted' : x[1] # r.event /\ x[1] # 0
    BY <1>3, <1>5, <1>6, <1>7
  <1>9. Accounts(r)'  BY <1>3, <1>7, <1>8 DEF Accounts
  <1>10. /\ \A x \in executions' : x[1] \in DOMAIN published' /\ rules'[x[2]] # "deleted"
         /\ loaded' \subseteq (DOMAIN published') \X Rules
         /\ acted' \subseteq loaded' /\ crashed' \subseteq DOMAIN published'
    BY <1>3, <1>4, <1>6 DEF Ledger
  <1>11. \A x \in loaded' \ loaded : published'[x[1]].by = "user"
    BY <1>1, <1>3, <1>4
  <1>12. r.event \in {0, req[c].event} \/ r.event \notin DOMAIN published
    BY <1>3, <1>7
  <1> QED  BY <1>3, <1>4, <1>6, <1>8, <1>9, <1>10, <1>11, <1>12, LedgerStep

(* The handling of an event ends.                                          *)
LEMMA LedgerEnds ==
    ASSUME Typed, Ledger, NEW c \in Clients, NEW r \in Requests, Moves(c, r),
           UNCHANGED <<rules, published, loaded, acted>>,
           r.event = 0, Ahead(r) = {},
           \A x \in executions' : x[1] \in DOMAIN published /\ rules[x[2]] # "deleted",
           executions \subseteq executions',
           crashed \subseteq crashed', crashed' \subseteq DOMAIN published,
           \A x \in acted : x[1] = req[c].event => Settled(x)'
    PROVE  Ledger'
  <1>1. /\ rules' = rules /\ published' = published /\ loaded' = loaded /\ acted' = acted
    OBVIOUS
  <1>2. \A x \in acted : x[1] # 0  BY DEF Ledger, Typed
  <1>3. Accounts(r)'  BY <1>1, <1>2 DEF Accounts
  <1> QED  BY <1>1, <1>3, LedgerStep DEF Ledger, Typed

(* One result is recorded, and others are left.                            *)
LEMMA LedgerRecords ==
    ASSUME Typed, Ledger, NEW c \in Clients, NEW r \in Requests, Moves(c, r),
           UNCHANGED <<rules, Ghosts>>, NEW x \in Rules, rules[x] # "deleted",
           executions' = executions \cup {<<req[c].event, x>>},
           r.event = req[c].event, r.event # 0, Ahead(req[c]) = {x} \cup Ahead(r)
    PROVE  Ledger'
  <1>1. /\ rules' = rules /\ published' = published /\ loaded' = loaded /\ acted' = acted
        /\ crashed' = crashed
    BY DEF Ghosts
  <1>2. PICK q : q = req[c]  OBVIOUS
  <1>3. Accounts(q)  BY <1>2 DEF Ledger
  <1>4. \A y \in acted : Settled(y) => Settled(y)'  BY <1>1 DEF Settled
  <1>5. \A y \in acted : y = <<q.event, x>> => Settled(y)'  BY <1>2 DEF Settled
  <1>6. \A y \in acted : y = <<y[1], y[2]>>  BY DEF Ledger
  <1>7. Accounts(r)'
    <2>1. ASSUME NEW y \in acted', y[1] = r.event  PROVE Settled(y)' \/ y[2] \in Ahead(r)
      BY <1>1, <1>2, <1>3, <1>4, <1>5, <1>6, <2>1 DEF Accounts
    <2> QED  BY <1>1, <1>2, <1>3, <2>1 DEF Accounts
  <1>8. \A y \in executions' : y[1] \in DOMAIN published' /\ rules'[y[2]] # "deleted"
    BY <1>1, <1>2, <1>3 DEF Ledger, Accounts
  <1> QED  BY <1>1, <1>7, <1>8, LedgerStep DEF Ledger, Typed

(* What a step may do to the assignments.                                  *)
LEMMA UnassignedStep ==
    ASSUME Typed, Unassigned, NEW c \in Clients, NEW r \in Requests,
           \/ Set(c, r) /\ assignments' = assignments
           \/ SetDisturbing(c, r),
           \/ r.pc # "assign"
           \/ assignments' = assignments /\ Head(r.actions).value \notin Assignees
    PROVE  Unassigned'
  <1>1. /\ req' \in [Clients -> Requests] /\ req'[c] = r
        /\ \A d \in Clients \ {c} : req'[d].pc = req[d].pc /\ req'[d].actions = req[d].actions
    BY OthersStay DEF Moves, Lasting
  <1>2. ASSUME NEW d \in Clients, At(d, "assign")', ~ req'[d].disturbed
        PROVE  Head(req'[d].actions).value \notin Assignees'
    <2>1. CASE d = c
      <3>1. r.pc = "assign"  BY <1>1, <1>2, <2>1 DEF At
      <3>2. assignments' = assignments /\ Head(r.actions).value \notin Assignees
        BY <3>1
      <3> QED  BY <1>1, <2>1, <3>2 DEF Assignees, IsActive
    <2>2. CASE d # c
      <3>1. At(d, "assign")  BY <1>1, <1>2, <2>2 DEF At
      <3>2. CASE SetDisturbing(c, r)
        <4>1. req'[d] = [req[d] EXCEPT !.disturbed = req[d].disturbed \/ At(d, "assign")]
          BY <2>2, <3>2, Fitting DEF SetDisturbing, Requests
        <4>2. req'[d].disturbed  BY <3>1, <4>1, Fitting DEF Requests
        <4> QED  BY <1>2, <4>2
      <3>3. CASE Set(c, r) /\ assignments' = assignments
        <4>1. req'[d] = req[d]  BY <2>2, <3>3 DEF Set, Typed
        <4>2. Head(req[d].actions).value \notin Assignees
          BY <1>2, <3>1, <4>1 DEF Unassigned
        <4> QED  BY <3>3, <4>1, <4>2 DEF Assignees, IsActive
      <3> QED  BY <3>2, <3>3
    <2> QED  BY <2>1, <2>2
  <1> QED  BY <1>2 DEF Unassigned

----
(* The server actions.                                                     *)

LEMMA NothingAhead ==
    ASSUME NEW q, Shape(q), q.pc \notin Handling
    PROVE  q.event = 0 /\ Ahead(q) = {}
  BY RangeOfNothing DEF Shape, Ahead, Handling

LEMMA QuietInv ==
    ASSUME WorkflowInv, NEW c \in Clients, NEW r, Shape(r),
           \/ Set(c, r) /\ assignments' = assignments
           \/ SetDisturbing(c, r),
           \/ r.pc # "assign"
           \/ assignments' = assignments /\ Head(r.actions).value \notin Assignees,
           record' \in Records, assignments' \in Seq(Assignments),
           UNCHANGED <<rules, executions, Ghosts>>,
           requests' \in Nat, failures' \in Nat,
           r.event = req[c].event, Ahead(r) = Ahead(req[c])
    PROVE  WorkflowInv'
  <1>1. Typed /\ Ledger /\ Unassigned  BY DEF WorkflowInv
  <1>2. r \in Requests /\ Moves(c, r)  BY DEF Shape, Moves
  <1>3. rules' = rules /\ published' = published  BY DEF Ghosts
  <1>4. Typed'  BY <1>1, <1>2, <1>3, TypedStep DEF Typed
  <1>5. Ledger'  BY <1>1, <1>2, LedgerQuiet
  <1>6. Unassigned'  BY <1>1, <1>2, UnassignedStep
  <1> QED  BY <1>4, <1>5, <1>6 DEF WorkflowInv

(* A change made and its events to be published.                           *)
LEMMA PublishingInv ==
    ASSUME WorkflowInv, NEW c \in Clients, NEW events \in Seq(Triggers),
           req[c].pc \in {"idle", "write"},
           \/ Set(c, Publishing(events)) /\ assignments' = assignments
           \/ SetDisturbing(c, Publishing(events)),
           record' \in Records, assignments' \in Seq(Assignments),
           UNCHANGED <<rules, executions, Ghosts>>,
           requests' \in Nat, failures' \in Nat
    PROVE  WorkflowInv'
  <1>1. PICK r : r = Publishing(events)  OBVIOUS
  <1>2. Shape(r) /\ Ahead(r) = {} /\ r.event = 0 /\ r.pc # "assign"
    BY <1>1, PublishingShape
  <1>3. Shape(req[c])  BY Fitting DEF WorkflowInv
  <1>4. req[c].event = 0 /\ Ahead(req[c]) = {}
    BY <1>3, NothingAhead DEF Handling, Acting
  <1>5. \/ Set(c, r) /\ assignments' = assignments
        \/ SetDisturbing(c, r)
    BY <1>1
  <1> QED  BY <1>2, <1>4, <1>5, QuietInv

LEMMA SaveControlInv ==
    ASSUME WorkflowInv, NEW c \in Clients, saveControl(c)
    PROVE  WorkflowInv'
  <1>1. PICK new \in Records :
          /\ Begin(c) /\ record' = new
          /\ Set(c, Publishing(IF new = record THEN <<>> ELSE <<"updated">>))
          /\ UNCHANGED <<assignments, rules, executions, Ghosts, failures>>
    BY DEF saveControl
  <1>2. PICK events : events = IF new = record THEN <<>> ELSE <<"updated">>  OBVIOUS
  <1>3. events \in Seq(Triggers)
    <2>1. <<>> \in Seq(Triggers)  OBVIOUS
    <2>2. <<"updated">> \in Seq(Triggers)  BY DEF Triggers
    <2>3. events = <<>> \/ events = <<"updated">>  BY <1>2
    <2> QED  BY <2>1, <2>2, <2>3
  <1>4. Set(c, Publishing(events))  BY <1>1, <1>2
  <1>5. /\ req[c].pc = "idle" /\ requests' \in Nat /\ failures' \in Nat
        /\ assignments' = assignments /\ assignments' \in Seq(Assignments)
    BY <1>1 DEF Begin, At, WorkflowInv, Typed
  <1>6. record' \in Records /\ UNCHANGED <<rules, executions, Ghosts>>  BY <1>1
  <1> QED  BY <1>3, <1>4, <1>5, <1>6, PublishingInv

LEMMA AssignedType ==
    ASSUME Typed, NEW u \in Users
    PROVE  Assigned(u) \in Seq(Assignments)
  <1>1. [assignee |-> u, completed |-> FALSE, removed |-> FALSE] \in Assignments
    BY DEF Assignments
  <1> QED  BY <1>1 DEF Assigned, Typed

LEMMA CreateAssignmentInv ==
    ASSUME WorkflowInv, NEW c \in Clients, createAssignment(c)
    PROVE  WorkflowInv'
  <1>1. PICK u \in Members :
          /\ Begin(c) /\ assignments' = Assigned(u)
          /\ SetDisturbing(c, Publishing(<<"assigned">>))
          /\ UNCHANGED <<record, rules, executions, Ghosts, failures>>
    BY DEF createAssignment
  <1>2. u \in Users  BY WorkflowAssumption
  <1>3. assignments' \in Seq(Assignments)
    BY <1>1, <1>2, AssignedType DEF WorkflowInv
  <1>4. <<"assigned">> \in Seq(Triggers)  BY DEF Triggers
  <1>5. /\ req[c].pc = "idle" /\ requests' \in Nat /\ failures' \in Nat
        /\ record' \in Records
    BY <1>1 DEF Begin, At, WorkflowInv, Typed
  <1> QED  BY <1>1, <1>3, <1>4, <1>5, PublishingInv

LEMMA ReadAssignmentInv ==
    ASSUME WorkflowInv, NEW c \in Clients, readAssignment(c)
    PROVE  WorkflowInv'
  <1>1. PICK i \in DOMAIN assignments, kind \in {"complete", "reassign", "remove"},
             u \in Members :
          /\ Begin(c)
          /\ Set(c, [Idle EXCEPT !.pc = "write", !.kind = kind, !.assignment = i, !.user = u])
          /\ UNCHANGED <<Tables, Ghosts, failures>>
    BY DEF readAssignment
  <1>2. PICK r : r = [Idle EXCEPT !.pc = "write", !.kind = kind, !.assignment = i, !.user = u]
    OBVIOUS
  <1>3. i \in Nat /\ u \in Users  BY WorkflowAssumption DEF WorkflowInv, Typed
  <1>4. /\ r \in Requests /\ r.pc = "write" /\ r.kind = kind /\ r.user = u
        /\ \A f \in {"events", "event", "rules", "context", "actions", "guard", "owner",
                     "results", "disturbed"} : r[f] = Idle[f]
    BY <1>2, <1>3, IdleShape DEF Shape, Requests
  <1>5. Shape(r) /\ Ahead(r) = {} /\ r.event = 0
    <2>1. /\ r.event = 0 /\ r.rules = <<>> /\ r.actions = <<>> /\ r.guard = 0
          /\ r.results = <<>>
      BY <1>4 DEF Idle
    <2>2. Ahead(r) = {}  BY <2>1, RangeOfNothing DEF Ahead
    <2>3. Shape(r)  BY <1>3, <1>4, <2>1 DEF Shape, Acting, Handling
    <2> QED  BY <2>1, <2>2, <2>3
  <1>6. Shape(req[c])  BY Fitting DEF WorkflowInv
  <1>7. req[c].pc = "idle" /\ requests' \in Nat
    BY <1>1 DEF Begin, At, WorkflowInv, Typed
  <1>8. req[c].event = 0 /\ Ahead(req[c]) = {}
    BY <1>6, <1>7, NothingAhead DEF Handling, Acting
  <1>9. Set(c, r)  BY <1>1, <1>2
  <1>10. /\ record' \in Records /\ assignments' = assignments
         /\ assignments' \in Seq(Assignments) /\ failures' \in Nat
         /\ UNCHANGED <<rules, executions, Ghosts>>
    BY <1>1 DEF Tables, WorkflowInv, Typed
  <1> QED  BY <1>4, <1>5, <1>7, <1>8, <1>9, <1>10, QuietInv

LEMMA WriteAssignmentInv ==
    ASSUME WorkflowInv, NEW c \in Clients, writeAssignment(c)
    PROVE  WorkflowInv'
  <1>1. PICK q : q = req[c]  OBVIOUS
  <1>2. Shape(q) /\ q \in Requests  BY <1>1, Fitting DEF WorkflowInv
  <1>3. /\ q.pc = "write"
        /\ assignments' = [assignments EXCEPT ![q.assignment] = Written(assignments[q.assignment], q)]
        /\ SetDisturbing(c, Publishing(EventsOf[q.kind]))
        /\ UNCHANGED <<record, rules, executions, Ghosts, requests, failures>>
    BY <1>1 DEF writeAssignment, At
  <1>4. q.kind \in {"complete", "reassign", "remove"} /\ q.user \in Users
    BY <1>2, <1>3 DEF Shape, Requests
  <1>5. EventsOf[q.kind] \in Seq(Triggers)
    <2>1. <<"completed">> \in Seq(Triggers) /\ <<"assigned">> \in Seq(Triggers)
      BY DEF Triggers
    <2>2. <<>> \in Seq(Triggers)  OBVIOUS
    <2>3. CASE q.kind = "complete"  BY <2>1, <2>3 DEF EventsOf
    <2>4. CASE q.kind = "reassign"  BY <2>1, <2>4 DEF EventsOf
    <2>5. CASE q.kind = "remove"
      <3>1. EventsOf[q.kind] = <<>>  BY <2>5 DEF EventsOf
      <3> QED  BY <2>2, <3>1
    <2> QED  BY <1>4, <2>3, <2>4, <2>5
  <1>6. \A row \in Assignments : Written(row, q) \in Assignments
    BY <1>4 DEF Written, Assignments
  <1>7. assignments' \in Seq(Assignments)
    <2>1. assignments \in Seq(Assignments)  BY DEF WorkflowInv, Typed
    <2>2. \A i \in DOMAIN assignments : assignments[i] \in Assignments
      BY <2>1
    <2>3. PICK i, row : i = q.assignment /\ row = Written(assignments[i], q)  OBVIOUS
    <2>4. assignments' = [assignments EXCEPT ![i] = row]  BY <1>3, <2>3
    <2>5. i \in DOMAIN assignments => row \in Assignments  BY <1>6, <2>2, <2>3
    <2>6. CASE i \in DOMAIN assignments
      <3>1. i \in 1..Len(assignments)  BY <2>1, <2>6
      <3> QED  BY <2>1, <2>4, <2>5, <2>6, <3>1, ExceptSeq
    <2>7. CASE i \notin DOMAIN assignments
      <3>1. assignments' = assignments  BY <2>1, <2>4, <2>7
      <3> QED  BY <2>1, <3>1
    <2> QED  BY <2>6, <2>7
  <1>8. record' \in Records /\ requests' \in Nat /\ failures' \in Nat
    BY <1>3 DEF WorkflowInv, Typed
  <1>9. PICK events \in Seq(Triggers) : events = EventsOf[q.kind]  BY <1>5
  <1>10. SetDisturbing(c, Publishing(events))  BY <1>3, <1>9
  <1>11. UNCHANGED <<rules, executions, Ghosts>>  BY <1>3
  <1>12. req[c].pc \in {"idle", "write"}  BY <1>1, <1>3
  <1> QED  BY <1>7, <1>8, <1>10, <1>11, <1>12, PublishingInv

LEMMA RulesInv ==
    ASSUME WorkflowInv, NEW c \in Clients, setRuleEnabled(c) \/ deleteRule(c)
    PROVE  WorkflowInv'
  <1>1. PICK r \in Rules, to \in {"enabled", "disabled", "deleted"} :
          /\ rules[r] # "deleted" /\ rules' = [rules EXCEPT ![r] = to]
          /\ IF to = "deleted" THEN executions' = {x \in executions : x[2] # r}
             ELSE executions' = executions
          /\ requests' = requests + 1
          /\ UNCHANGED <<record, assignments, req, Ghosts, failures>>
    <2>1. CASE setRuleEnabled(c)
      <3>1. PICK r \in Rules :
              /\ rules[r] # "deleted" /\ Begin(c)
              /\ rules' = [rules EXCEPT ![r] = IF @ = "enabled" THEN "disabled" ELSE "enabled"]
              /\ UNCHANGED <<record, assignments, executions, req, Ghosts, failures>>
        BY <2>1 DEF setRuleEnabled
      <3>2. PICK to \in {"enabled", "disabled"} :
              to = IF rules[r] = "enabled" THEN "disabled" ELSE "enabled"
        OBVIOUS
      <3>3. rules' = [rules EXCEPT ![r] = to]  BY <3>1, <3>2
      <3> QED  BY <3>1, <3>3 DEF Begin
    <2>2. CASE deleteRule(c)
      BY <2>2 DEF deleteRule, Begin
    <2> QED  BY <2>1, <2>2
  <1>2. /\ rules \in [Rules -> {"enabled", "disabled", "deleted"}]
        /\ Typed /\ Ledger /\ Unassigned
    BY DEF WorkflowInv, Typed
  <1>3. /\ rules' \in [Rules -> {"enabled", "disabled", "deleted"}] /\ rules'[r] = to
        /\ \A x \in Rules : x # r => rules'[x] = rules[x]
        /\ \A x \in Rules : rules[x] = "deleted" => rules'[x] = "deleted"
    BY <1>1, <1>2
  <1>4. \A x \in executions : x[2] # r => rules'[x[2]] # "deleted"
    BY <1>1, <1>2 DEF Ledger
  <1>5. executions' = {x \in executions : rules'[x[2]] # "deleted"}
    BY <1>1, <1>3, <1>4
  <1>6. UNCHANGED <<req, Ghosts>>  BY <1>1
  <1>7. Ledger'  BY <1>2, <1>3, <1>5, <1>6, LedgerRules
  <1>8. Typed'  BY <1>1, <1>2, <1>3 DEF Typed, Ghosts
  <1>9. Unassigned'
    BY <1>1, <1>2 DEF Unassigned, At, Assignees, IsActive
  <1> QED  BY <1>7, <1>8, <1>9 DEF WorkflowInv

----
(* The engine.                                                             *)

LEMMA OrdersAreSequences ==
    ASSUME NEW found \in SUBSET Rules, found # {}, NEW order \in Orders(found)
    PROVE  order \in Seq(Rules) /\ order # <<>> /\ Range(order) \subseteq found
  <1>1. IsFiniteSet(found)  BY FS_Subset, WorkflowAssumption
  <1>2. Cardinality(found) \in Nat  BY <1>1, FS_CardinalityType
  <1>3. Cardinality(found) # 0  BY <1>1, FS_EmptySet
  <1>4. PICK n \in Nat : n = Cardinality(found)  BY <1>2
  <1>5. order \in [1..n -> found]  BY <1>4 DEF Orders
  <1>6. order \in Seq(Rules) /\ DOMAIN order = 1..n  BY <1>5
  <1>7. order # <<>>  BY <1>3, <1>4, <1>6
  <1> QED  BY <1>5, <1>6, <1>7 DEF Range

LEMMA ListInv ==
    ASSUME WorkflowInv, NEW c \in Clients, listEnabledRulesByTrigger(c)
    PROVE  WorkflowInv'
  <1>1. PICK q : q = req[c]  OBVIOUS
  <1>2. Shape(q) /\ q \in Requests /\ q.pc = "publish" /\ q.events # <<>>
        /\ q.events \in Seq(Triggers)
    BY <1>1, Fitting DEF WorkflowInv, listEnabledRulesByTrigger, At, Shape, Requests
  <1>3. PICK type, rest : type = Head(q.events) /\ rest = Tail(q.events)  OBVIOUS
  <1>4. type \in Triggers /\ rest \in Seq(Triggers)
    BY <1>2, <1>3, HeadAndTail, Zenon
  <1>5. PICK found \in SUBSET Rules : found = Matching(type)  BY DEF Matching
  <1>6. PICK n : n = Len(published) + 1  OBVIOUS
  <1>7. /\ \/ found = {} /\ Set(c, Publishing(rest))
           \/ /\ found # {}
              /\ \E order \in Orders(found) :
                    Set(c, [q EXCEPT !.pc = "context", !.event = n, !.events = rest,
                                     !.rules = order])
        /\ published' = Append(published, [type |-> type, by |-> "user"])
        /\ loaded' = loaded \cup {<<n, r>> : r \in found}
        /\ UNCHANGED <<Tables, acted, crashed, requests, failures>>
    BY <1>1, <1>2, <1>3, <1>5, <1>6 DEF listEnabledRulesByTrigger, Requests
  <1>8. n \in Nat /\ n # 0  BY <1>6 DEF WorkflowInv, Typed
  <1>9. \E r : /\ Shape(r) /\ Set(c, r) /\ r.pc # "assign"
               /\ \/ r.event = 0 /\ Ahead(r) = {}
                  \/ r.event = n /\ Ahead(r) \subseteq found
    <2>1. CASE found = {} /\ Set(c, Publishing(rest))
      BY <1>4, <2>1, PublishingShape
    <2>2. CASE found # {}
      <3>1. PICK order \in Orders(found) :
              Set(c, [q EXCEPT !.pc = "context", !.event = n, !.events = rest,
                               !.rules = order])
        BY <1>7, <2>2
      <3>2. order \in Seq(Rules) /\ order # <<>> /\ Range(order) \subseteq found
        BY <2>2, OrdersAreSequences
      <3>3. PICK r : r = [q EXCEPT !.pc = "context", !.event = n, !.events = rest,
                                   !.rules = order]
        OBVIOUS
      <3>4. /\ r \in Requests /\ r.pc = "context" /\ r.event = n /\ r.rules = order
            /\ \A f \in {"kind", "user", "actions", "guard", "results"} : r[f] = q[f]
        BY <1>2, <1>4, <1>8, <3>2, <3>3 DEF Requests
      <3>5. q.results = <<>> /\ q.actions = <<>>
        BY <1>2 DEF Shape, Handling, Acting
      <3>6. Ahead(r) \subseteq found
        BY <3>2, <3>4, <3>5, RangeOfNothing DEF Ahead
      <3>7. Shape(r)  BY <1>2, <1>8, <3>2, <3>4, <3>5 DEF Shape, Acting, Handling
      <3> QED  BY <3>1, <3>3, <3>4, <3>6, <3>7
    <2> QED  BY <1>7, <2>1, <2>2
  <1>10. PICK r : /\ Shape(r) /\ Set(c, r) /\ r.pc # "assign"
                  /\ \/ r.event = 0 /\ Ahead(r) = {}
                     \/ r.event = n /\ Ahead(r) \subseteq found
    BY <1>9
  <1>11. Typed /\ Ledger /\ Unassigned  BY DEF WorkflowInv
  <1>12. r \in Requests /\ Moves(c, r)  BY <1>10 DEF Shape, Moves
  <1>13. q.event = 0  BY <1>2 DEF Shape, Handling, Acting
  <1>14. /\ UNCHANGED <<rules, executions, acted, crashed>>
         /\ record' = record /\ assignments' = assignments /\ rules' = rules
         /\ requests' = requests /\ failures' = failures
    BY <1>7 DEF Tables
  <1>15. published' \in Seq([type : Triggers, by : {"user", "rule"}])
    <2>1. PICK e \in [type : Triggers, by : {"user", "rule"}] :
            e = [type |-> type, by |-> "user"]
      BY <1>4
    <2>2. published' = Append(published, e)  BY <1>7, <2>1
    <2> QED  BY <1>11, <2>2 DEF Typed
  <1>16. Ledger'
    BY <1>1, <1>4, <1>6, <1>7, <1>10, <1>11, <1>12, <1>13, <1>14, LedgerLists
  <1>17. Typed'
    BY <1>10, <1>11, <1>12, <1>14, <1>15, TypedStep DEF Typed
  <1>18. Unassigned'
    BY <1>10, <1>11, <1>12, <1>14, UnassignedStep
  <1> QED  BY <1>16, <1>17, <1>18 DEF WorkflowInv

(* A statement of the engine that changes nothing but its request.         *)
LEMMA EngineInv ==
    ASSUME WorkflowInv, NEW c \in Clients, NEW r, Shape(r), Set(c, r),
           UNCHANGED <<Tables, Ghosts, requests, failures>>,
           r.pc # "assign" \/ Head(r.actions).value \notin Assignees,
           r.event = req[c].event, Ahead(r) = Ahead(req[c])
    PROVE  WorkflowInv'
  <1>1. /\ record' \in Records /\ assignments' = assignments
        /\ assignments' \in Seq(Assignments)
        /\ UNCHANGED <<rules, executions, Ghosts>>
        /\ requests' \in Nat /\ failures' \in Nat
    BY DEF Tables, WorkflowInv, Typed
  <1> QED  BY <1>1, QuietInv

LEMMA ContextInv ==
    ASSUME WorkflowInv, NEW c \in Clients, buildWorkflowEvaluationContext(c)
    PROVE  WorkflowInv'
  <1>1. PICK q : q = req[c]  OBVIOUS
  <1>2. Shape(q) /\ q \in Requests /\ q.pc = "context"
    BY <1>1, Fitting DEF WorkflowInv, buildWorkflowEvaluationContext, At
  <1>3. PICK k : k = [status |-> record.status, assignees |-> Assignees]  OBVIOUS
  <1>4. k \in Contexts
    <2>1. record.status \in Statuses  BY DEF WorkflowInv, Typed, Records
    <2>2. Assignees \subseteq Users
      <3>1. \A i \in DOMAIN assignments : assignments[i] \in Assignments
        BY DEF WorkflowInv, Typed
      <3> QED  BY <3>1 DEF Assignees, Assignments
    <2> QED  BY <1>3, <2>1, <2>2 DEF Contexts
  <1>5. PICK r : r = [q EXCEPT !.pc = "rules", !.context = k]  OBVIOUS
  <1>6. /\ r \in Requests /\ r.pc = "rules"
        /\ \A f \in {"event", "rules", "results", "actions", "guard"} : r[f] = q[f]
    BY <1>2, <1>4, <1>5 DEF Requests
  <1>7. q.actions = <<>> /\ q.guard = 0  BY <1>2 DEF Shape, Acting
  <1>8. Shape(r) /\ Ahead(r) = Ahead(q)
    BY <1>2, <1>6, <1>7, GoShape DEF Acting, Handling
  <1>9. Set(c, r) /\ UNCHANGED <<Tables, Ghosts, requests, failures>>
    BY <1>1, <1>3, <1>5 DEF buildWorkflowEvaluationContext
  <1> QED  BY <1>1, <1>6, <1>8, <1>9, EngineInv

LEMMA RunRuleInv ==
    ASSUME WorkflowInv, NEW c \in Clients, runRule(c)
    PROVE  WorkflowInv'
  <1>1. PICK q : q = req[c]  OBVIOUS
  <1>2. Shape(q) /\ q \in Requests /\ q.pc = "rules" /\ q.rules # <<>>
        /\ q.rules \in Seq(Rules) /\ q.actions = <<>> /\ q.guard = 0
    BY <1>1, Fitting DEF WorkflowInv, runRule, At, Shape, Requests, Acting, Handling
  <1>3. Head(q.rules) \in Rules  BY <1>2, HeadAndTail
  <1>4. PICK actions \in Seq(Actions) : actions = Rule[Head(q.rules)].actions
    BY <1>3, WorkflowAssumption
  <1>5. UNCHANGED <<Tables, Ghosts, requests, failures>>  BY DEF runRule
  <1>6. \/ \E status \in {"succeeded", "failed", "skipped"} : Set(c, AfterRule(q, status))
        \/ actions # <<>> /\ Set(c, [q EXCEPT !.pc = "act", !.actions = actions,
                                              !.guard = q.guard + 1])
    <2>1. PICK rule : rule = Rule[Head(q.rules)]  OBVIOUS
    <2>2. Set(c, IF ~Matches(q.context, rule.condition) THEN AfterRule(q, "skipped")
                 ELSE IF actions = <<>> THEN AfterRule(q, "succeeded")
                 ELSE [q EXCEPT !.pc = "act", !.actions = actions, !.guard = q.guard + 1])
      BY <1>1, <1>2, <1>4, <2>1 DEF runRule, Requests
    <2>3. CASE ~Matches(q.context, rule.condition)  BY <2>2, <2>3
    <2>4. CASE Matches(q.context, rule.condition) /\ actions = <<>>  BY <2>2, <2>4
    <2>5. CASE Matches(q.context, rule.condition) /\ actions # <<>>  BY <2>2, <2>5
    <2> QED  BY <2>3, <2>4, <2>5
  <1>7. CASE \E status \in {"succeeded", "failed", "skipped"} : Set(c, AfterRule(q, status))
    <2>1. PICK status \in {"succeeded", "failed", "skipped"} : Set(c, AfterRule(q, status))
      BY <1>7
    <2>3. PICK r : r = AfterRule(q, status)  OBVIOUS
    <2>2. Shape(r) /\ Ahead(r) = Ahead(q) /\ r.event = q.event /\ r.pc # "assign"
      BY <1>2, <2>3, AfterRuleShape
    <2> QED  BY <1>1, <1>5, <2>1, <2>2, <2>3, EngineInv
  <1>8. CASE actions # <<>> /\ Set(c, [q EXCEPT !.pc = "act", !.actions = actions,
                                                !.guard = q.guard + 1])
    <2>1. PICK r : r = [q EXCEPT !.pc = "act", !.actions = actions, !.guard = q.guard + 1]
      OBVIOUS
    <2>2. /\ r \in Requests /\ r.pc = "act" /\ r.actions = actions /\ r.guard = 1
          /\ \A f \in {"event", "rules", "results"} : r[f] = q[f]
      <3>1. q.guard + 1 = 1  BY <1>2
      <3>2. r = [q EXCEPT !.pc = "act", !.actions = actions, !.guard = 1]
        BY <2>1, <3>1, Zenon
      <3> QED  BY <1>2, <3>2 DEF Requests
    <2>3. Shape(r) /\ Ahead(r) = Ahead(q)
      BY <1>2, <1>8, <2>2, GoShape DEF Acting, Handling
    <2> QED  BY <1>1, <1>5, <1>8, <2>1, <2>2, <2>3, EngineInv
  <1> QED  BY <1>6, <1>7, <1>8

LEMMA AssignUserInv ==
    ASSUME WorkflowInv, NEW c \in Clients, assignUser(c)
    PROVE  WorkflowInv'
  <1>1. PICK q : q = req[c]  OBVIOUS
  <1>2. Shape(q) /\ q \in Requests /\ q.pc = "act" /\ Head(q.actions).kind = "assign"
    BY <1>1, Fitting DEF WorkflowInv, assignUser, At
  <1>3. UNCHANGED <<Tables, Ghosts, requests, failures>>  BY DEF assignUser
  <1>4. q.pc \in {"rules"} \cup Acting /\ q.pc \in Acting  BY <1>2 DEF Acting
  <1>5. PICK u : u = Head(q.actions).value  OBVIOUS
  <1>6. \/ Set(c, AfterRule(q, "failed"))
        \/ Set(c, AfterAction(q))
        \/ u \notin Assignees /\ Set(c, [q EXCEPT !.pc = "assign"])
    BY <1>1, <1>5 DEF assignUser, AfterFailure, IsAssigned
  <1>7. CASE Set(c, AfterRule(q, "failed"))
    <2>1. PICK r : r = AfterRule(q, "failed")  OBVIOUS
    <2>2. Shape(r) /\ Ahead(r) = Ahead(q) /\ r.event = q.event /\ r.pc # "assign"
      BY <1>2, <1>4, <2>1, AfterRuleShape
    <2> QED  BY <1>1, <1>3, <1>7, <2>1, <2>2, EngineInv
  <1>8. CASE Set(c, AfterAction(q))
    <2>1. PICK r : r = AfterAction(q)  OBVIOUS
    <2>2. Shape(r) /\ Ahead(r) = Ahead(q) /\ r.event = q.event /\ r.pc # "assign"
      BY <1>2, <1>4, <2>1, AfterActionShape
    <2> QED  BY <1>1, <1>3, <1>8, <2>1, <2>2, EngineInv
  <1>9. CASE u \notin Assignees /\ Set(c, [q EXCEPT !.pc = "assign"])
    <2>1. PICK r : r = [q EXCEPT !.pc = "assign"]  OBVIOUS
    <2>2. /\ r \in Requests /\ r.pc = "assign" /\ r.actions = q.actions
          /\ \A f \in {"event", "rules", "results", "guard"} : r[f] = q[f]
      BY <1>2, <2>1 DEF Requests
    <2>3. q.guard = 1 /\ q.actions # <<>>  BY <1>2, <1>4 DEF Shape
    <2>4. Shape(r) /\ Ahead(r) = Ahead(q)
      BY <1>2, <2>2, <2>3, GoShape DEF Acting, Handling
    <2> QED  BY <1>1, <1>3, <1>5, <1>9, <2>1, <2>2, <2>4, EngineInv
  <1> QED  BY <1>6, <1>7, <1>8, <1>9

LEMMA ReadRecordInv ==
    ASSUME WorkflowInv, NEW c \in Clients, readRecord(c)
    PROVE  WorkflowInv'
  <1>1. PICK q : q = req[c]  OBVIOUS
  <1>2. Shape(q) /\ q \in Requests /\ q.pc = "act" /\ Head(q.actions).kind = "status"
    BY <1>1, Fitting DEF WorkflowInv, readRecord, At
  <1>3. PICK o \in Users \cup {None} : o = record.owner
    BY DEF WorkflowInv, Typed, Records
  <1>4. PICK r : r = [q EXCEPT !.pc = "upsert", !.owner = o]  OBVIOUS
  <1>5. /\ r \in Requests /\ r.pc = "upsert" /\ r.actions = q.actions
        /\ \A f \in {"event", "rules", "results", "guard"} : r[f] = q[f]
    BY <1>2, <1>4 DEF Requests
  <1>6. q.guard = 1 /\ q.actions # <<>>  BY <1>2 DEF Shape, Acting
  <1>7. Shape(r) /\ Ahead(r) = Ahead(q)
    BY <1>2, <1>5, <1>6, GoShape DEF Acting, Handling
  <1>8. Set(c, r) /\ UNCHANGED <<Tables, Ghosts, requests, failures>>
    BY <1>1, <1>3, <1>4 DEF readRecord
  <1> QED  BY <1>1, <1>5, <1>7, <1>8, EngineInv

LEMMA InsertAssignmentInv ==
    ASSUME WorkflowInv, NEW c \in Clients, insertAssignment(c)
    PROVE  WorkflowInv'
  <1>1. PICK q : q = req[c]  OBVIOUS
  <1>2. Shape(q) /\ q \in Requests /\ q.pc = "assign" /\ q.pc \in Acting
    BY <1>1, Fitting DEF WorkflowInv, insertAssignment, At, Acting
  <1>3. PICK u : u = Head(q.actions).value  OBVIOUS
  <1>4. u \in Users
    <2>1. Head(q.actions).kind = "assign" /\ q.actions # <<>> /\ q.actions \in Seq(Actions)
      BY <1>2 DEF Shape, Requests
    <2>2. PICK a \in Actions : a = Head(q.actions)  BY <2>1, HeadAndTail
    <2>3. a.kind = "assign" /\ u = a.value  BY <1>3, <2>1, <2>2
    <2> QED  BY <2>3 DEF Actions
  <1>5. PICK r : r = AfterAction(q)  OBVIOUS
  <1>6. Shape(r) /\ Ahead(r) = Ahead(q) /\ r.event = q.event /\ r.pc # "assign"
        /\ r \in Requests
    BY <1>2, <1>5, AfterActionShape DEF Shape
  <1>7. /\ assignments' = Assigned(u) /\ SetDisturbing(c, r)
        /\ PublishFromAction(req[c], "assigned") /\ Act(c)
        /\ record' = record /\ rules' = rules /\ requests' = requests
        /\ failures' = failures /\ UNCHANGED <<rules, executions, crashed>>
    BY <1>1, <1>3, <1>5 DEF insertAssignment
  <1>8. Typed /\ Ledger /\ Unassigned /\ "assigned" \in Triggers
    BY DEF WorkflowInv, Triggers
  <1>9. Moves(c, r)  BY <1>7 DEF Moves
  <1>10. Ledger' /\ published' \in Seq([type : Triggers, by : {"user", "rule"}])
    BY <1>1, <1>2, <1>6, <1>7, <1>8, <1>9, LedgerActs
  <1>11. assignments' \in Seq(Assignments)  BY <1>4, <1>7, <1>8, AssignedType
  <1>12. Typed'
    BY <1>6, <1>7, <1>8, <1>9, <1>10, <1>11, TypedStep DEF Typed
  <1>13. Unassigned'  BY <1>6, <1>7, <1>8, UnassignedStep
  <1> QED  BY <1>10, <1>12, <1>13 DEF WorkflowInv

LEMMA UpsertRecordInv ==
    ASSUME WorkflowInv, NEW c \in Clients, upsertRecord(c)
    PROVE  WorkflowInv'
  <1>1. PICK q : q = req[c]  OBVIOUS
  <1>2. Shape(q) /\ q \in Requests /\ q.pc = "upsert" /\ q.pc \in Acting
    BY <1>1, Fitting DEF WorkflowInv, upsertRecord, At, Acting
  <1>3. PICK new : new = [status |-> Head(q.actions).value, owner |-> q.owner]  OBVIOUS
  <1>4. new \in Records
    <2>1. Head(q.actions).kind = "status" /\ q.actions # <<>> /\ q.actions \in Seq(Actions)
      BY <1>2 DEF Shape, Requests
    <2>2. PICK a \in Actions : a = Head(q.actions)  BY <2>1, HeadAndTail
    <2>3. a.kind = "status" /\ new = [status |-> a.value, owner |-> q.owner]
      BY <1>3, <2>1, <2>2
    <2>4. a.value \in Statuses  BY <2>3 DEF Actions
    <2> QED  BY <1>2, <2>3, <2>4 DEF Records, Requests
  <1>5. PICK r : r = AfterAction(q)  OBVIOUS
  <1>6. Shape(r) /\ Ahead(r) = Ahead(q) /\ r.event = q.event /\ r.pc # "assign"
        /\ r \in Requests
    BY <1>2, <1>5, AfterActionShape DEF Shape
  <1>7. /\ \/ record' = new /\ PublishFromAction(req[c], "updated") /\ Act(c)
           \/ UNCHANGED <<record, published, loaded, acted>>
        /\ Set(c, r) /\ assignments' = assignments /\ rules' = rules
        /\ requests' = requests /\ failures' = failures
        /\ UNCHANGED <<rules, executions, crashed>>
    BY <1>1, <1>3, <1>5 DEF upsertRecord
  <1>8. Typed /\ Ledger /\ Unassigned /\ "updated" \in Triggers
    BY DEF WorkflowInv, Triggers
  <1>9. Moves(c, r)  BY <1>7 DEF Moves
  <1>10. CASE record' = new /\ PublishFromAction(req[c], "updated") /\ Act(c)
    <2>1. Ledger' /\ published' \in Seq([type : Triggers, by : {"user", "rule"}])
      BY <1>1, <1>2, <1>6, <1>7, <1>8, <1>9, <1>10, LedgerActs
    <2>2. Typed'
      BY <1>4, <1>6, <1>7, <1>8, <1>9, <1>10, <2>1, TypedStep DEF Typed
    <2>3. Unassigned'  BY <1>6, <1>7, <1>8, UnassignedStep
    <2> QED  BY <2>1, <2>2, <2>3 DEF WorkflowInv
  <1>11. CASE UNCHANGED <<record, published, loaded, acted>>
    <2>1. UNCHANGED <<Tables, Ghosts, requests, failures>>
      BY <1>7, <1>11 DEF Tables, Ghosts
    <2> QED  BY <1>1, <1>6, <1>7, <2>1, EngineInv
  <1> QED  BY <1>7, <1>10, <1>11

LEMMA RecordExecutionInv ==
    ASSUME WorkflowInv, NEW c \in Clients, recordExecution(c)
    PROVE  WorkflowInv'
  <1>1. PICK q : q = req[c]  OBVIOUS
  <1>2. /\ Shape(q) /\ q \in Requests /\ q.pc = "record"
        /\ q.results # <<>> /\ q.results \in Seq(Results) /\ q.events \in Seq(Triggers)
        /\ q.rules = <<>> /\ q.event # 0 /\ q.actions = <<>>
    BY <1>1, Fitting
    DEF WorkflowInv, recordExecution, At, Shape, Requests, Results, Handling, Acting
  <1>3. PICK h, t : h = Head(q.results) /\ t = Tail(q.results)  OBVIOUS
  <1>4. h \in Results /\ t \in Seq(Results)  BY <1>2, <1>3, HeadAndTail, Zenon
  <1>5. PICK x \in Rules : x = h.rule  BY <1>4 DEF Results
  <1>6. RulesIn(q.results) = {x} \cup RulesIn(t)
    BY <1>2, <1>3, <1>5, RulesInTail, Zenon
  <1>7. Ahead(q) = {x} \cup RulesIn(t)  BY <1>2, <1>6, RangeOfNothing DEF Ahead
  <1>8. /\ Typed /\ Ledger /\ Unassigned
        /\ Accounts(q)
    BY <1>1 DEF WorkflowInv, Ledger
  <1>9. /\ record' = record /\ assignments' = assignments /\ rules' = rules
        /\ requests' = requests /\ failures' = failures /\ published' = published
        /\ loaded' = loaded /\ acted' = acted /\ crashed' = crashed
    BY DEF recordExecution, Ghosts
  <1>10. \/ /\ rules[x] # "deleted"
            /\ executions' = executions \cup {<<q.event, x>>}
            /\ Set(c, IF t = <<>> THEN Publishing(q.events) ELSE [q EXCEPT !.results = t])
         \/ /\ rules[x] = "deleted"
            /\ Set(c, Publishing(q.events)) /\ executions' = executions
    BY <1>1, <1>2, <1>3, <1>5 DEF recordExecution, AfterRefusal, Requests
  <1>11. PICK p : p = Publishing(q.events)  OBVIOUS
  <1>12. Shape(p) /\ Ahead(p) = {} /\ p.event = 0 /\ p.pc # "assign" /\ p \in Requests
    BY <1>2, <1>11, PublishingShape DEF Shape
  <1>13. \A y \in acted : y = <<y[1], y[2]>>  BY <1>8 DEF Ledger
  <1>14. CASE /\ rules[x] # "deleted" /\ t # <<>>
              /\ executions' = executions \cup {<<q.event, x>>}
              /\ Set(c, [q EXCEPT !.results = t])
    <2>1. PICK r : r = [q EXCEPT !.results = t]  OBVIOUS
    <2>2. /\ r \in Requests /\ r.pc = "record" /\ r.results = t
          /\ \A f \in {"event", "rules", "actions", "guard"} : r[f] = q[f]
      BY <1>2, <1>4, <2>1 DEF Requests, Results
    <2>3. Ahead(r) = RulesIn(t)  BY <1>2, <2>2, RangeOfNothing DEF Ahead
    <2>4. Shape(r)  BY <1>2, <1>14, <2>2 DEF Shape, Acting, Handling
    <2>5. Moves(c, r)  BY <1>14, <2>1 DEF Moves
    <2>6. r.event = q.event /\ Ahead(q) = {x} \cup Ahead(r)  BY <1>7, <2>2, <2>3
    <2>7. Ledger'
      BY <1>1, <1>2, <1>8, <1>9, <1>14, <2>2, <2>5, <2>6, LedgerRecords DEF Ghosts
    <2>8. Typed'  BY <1>8, <1>9, <2>4, <2>5, TypedStep DEF Typed
    <2>9. Unassigned'  BY <1>8, <1>9, <1>14, <2>1, <2>2, UnassignedStep
    <2> QED  BY <2>7, <2>8, <2>9 DEF WorkflowInv
  <1>15. CASE /\ rules[x] # "deleted" /\ t = <<>>
              /\ executions' = executions \cup {<<q.event, x>>} /\ Set(c, p)
    <2>1. Ahead(q) = {x}  BY <1>7, <1>15, RangeOfNothing
    <2>2. ASSUME NEW y \in acted, y[1] = q.event  PROVE Settled(y)'
      <3>1. Settled(y) \/ y[2] = x  BY <1>8, <2>1, <2>2 DEF Accounts
      <3>2. CASE Settled(y)  BY <1>9, <1>15, <3>2 DEF Settled
      <3>3. CASE y[2] = x  BY <1>13, <1>15, <2>2, <3>3 DEF Settled
      <3> QED  BY <3>1, <3>2, <3>3
    <2>3. Moves(c, p)  BY <1>15 DEF Moves
    <2>4. \A y \in executions' : y[1] \in DOMAIN published /\ rules[y[2]] # "deleted"
      BY <1>2, <1>8, <1>15 DEF Accounts, Ledger
    <2>5. Ledger'
      BY <1>1, <1>8, <1>9, <1>12, <1>15, <2>2, <2>3, <2>4, LedgerEnds DEF Ledger
    <2>6. Typed'  BY <1>8, <1>9, <1>12, <2>3, TypedStep DEF Typed
    <2>7. Unassigned'  BY <1>8, <1>9, <1>12, <1>15, UnassignedStep
    <2> QED  BY <2>5, <2>6, <2>7 DEF WorkflowInv
  <1>16. CASE /\ rules[x] = "deleted" /\ executions' = executions /\ Set(c, p)
    <2>1. <<q.event, x>> \in loaded  BY <1>7, <1>8 DEF Accounts
    <2>2. \A y \in acted : y[1] = q.event => Settled(y)'
      BY <1>9, <1>16, <2>1 DEF Settled
    <2>3. Moves(c, p)  BY <1>16 DEF Moves
    <2>4. Ledger'
      BY <1>1, <1>8, <1>9, <1>12, <1>16, <2>2, <2>3, LedgerEnds DEF Ledger
    <2>5. Typed'  BY <1>8, <1>9, <1>12, <2>3, TypedStep DEF Typed
    <2>6. Unassigned'  BY <1>8, <1>9, <1>12, <1>16, UnassignedStep
    <2> QED  BY <2>4, <2>5, <2>6 DEF WorkflowInv
  <1> QED  BY <1>10, <1>11, <1>14, <1>15, <1>16

LEMMA FailInv ==
    ASSUME WorkflowInv, NEW c \in Clients, fail(c)
    PROVE  WorkflowInv'
  <1>1. PICK e : e = req[c].event  OBVIOUS
  <1>2. /\ Set(c, Idle) /\ crashed' = crashed \cup ({e} \ {0})
        /\ record' = record /\ assignments' = assignments /\ rules' = rules
        /\ executions' = executions /\ published' = published /\ loaded' = loaded
        /\ acted' = acted /\ requests' = requests /\ failures' = failures + 1
    BY <1>1 DEF fail, Tables
  <1>3. Typed /\ Ledger /\ Unassigned /\ Accounts(req[c])
    BY DEF WorkflowInv, Ledger
  <1>4. Idle \in Requests /\ Moves(c, Idle)  BY <1>2, IdleShape DEF Shape, Moves
  <1>5. \A y \in acted : y[1] # 0  BY <1>3 DEF Ledger, Typed
  <1>6. \A y \in acted : y[1] = e => Settled(y)'  BY <1>2, <1>5 DEF Settled
  <1>7. crashed' \subseteq DOMAIN published  BY <1>1, <1>2, <1>3 DEF Accounts, Ledger
  <1>8. Ledger'
    BY <1>1, <1>2, <1>3, <1>4, <1>6, <1>7, IdleShape, LedgerEnds DEF Ledger
  <1>9. Typed'
    <2>1. /\ record' \in Records /\ assignments' \in Seq(Assignments)
          /\ rules' \in [Rules -> {"enabled", "disabled", "deleted"}]
          /\ published' \in Seq([type : Triggers, by : {"user", "rule"}])
          /\ requests' \in Nat /\ failures' \in Nat
      BY <1>2, <1>3 DEF Typed
    <2> QED  BY <1>3, <1>4, <2>1, IdleShape, TypedStep
  <1>10. Idle.pc # "assign"  BY IdleShape
  <1>11. Unassigned'  BY <1>2, <1>3, <1>4, <1>10, UnassignedStep
  <1> QED  BY <1>8, <1>9, <1>11 DEF WorkflowInv

----
(* The invariant.                                                          *)

LEMMA StepInv == WorkflowInv /\ [Next]_vars => WorkflowInv'
  <1> SUFFICES ASSUME WorkflowInv, [Next]_vars  PROVE WorkflowInv'
    OBVIOUS
  <1>1. CASE UNCHANGED vars
    <2>1. /\ record' = record /\ assignments' = assignments /\ rules' = rules
          /\ executions' = executions /\ req' = req /\ published' = published
          /\ loaded' = loaded /\ acted' = acted /\ crashed' = crashed
          /\ requests' = requests /\ failures' = failures
      BY <1>1 DEF vars
    <2>2. Typed'  BY <2>1 DEF WorkflowInv, Typed
    <2>3. Ledger'
      BY <2>1 DEF WorkflowInv, Ledger, Accounts, Settled, NoCascade, RunsAreRecorded
    <2>4. Unassigned'
      BY <2>1 DEF WorkflowInv, Unassigned, At, Assignees, IsActive
    <2> QED  BY <2>2, <2>3, <2>4 DEF WorkflowInv
  <1>2. ASSUME NEW c \in Clients, Action(c)  PROVE WorkflowInv'
    BY <1>2, SaveControlInv, CreateAssignmentInv, ReadAssignmentInv, RulesInv DEF Action
  <1>3. ASSUME NEW c \in Clients, Engine(c)  PROVE WorkflowInv'
    BY <1>3, ListInv, ContextInv, RunRuleInv, AssignUserInv, InsertAssignmentInv,
       ReadRecordInv, UpsertRecordInv, RecordExecutionInv DEF Engine
  <1>4. ASSUME NEW c \in Clients, writeAssignment(c) \/ fail(c)  PROVE WorkflowInv'
    BY <1>4, WriteAssignmentInv, FailInv
  <1> QED  BY <1>1, <1>2, <1>3, <1>4 DEF Next

LEMMA InitInv == Init => WorkflowInv
  <1> SUFFICES ASSUME Init  PROVE WorkflowInv
    OBVIOUS
  <1>1. /\ req = [c \in Clients |-> Idle] /\ executions = {} /\ published = <<>>
        /\ loaded = {} /\ acted = {} /\ crashed = {} /\ requests = 0 /\ failures = 0
        /\ rules = [r \in Rules |-> "enabled"]
    BY DEF Init
  <1>2. assignments \in Seq(Assignments)
    <2>1. PICK some \in SUBSET Members :
            assignments = SetToSeq({[assignee |-> u, completed |-> FALSE, removed |-> FALSE] :
                                       u \in some})
      BY DEF Init
    <2>2. PICK rows : rows = {[assignee |-> u, completed |-> FALSE, removed |-> FALSE] :
                                 u \in some}
      OBVIOUS
    <2>3. rows \subseteq Assignments
      <3>1. some \subseteq Users  BY WorkflowAssumption
      <3>2. \A u \in Users : [assignee |-> u, completed |-> FALSE, removed |-> FALSE]
                               \in Assignments
        BY DEF Assignments
      <3> QED  BY <2>2, <3>1, <3>2
    <2>4. IsFiniteSet(rows)
      <3>1. IsFiniteSet(some)  BY FS_Subset, WorkflowAssumption
      <3>2. PICK f : f = [u \in some |-> [assignee |-> u, completed |-> FALSE,
                                          removed |-> FALSE]]
        OBVIOUS
      <3>3. f \in Surjection(some, rows)  BY <2>2, <3>2 DEF Surjection
      <3> QED  BY <3>1, <3>3, FS_Surjection
    <2>5. PICK n \in Nat : n = Cardinality(rows) /\ ExistsBijection(1..n, rows)
      BY <2>4, FS_CardinalityType
    <2>6. \E f \in [1..n -> rows] : IsInjective(f)
      BY <2>5 DEF ExistsBijection, Bijection, Injection, IsInjective
    <2>7. SetToSeq(rows) \in [1..n -> rows]  BY <2>5, <2>6 DEF SetToSeq
    <2>8. assignments \in [1..n -> Assignments]  BY <2>1, <2>2, <2>3, <2>7
    <2> QED  BY <2>8
  <1>3. \A c \in Clients : req[c] = Idle  BY <1>1
  <1>4. Idle \in Requests /\ Shape(Idle)  BY IdleShape DEF Shape
  <1>5. record \in Records  BY DEF Init, Records
  <1>6. published \in Seq([type : Triggers, by : {"user", "rule"}])
    <2>1. \A S : <<>> \in Seq(S)  OBVIOUS
    <2> QED  BY <1>1, <2>1
  <1>7. Typed  BY <1>1, <1>2, <1>3, <1>4, <1>5, <1>6 DEF Typed
  <1>8. \A c \in Clients : Accounts(req[c])  BY <1>1, <1>3, IdleShape DEF Accounts
  <1>9. Ledger
    BY <1>1, <1>3, <1>8, IdleShape DEF Ledger, NoCascade, RunsAreRecorded
  <1>10. Unassigned  BY <1>3, IdleShape DEF Unassigned, At
  <1> QED  BY <1>7, <1>9, <1>10 DEF WorkflowInv

LEMMA Invariance == Spec => []WorkflowInv
  BY InitInv, StepInv, PTL DEF Spec

(* Every variable keeps its type; a request is under the cascade guard     *)
(* exactly while it has actions left to execute; an execution is of a      *)
(* published event and of a rule that is still there (the cascade of       *)
(* deleteRule), and only a rule that ran for an event has acted for it     *)
(* (engine.ts:129-258, the tables of workflow_executions).                 *)
THEOREM TypeCorrect == Spec => []TypeOK
  <1>1. WorkflowInv => TypeOK
    <2> SUFFICES ASSUME WorkflowInv  PROVE TypeOK
      OBVIOUS
    <2>1. (DOMAIN published) \X Rules \subseteq Runs
      BY DEF WorkflowInv, Typed, Runs
    <2> QED  BY <2>1 DEF WorkflowInv, Typed, Ledger, Shape, TypeOK
  <1> QED  BY <1>1, Invariance, PTL

(* The rules run only for events of users: what the action of a rule       *)
(* publishes finds the guard of its request closed (loop-guard.ts:26,      *)
(* engine.ts:258), for as many rules, actions and requests as there are.   *)
THEOREM RulesDoNotCascade == Spec => []NoCascade
  <1>1. WorkflowInv => NoCascade  BY DEF WorkflowInv, Ledger
  <1> QED  BY <1>1, Invariance, PTL

(* What a rule did for an event is on record once its request is over,     *)
(* unless the request failed or a rule of the event was deleted meanwhile: *)
(* a failed action, or rules skipped, lose nothing (engine.ts:129,         *)
(* runtime.ts:125).                                                        *)
THEOREM ActionsAreRecorded == Spec => []RunsAreRecorded
  <1>1. WorkflowInv => RunsAreRecorded  BY DEF WorkflowInv, Ledger
  <1> QED  BY <1>1, Invariance, PTL

(* A rule gives a user a second active assignment only when another        *)
(* request came between its reading of the assignments and its INSERT      *)
(* (action-executors.ts:108, 123).                                         *)
THEOREM AssignsOnce == Spec => AutomationAssignsOnce
  <1>1. WorkflowInv =>
          [\A c \in Clients :
              insertAssignment(c) /\ Head(req[c].actions).value \in Assignees
                => req[c].disturbed]_vars
    BY DEF WorkflowInv, Unassigned, insertAssignment
  <1> QED  BY <1>1, Invariance, PTL DEF AutomationAssignsOnce
====
