---- MODULE Parameters ----
(***************************************************************************)
(* The organization-defined parameters of one control: what the catalog    *)
(* and the overlay say of them, the records that authors write in the      *)
(* parameter panel, and what the SSP makes of both.  A record outlives the *)
(* mapping it was written under: a new release of the generated framework  *)
(* meets the records of the old one.                                       *)
(*                                                                         *)
(* Abstractions.  A text is a name; the lines of a value are a set.  Notes *)
(* are left out.  Of the text of a catalog choice its key and what it      *)
(* inserts are kept; nobody types an insert.  Only authors who may edit.   *)
(* Operators named Faulty... are not the code: see ProjectStore.           *)
(***************************************************************************)
EXTENDS Naturals, FiniteSets

CONSTANTS Params,       \* parameter ids of the control, in any release
          Keys,         \* keys of catalog choices
          Lines, Blank, \* lines an author may type
          NoRecord,
          Releases      \* what the generated framework may say of the control

Authoritative == {"baseline-inherited", "overlay-explicit", "satisfied-by-overlay"}
FailClosed == {"authoritative-value-required", "source-conflict"}
AuthoritativeStatuses ==
    Authoritative \cup FailClosed
        \cup {"may-use-baseline", "csp-organization-defined", "not-indicated"}
MappingBases == {"catalog-unassigned", "control-level-unmapped", "pinned-overlay-mapping"}

Mappings == [basis : MappingBases, status : AuthoritativeStatuses, values : SUBSET Lines]

(* FrameworkControl.  choices[p] has no key if p is no selection.          *)
Frameworks ==
    [catalog : SUBSET Params, inserts : SUBSET Params,
     children : [Params -> SUBSET Params],
     choices : [Params -> UNION {[ks -> SUBSET Params] : ks \in SUBSET Keys}],
     one : [Params -> BOOLEAN],         \* howMany = "one"
     mapping : [Params -> Mappings]]

Inserted(f, p) == UNION {f.choices[p][k] : k \in DOMAIN f.choices[p]}

(* What holds of the pinned catalogs: inserts are parameters of the        *)
(* control, a choice outside of an aggregate inserts plain assignments,    *)
(* what an inserted aggregate is made of is in no choice, and the catalog  *)
(* alone leaves every parameter to the organization.                       *)
ASSUME ParametersAssumption ==
    /\ Blank \notin Lines /\ Keys \cap Lines = {} /\ IsFiniteSet(Params)
    /\ Releases \subseteq Frameworks
    /\ \A f \in Releases :
          /\ f.inserts \subseteq f.catalog
          /\ \A p \in f.catalog :
                /\ f.children[p] \cup Inserted(f, p) \subseteq f.catalog
                /\ f.children[p] = {} =>
                      \A q \in Inserted(f, p) : f.choices[q] = <<>> /\ f.children[q] = {}
                /\ \A q \in f.children[p] : f.children[q] = {}
          /\ \A p \in f.inserts : \A q \in f.children[p] :
                q \in f.inserts \/ \A s \in f.catalog : q \notin Inserted(f, s)
          /\ \A p \in Params : f.mapping[p].basis = "catalog-unassigned" =>
                                 f.mapping[p].status = "csp-organization-defined"

VARIABLES framework, parameterRecords

parametersVars == <<framework, parameterRecords>>

Intents == {"organization-defined", "accept-permitted-baseline", "dspav-assertion",
            "documented-deviation", "conflict-proceeding"}

(* ProjectParameterRecord; the form of a missing body is "none".           *)
ProjectRecords ==
    [intent : Intents, form : {"none", "assignment", "selection"},
     values : SUBSET (Lines \cup {Blank}), keys : SUBSET Keys]

ParametersTypeOK ==
    /\ framework \in Releases
    /\ parameterRecords \in [Params -> ProjectRecords \cup {NoRecord}]

ParametersInit ==
    /\ framework \in Releases
    /\ parameterRecords = [p \in Params |-> NoRecord]
----
Unresolved(reason) == [origin |-> "none", reason |-> reason, texts |-> {}, inserts |-> {}]
Value(origin, v) ==
    [origin |-> origin, reason |-> "", texts |-> v.texts, inserts |-> v.inserts]

NoValue == [texts |-> {}, inserts |-> {}]
Plain(texts) == [texts |-> texts, inserts |-> {}]

authoredValues(f, p, r) ==
    LET chosen == r.keys \cap DOMAIN f.choices[p]
    IN  CASE r.form = "none" -> NoValue
          [] r.form = "assignment" -> Plain(r.values)
          [] r.form = "selection" ->
                [texts |-> chosen, inserts |-> UNION {f.choices[p][k] : k \in chosen}]

frameworkStatusAllowsAuthoritativeSubstitution(m) ==
    m.basis = "pinned-overlay-mapping" /\ m.values # {} /\ m.status \in Authoritative

isOrganizationDefinedSlot(m) ==
    m.status = "csp-organization-defined" \/ m.basis = "catalog-unassigned"

(* DocumentationIsNoAnswer: what was written as a note is substituted.     *)
FaultyOwn(f, p, r) ==
    IF r = NoRecord THEN NoValue ELSE authoredValues(f, p, r)

(* The organization's own value, if there is one.                          *)
Own(f, p, r) ==
    IF r = NoRecord \/ r.intent # "organization-defined" THEN NoValue
    ELSE authoredValues(f, p, r)

(* The accepted baseline, if there is one.                                 *)
Accepted(f, p, r) ==
    IF r = NoRecord THEN NoValue
    ELSE IF r.intent # "accept-permitted-baseline" THEN NoValue
    ELSE IF authoredValues(f, p, r).texts # {} THEN authoredValues(f, p, r)
    ELSE Plain(f.mapping[p].values)

resolveParameter(f, p, r) ==
    LET m == f.mapping[p]
        own == Own(f, p, r)
        Or(origin, v, other) == IF v.texts # {} THEN Value(origin, v) ELSE other
    IN  IF p \notin f.catalog
        THEN Unresolved(IF r # NoRecord THEN "orphan" ELSE "missing-catalog")
        ELSE IF m.basis = "control-level-unmapped"
        THEN Unresolved(IF m.status \in FailClosed THEN m.status ELSE "control-level-unmapped")
        ELSE IF frameworkStatusAllowsAuthoritativeSubstitution(m)
        THEN Value("framework", Plain(m.values))
        ELSE IF m.status \in FailClosed THEN Unresolved(m.status)
        ELSE IF m.status = "may-use-baseline"
        THEN Or("accepted-baseline", Accepted(f, p, r),
                Or("project", own, Unresolved("may-use-baseline")))
        ELSE IF isOrganizationDefinedSlot(m)
        THEN Or("project", own, Unresolved("organization-defined"))
        ELSE Unresolved("organization-defined")

(* resolveControlParameters.                                               *)
Resolved(f, rs) == [p \in Params |-> resolveParameter(f, p, rs[p])]

parameterEditorMode(f, p, e) ==
    LET m == f.mapping[p]
    IN  IF p \notin f.catalog THEN "orphan"
        ELSE IF e.reason \in FailClosed THEN e.reason
        ELSE IF m.basis = "control-level-unmapped" THEN "control-level-unmapped"
        ELSE IF e.origin = "framework" THEN "framework-authoritative"
        ELSE IF m.status = "may-use-baseline" THEN "may-use-baseline"
        ELSE IF f.choices[p] # <<>> THEN "selection" ELSE "assignment"
----
Selects(f) == {p \in f.catalog : f.choices[p] # <<>>}

nestedOnlyParameterIds(f) == (UNION {Inserted(f, p) : p \in Selects(f)}) \ f.inserts

visibleAuthoringParameters(f) ==
    {p \in f.catalog : f.children[p] = {}} \ nestedOnlyParameterIds(f)

(* The choices that the record of p selects, in whatever mode p is.        *)
selectedNestedParameters(f, p, r) ==
    IF r = NoRecord THEN {}
    ELSE UNION {f.choices[p][k] : k \in r.keys \cap DOMAIN f.choices[p]}

(* UnresolvedIsCounted: nested parameters are not counted.                 *)
FaultyAuthorable(f, rs) == visibleAuthoringParameters(f)

(* currentlyAuthorableParameterIds.                                        *)
Authorable(f, rs) ==
    LET visible == visibleAuthoringParameters(f)
    IN  visible \cup UNION {selectedNestedParameters(f, p, rs[p]) : p \in visible}

(* parameterAuthoringSummary: what the caption says needs attention.       *)
NeedAttention(f, rs) == {p \in Authorable(f, rs) : Resolved(f, rs)[p].origin = "none"}
----
(* synthesizeControlStatement.  An aggregate inserts its children, and a   *)
(* resolved parameter what its value inserts.                              *)
Below(f, e, p) == IF f.children[p] # {} THEN f.children[p] ELSE e[p].inserts

Visited(f, rs) ==
    LET e == Resolved(f, rs)
        reached[n \in 0 .. Cardinality(Params)] ==
            IF n = 0 THEN f.inserts
            ELSE reached[n - 1] \cup UNION {Below(f, e, p) : p \in reached[n - 1]}
    IN  reached[Cardinality(Params)]

(* What the SSP says of this control, and what it lists as unresolved.     *)
Reported(f, rs) == {p \in Visited(f, rs) : f.children[p] = {}}

SspText(f, rs) ==
    [p \in Reported(f, rs) |-> <<Resolved(f, rs)[p].origin, Resolved(f, rs)[p].texts>>]

sspUnresolved(f, rs) == {p \in Reported(f, rs) : Resolved(f, rs)[p].origin = "none"}
----
persistAssignmentValues(lines) == lines \ {Blank}

NoBody(intent) == [intent |-> intent, form |-> "none", values |-> {}, keys |-> {}]

(* RecordsAreAccepted: an empty value is written as a body without lines.  *)
FaultyAssignment(intent, lines) ==
    [NoBody(intent) EXCEPT !.form = "assignment", !.values = persistAssignmentValues(lines)]

(* writeAssignment: an empty value of the organization removes the record. *)
Assignment(intent, lines) ==
    LET values == persistAssignmentValues(lines)
    IN  IF values # {}
        THEN [NoBody(intent) EXCEPT !.form = "assignment", !.values = values]
        ELSE IF intent = "organization-defined" THEN NoRecord ELSE NoBody(intent)

(* withCatalogSelection.                                                   *)
Selection(keys) ==
    IF keys = {} THEN NoRecord
    ELSE [NoBody("organization-defined") EXCEPT !.form = "selection", !.keys = keys]

Mode(p) == parameterEditorMode(framework, p, Resolved(framework, parameterRecords)[p])

(* A selection shows an editor for what its checked choices insert.        *)
Shown ==
    LET visible == visibleAuthoringParameters(framework)
        selections == {p \in visible : Mode(p) = "selection"}
    IN  visible \cup UNION {selectedNestedParameters(framework, p, parameterRecords[p]) :
                               p \in selections}

Write(p, r) ==
    parameterRecords' = [parameterRecords EXCEPT ![p] = r] /\ UNCHANGED framework

Field(p, mode, intent) ==
    /\ p \in Shown /\ Mode(p) = mode
    /\ \E lines \in SUBSET (Lines \cup {Blank}) : Write(p, Assignment(intent, lines))

documentDeviation(p) == Field(p, "framework-authoritative", "documented-deviation")
assertDspav(p) == Field(p, "authoritative-value-required", "dspav-assertion")
documentUnmapped(p) == Field(p, "control-level-unmapped", "organization-defined")
authorInsteadOfBaseline(p) == Field(p, "may-use-baseline", "organization-defined")
assign(p) == Field(p, "assignment", "organization-defined")

proceedInConflict(p) ==
    p \in Shown /\ Mode(p) = "source-conflict" /\ Write(p, NoBody("conflict-proceeding"))

acceptBaseline(p) ==
    /\ p \in Shown /\ Mode(p) = "may-use-baseline"
    /\ Write(p, NoBody("accept-permitted-baseline"))

clearAcceptance(p) ==
    /\ p \in Shown /\ Mode(p) = "may-use-baseline"
    /\ parameterRecords[p] # NoRecord
    /\ parameterRecords[p].intent = "accept-permitted-baseline"
    /\ Write(p, NoRecord)

choose(p) ==
    LET r == parameterRecords[p]
        selected == IF r = NoRecord THEN {} ELSE r.keys
    IN  /\ p \in Shown /\ Mode(p) = "selection"
        /\ \E k \in DOMAIN framework.choices[p] :
              Write(p, Selection(IF framework.one[p] THEN {k}
                                 ELSE IF k \in selected THEN selected \ {k}
                                 ELSE selected \cup {k}))

(* The framework is generated anew and deployed; records are kept, those   *)
(* of parameters that are gone too.                                        *)
release == framework' \in Releases \ {framework} /\ UNCHANGED parameterRecords

Author ==
    \E p \in Params :
        \/ documentDeviation(p) \/ assertDspav(p) \/ documentUnmapped(p)
        \/ authorInsteadOfBaseline(p) \/ assign(p) \/ proceedInConflict(p)
        \/ acceptBaseline(p) \/ clearAcceptance(p) \/ choose(p)

ParametersNext == Author \/ release

ParametersSpec == ParametersInit /\ [][ParametersNext]_parametersVars
----
(* parseBody: what a save makes of a record.                               *)
Accepts(r) == r.form = "assignment" => r.values \ {Blank} # {}
Parsed(r) == [r EXCEPT !.values = @ \ {Blank}]

(* The server's parser takes every record the panel writes as it is: one    *)
(* that it refused would make every further save of the project fail        *)
(* (ParameterAuthoringPanel.tsx:247, validation.ts:37, projects.ts:199).    *)
RecordsAreAccepted ==
    \A p \in Params : LET r == parameterRecords[p] IN
        r # NoRecord => Accepts(r) /\ Parsed(r) = r

(* Deviations, assertions and notes, and what is written where the         *)
(* framework decides or fails closed.                                      *)
IsDocumentation(p) ==
    LET m == framework.mapping[p]
        r == parameterRecords[p]
    IN  /\ r # NoRecord
        /\ \/ r.intent \in {"dspav-assertion", "documented-deviation", "conflict-proceeding"}
           \/ m.basis = "control-level-unmapped" \/ m.status \in FailClosed
           \/ m.status \in Authoritative /\ m.values # {}

(* The SSP reads as if documentation were not there, also when it was      *)
(* written under the mapping of an earlier release (ADR-032 in             *)
(* docs/decisions.md; parameter-resolution.ts:147).                        *)
DocumentationIsNoAnswer ==
    SspText(framework, parameterRecords)
        = SspText(framework, [p \in Params |-> IF IsDocumentation(p) THEN NoRecord
                                               ELSE parameterRecords[p]])

(* What the SSP lists as unresolved is what the panel says needs attention *)
(* (resolveStatement.ts:81 walks the inserts, parameter-authoring.ts:207   *)
(* the catalog): nothing is missing from the document that its authors are *)
(* not told of.                                                            *)
UnresolvedIsCounted ==
    sspUnresolved(framework, parameterRecords) \subseteq NeedAttention(framework, parameterRecords)

====
