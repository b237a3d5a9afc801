---- MODULE MCParameters ----
(* A control whose statement inserts an aggregate, of a selection and an    *)
(* assignment, and a parameter that the second catalog drops; one choice of *)
(* the selection inserts a nested parameter.  Every kind of mapping for     *)
(* these, two for the nested one.                                           *)
EXTENDS Parameters, TLC

CONSTANTS text, aggregate, selection, assignment, inner, dropped

Mapped(basis, status, values) == [basis |-> basis, status |-> status, values |-> values]

Unassigned == Mapped("catalog-unassigned", "csp-organization-defined", {})
Unmapped == Mapped("control-level-unmapped", "csp-organization-defined", {})

Kinds ==
    {Unassigned, Unmapped,
     Mapped("control-level-unmapped", "authoritative-value-required", {}),
     Mapped("pinned-overlay-mapping", "baseline-inherited", {text}),
     Mapped("pinned-overlay-mapping", "baseline-inherited", {}),
     Mapped("pinned-overlay-mapping", "may-use-baseline", {text}),
     Mapped("pinned-overlay-mapping", "authoritative-value-required", {}),
     Mapped("pinned-overlay-mapping", "source-conflict", {})}

Release(catalog, inserts, choices, one, mapping, nested) ==
    [catalog |-> catalog, inserts |-> inserts,
     children |-> [p \in Params |-> IF p = aggregate THEN {selection, assignment} ELSE {}],
     choices |-> [p \in Params |-> IF p = selection THEN choices ELSE <<>>],
     one |-> [p \in Params |-> p = selection /\ one],
     mapping |-> [p \in Params |-> IF p = inner THEN nested ELSE mapping]]

MCReleases ==
    UNION {{Release(Params, {aggregate, dropped}, "0" :> {} @@ "1" :> {inner}, FALSE, a, b),
            Release(Params \ {dropped}, {aggregate}, "1" :> {inner}, TRUE, a, b)} :
              a \in Kinds, b \in {Unassigned, Unmapped}}

====
