---- MODULE MCProjectStore ----
(***************************************************************************)
(* ProjectStore on a small instance: two server actions at a time, two     *)
(* documents that differ in text and parameters, and two that fail         *)
(* validation.                                                             *)
(***************************************************************************)
EXTENDS ProjectStore, TLC

CONSTANTS c1, c2, n1, n2, t1, t2, t3, p1, p2

MCInputs == {[name |-> n1, text |-> t1, params |-> p1],
             [name |-> n1, text |-> t2, params |-> p2],
             [name |-> n1, text |-> t3, params |-> p1],
             [name |-> n1, text |-> t3, params |-> p2]}
MCUnwritable == {d \in MCInputs : d.text = t3}

(* Exchanging the clients, or t1 with t2 and p1 with p2 together, maps the  *)
(* instance to itself.                                                      *)
Contents == {t1, t2, p1, p2}
Exchange == [x \in Contents |-> CASE x = t1 -> t2 [] x = t2 -> t1
                                  [] x = p1 -> p2 [] x = p2 -> p1]
MCSymmetry == {clients @@ contents : clients \in Permutations({c1, c2}),
                                     contents \in {Exchange, [x \in Contents |-> x]}}
====
