-------------------------- MODULE MCSecretsManager --------------------------
(***************************************************************************)
(* Values for the constants of SecretsManager.                             *)
(***************************************************************************)
EXTENDS SecretsManager, TLC

CONSTANTS g1, g2, g3, r1, r2, p1, p2, p3

\* Everyone on one provider; g1 and g2 on one, g3 on another.
OneHome == [g \in Goroutines |-> r1]
TwoHomes == [g \in Goroutines |-> IF g = g3 THEN r2 ELSE r1]

\* Every method, split between the callers.
Shared  == [g \in Goroutines |->
              CASE g = g1 -> {"Set", "Rotate", "GetVersion"}
                [] g = g2 -> {"Get", "Delete", "Exists", "List", "ListVersions", "Close"}
                [] OTHER  -> {"Set", "Delete"}]
\* One lists and rotates while the others set and delete.
Contending == [g \in Goroutines |->
                 CASE g = g1 -> {"List", "Rotate"}
                   [] g = g2 -> {"Set"}
                   [] OTHER  -> {"Set", "Delete"}]

\* p1 is a prefix of every name.
Prefixes == [p \in Paths |-> IF p = p1 THEN Paths ELSE {p}]
Order == (p1 :> 1) @@ (p2 :> 2) @@ (p3 :> 3)
OrderOf == [p \in Paths |-> Order[p]]
=============================================================================
