-------------------------- MODULE MCParameterStore --------------------------
(***************************************************************************)
(* Values for the constants of ParameterStore and ParameterNames.          *)
(***************************************************************************)
EXTENDS ParameterHistory, TLC

CONSTANTS g1, g2, g3, r1, r2, p1, p2

TwoHomes == [g \in Goroutines |-> IF g = g3 THEN r2 ELSE r1]

\* g3 writes through a provider of its own.
Shared ==
  [g \in Goroutines |->
     CASE g = g1 -> {<<"GetVersion", p1>>, <<"ListVersions", p1>>, <<"List", p1>>, <<"Exists", p2>>}
       [] g = g2 -> {<<"Get", p1>>, <<"Set", p2>>, <<"Delete", p1>>, <<"Close", p1>>}
       [] OTHER  -> {<<"Set", p1>>, <<"Delete", p2>>}]

\* p1 is the path of both.
Hierarchy == [p \in Paths |-> IF p = p1 THEN Paths ELSE {p}]
OrderOf   == [p \in Paths |-> IF p = p1 THEN 1 ELSE 2]

Components   == {<<>>, <<"a">>, <<"/", "a">>, <<"/", "a", "/">>, <<"/", "a", "/", "b">>}
SomePrefixes == Components \cup {<<"/">>}
PlainPaths   == Components \cup {<<"b", "/", "a">>, <<"/", "b">>, <<"/", "a", "/", "a">>}
=============================================================================
