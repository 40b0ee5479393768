------------------------- MODULE SecretsListHistory -------------------------
(***************************************************************************)
(* SecretsManager with two history variables that record, for every List   *)
(* in progress, which names were there all the time and which were there   *)
(* at some time since the call.  The code has no such state.               *)
(***************************************************************************)
EXTENDS SecretsManager

VARIABLES must, may   \* [Goroutines -> SUBSET Paths]

hvars == <<vars, must, may>>

Live == {p \in Paths : secrets[p] # {}}

Listing(g) == call[g].op = "List" /\ at[g] \notin {"idle", "done"}

HInit ==
  /\ Init
  /\ must = [g \in Goroutines |-> {}]
  /\ may  = [g \in Goroutines |-> {}]

HNext ==
  /\ Next
  /\ must' = [g \in Goroutines |->
       IF Listing(g) THEN must[g] \cap Live'
       ELSE IF Listing(g)' THEN Live' ELSE {}]
  /\ may' = [g \in Goroutines |->
       IF Listing(g) THEN may[g] \cup Live'
       ELSE IF Listing(g)' THEN Live' ELSE {}]

HSpec == HInit /\ [][HNext]_hvars

FairHSpec == HSpec /\ Fairness

\* List walks the pages of ListSecrets while other goroutines set and delete
\* secrets.  What it answers has every name with the prefix that was there from
\* the call to the answer, and none that never was.
ListComplete ==
  [][\A g \in Goroutines :
       (Listing(g) /\ at'[g] = "done" /\ res'[g] = "ok") =>
          /\ must[g] \cap Matches[Path(g)] \subseteq ans'[g]
          /\ ans'[g] \subseteq may[g] \cap Matches[Path(g)]]_hvars
=============================================================================
