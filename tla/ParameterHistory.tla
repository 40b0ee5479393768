-------------------------- MODULE ParameterHistory --------------------------
(***************************************************************************)
(* ParameterStore with two history variables: for every List in progress   *)
(* the parameters that were there all the time, and those that were there  *)
(* at some time, since the call; and the names List reports them by.       *)
(***************************************************************************)
EXTENDS ParameterStore, ParameterNames

VARIABLES must, may   \* [Goroutines -> SUBSET Paths]

hvars == <<vars, must, may>>

Live       == {p \in Paths : Found(p)}
Listing(g) == call[g].op = "List" /\ at[g] \notin {"idle", "done"}

HInit ==
  /\ Init
  /\ must = [g \in Goroutines |-> {}]
  /\ may  = [g \in Goroutines |-> {}]

HNext ==
  /\ Next
  /\ must' = [g \in Goroutines |->
                IF ~Listing(g)' THEN {} ELSE IF Listing(g) THEN must[g] \cap Live' ELSE Live']
  /\ may' = [g \in Goroutines |->
               IF ~Listing(g)' THEN {} ELSE IF Listing(g) THEN may[g] \cup Live' ELSE Live']

HSpec == HInit /\ [][HNext]_hvars

\* List reads page after page while parameters are set and deleted.  What it
\* answers has every name below the path that was there from the call to the
\* answer, and none that never was.
ListComplete ==
  [][\A g \in Goroutines :
       (Listing(g) /\ at'[g] = "done" /\ res'[g] = "ok") =>
          /\ must[g] \cap Under[Path(g)] \subseteq ans'[g]
          /\ ans'[g] \subseteq may[g] \cap Under[Path(g)]]_hvars

\* The name a List reports for a parameter leads back to that parameter when it
\* is given to Get, GetVersion, Set or Delete, with any configured prefix, with or
\* without a slash at its end (fullPath, stripPrefix).
NamesResolve == (\E g \in Goroutines : call[g].op = "List") => ReportedNamesResolve
=============================================================================
