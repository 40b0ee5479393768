----------------------------- MODULE S3History ------------------------------
(***************************************************************************)
(* S3Backend with two history variables: for every List and Rmdir in       *)
(* progress the keys below its directory that were there all the time and  *)
(* those that were there at some time since the call; and what the paths   *)
(* of a List and the bytes of a read have to be.                           *)
(***************************************************************************)
EXTENDS S3Backend, S3Keys

VARIABLES must, may   \* [Goroutines -> SUBSET Keys]

hvars == <<vars, must, may>>

Watching(g) == call[g].op \in {"List", "Rmdir"} /\ at[g] \notin {"idle", "done"}
Seen(g)     == Below(Src(g)) \cap DOMAIN objects

HInit ==
  /\ Init
  /\ must = [g \in Goroutines |-> {}]
  /\ may  = [g \in Goroutines |-> {}]

HNext ==
  /\ Next
  /\ must' = [g \in Goroutines |->
       IF Watching(g) THEN must[g] \cap DOMAIN objects'
       ELSE IF Watching(g)' THEN Seen(g)' ELSE {}]
  /\ may' = [g \in Goroutines |->
       IF Watching(g) THEN may[g] \cup (Below(Src(g)) \cap DOMAIN objects')
       ELSE IF Watching(g)' THEN Seen(g)' ELSE {}]

HSpec == HInit /\ [][HNext]_hvars

\* List walks the pages of ListObjectsV2 while objects are written, moved and
\* deleted.  It reports every key below the prefix that was there from the call
\* to the answer, and none that never was.
ListComplete ==
  [][\A g \in Goroutines :
       (Watching(g) /\ call[g].op = "List" /\ at'[g] = "done" /\ res'[g] = "ok") =>
          must[g] \subseteq ans'[g] /\ ans'[g] \subseteq may[g]]_hvars

\* Rmdir looks at two keys and deletes the marker with a later request.  It does
\* not succeed on a directory that had an object in it all the time, whether
\* or not the directory has a marker.
RmdirNeedsEmpty ==
  [][\A g \in Goroutines :
       (Watching(g) /\ call[g].op = "Rmdir" /\ at'[g] = "done" /\ res'[g] = "ok") =>
          must[g] \cap Under[Src(g)] = {}]_hvars

\* What a read in progress rests on: with an offset and a limit it sends that
\* window of the object, the last byte included and none after it, up to the
\* largest window an int64 can name; and it fails exactly when the window begins
\* at or past the end of the object, an empty object included (NewReader).
RangeExact == (\E g \in Goroutines : at[g] = "get") => WindowsSent

\* What a List in progress rests on, whatever prefix is configured ("an optional
\* prefix for all keys"): a path that was written through the backend comes out
\* of List as it went in; List reports the paths with the given prefix and no
\* other, a slash at the end of that prefix counting only where no prefix is
\* configured; and the marker of a directory, named with or without a slash, is
\* the key of no object, while what List finds below the marker lies below that
\* directory (fullKey, List, Mkdir).
PathsAndKeysAgree ==
  (\E g \in Goroutines : at[g] = "list") =>
    WrittenReadBack /\ ListSelects /\ MarkersSelect /\ PrefixKept
=============================================================================
