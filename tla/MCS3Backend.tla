---------------------------- MODULE MCS3Backend -----------------------------
(* Values for the constants of S3Backend.                                  *)
EXTENDS S3Backend, TLC

CONSTANTS g1, g2, b1, a, b, c, d, dir

OneHome == [g \in Goroutines |-> b1]

Everything == [g \in Goroutines |->
                 {"Move", "Write", "CloseWriter"} \cup
                   IF g = g1 THEN {"List", "Rmdir", "NewWriter", "Close"}
                   ELSE {"Mkdir", "Copy", "NewReader", "Exists", "Stat", "Delete"}]

\* c is written and deleted, a and b are only moved.
Apart == [o \in PathOps |->
            IF o \in {"NewWriter", "Delete"} THEN {c} ELSE {a}]

\* dir holds a and b; its marker comes first.
InDir == [x \in Dirs |-> {a, b}]
Order == (dir :> 1) @@ (a :> 2) @@ (b :> 3) @@ (c :> 4) @@ (d :> 5)
OrderOf == [k \in Keys |-> Order[k]]

\* Within dir and out of it, and never in a circle.
Acyclic == {<<a, b>>, <<b, d>>}

\* The moves are as the theorem on MoveConserves wants them.
OriginOf == [k \in Keys |-> IF k \in {b, d} THEN a ELSE k]

ASSUME MovesAssumption == Undisturbed /\ Increasing(OrderOf) /\ Traced(OriginOf)
=============================================================================
