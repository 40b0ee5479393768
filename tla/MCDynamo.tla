------------------------------ MODULE MCDynamo ------------------------------
(* Values for the constants of DynamoMemory.                               *)
EXTENDS DynamoHistory, TLC

CONSTANTS g1, g2

A  == <<"a">>
AB == <<"a", "b">>

Order  == ("#" :> 0) @@ ("u1" :> 1) @@ ("u2" :> 2) @@ ("u3" :> 3)
            @@ ("a" :> 11) @@ ("b" :> 12) @@ ("fact" :> 13) @@ ("none" :> 14)
            @@ ("note" :> 15) @@ ("t" :> 16) @@ ("x" :> 17) @@ ("y" :> 18)
Scores == ("x" :> 1) @@ ("y" :> 2)

AllNames == {"t", "a", "b", "u1", "u2", "u3", "fact", "note", "x", "y", "none"}

Add(s, k, c, t) ==
  [op |-> "Add", tenant |-> "t", subject |-> s, kind |-> k, content |-> c,
   meta |-> {}, ttl |-> t]
Get(s, id)    == [op |-> "Get", tenant |-> "t", subject |-> s, id |-> id]
Del(s, id)    == [op |-> "Delete", tenant |-> "t", subject |-> s, id |-> id]
Upd(s, id, c, k) ==
  [op |-> "Update", tenant |-> "t", subject |-> s, id |-> id, content |-> c, meta |-> k]
Lst(s, ks, n) ==
  [op |-> "List", tenant |-> "t", subject |-> s, kinds |-> ks, limit |-> n]
Sch(n, th) ==
  [op |-> "Search", tenant |-> "t", subject |-> A, kinds |-> {}, limit |-> n,
   threshold |-> th]
Rec(n) ==
  [op |-> "Recall", tenant |-> "t", subject |-> A, kinds |-> {}, limit |-> n,
   threshold |-> 0]
NoTenantList == [Lst(A, {}, 1) EXCEPT !.tenant = NoTenant]

AllEmbed == [g \in Goroutines |-> TRUE]

\* A memory with a lifetime and one of another subject and type: the first is
\* updated and deleted while both are read, listed and searched.
MemoryRequests == [g \in Goroutines |->
  IF g = g1
  THEN {Add(A, "fact", "x", 2), Add(AB, "note", "x", 0), Upd(A, "u1", "y", {})}
  ELSE {Get(A, "u1"), Del(A, "u1"), Lst(A, {}, 1), Lst(<<>>, {"note"}, 5),
        Sch(1, 2), Rec(1), NoTenantList}]

\* More memories of one subject than List's default page holds, one of them with
\* a lifetime and of another type.
SearchRequests == [g \in Goroutines |->
  IF g = g1
  THEN {Add(A, "fact", "x", 0), Add(A, "note", "y", 1)}
  ELSE {Sch(1, 2), Rec(1), [Rec(2) EXCEPT !.kinds = {"fact"}], Del(A, "u3")}]

UpdateRequests == [g \in Goroutines |->
  IF g = g1 THEN {Add(A, "fact", "x", 0), Upd(A, "u1", "y", {})}
  ELSE {Upd(A, "u1", "y", {}), Del(A, "u1")}]
=============================================================================
