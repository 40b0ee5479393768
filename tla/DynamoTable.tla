----------------------------- MODULE DynamoTable ----------------------------
(***************************************************************************)
(* NewProvider with create_table set (omnimemory/dynamodb/dynamodb.go:     *)
(* createTableIfNotExists): several processes start on one table name, any *)
(* of them may crash at any point and start again.                         *)
(***************************************************************************)
EXTENDS Naturals

CONSTANTS Starters,
          MaxRestarts   \* bound: restarts of all starters

ASSUME TableAssumption == MaxRestarts \in Nat

VARIABLES
  table,     \* service: "absent", "creating", "active"
  ttl,       \* service: "off", "on"
  start,     \* [Starters -> step]
  creator,   \* [Starters -> BOOLEAN]: this start made the table
  restarts

tableVars == <<table, ttl, start, creator, restarts>>

StartSteps == {"describe", "create", "wait", "enableTTL", "ready", "failed", "crashed"}
Running == {"describe", "create", "wait", "enableTTL"}

Reach(s, step) == start' = [start EXCEPT ![s] = step]

TableInit ==
  /\ table = "absent" /\ ttl = "off"
  /\ start = [s \in Starters |-> "describe"]
  /\ creator = [s \in Starters |-> FALSE]
  /\ restarts = 0

Fault(s) == Reach(s, "failed")

\* A table that is still being created counts as one that exists.
DescribeTable(s) ==
  /\ start[s] = "describe"
  /\ \/ table # "absent" /\ Reach(s, "ready")
     \/ table = "absent" /\ Reach(s, "create")
     \/ Fault(s)
  /\ UNCHANGED <<table, ttl, creator, restarts>>

\* The service refuses to create a table that is there.
CreateTable(s) ==
  /\ start[s] = "create"
  /\ \/ /\ table = "absent"
        /\ table' = "creating"
        /\ \/ Reach(s, "wait") /\ creator' = [creator EXCEPT ![s] = TRUE]
           \/ Fault(s) /\ UNCHANGED creator
     \/ table # "absent" /\ Reach(s, "failed") /\ UNCHANGED <<table, creator>>
     \/ Fault(s) /\ UNCHANGED <<table, creator>>
  /\ UNCHANGED <<ttl, restarts>>

\* TableExistsWaiter, which gives up after two minutes.
WaitIgnoringErrors(s) ==
  /\ start[s] = "wait"
  /\ Reach(s, "enableTTL")
  /\ UNCHANGED <<table, ttl, creator, restarts>>

WaitWithoutTimeout(s) ==
  /\ start[s] = "wait"
  /\ table = "active"
  /\ Reach(s, "enableTTL")
  /\ UNCHANGED <<table, ttl, creator, restarts>>

Wait(s) ==
  /\ start[s] = "wait"
  /\ \/ table = "active" /\ Reach(s, "enableTTL")
     \/ Fault(s)
  /\ UNCHANGED <<table, ttl, creator, restarts>>

\* "already enabled" is no failure.
EnableTTLIgnoringErrors(s) ==
  /\ start[s] = "enableTTL"
  /\ \/ table = "active" /\ ttl' = "on"
     \/ UNCHANGED ttl
  /\ Reach(s, "ready")
  /\ UNCHANGED <<table, creator, restarts>>

EnableTTL(s) ==
  /\ start[s] = "enableTTL"
  /\ \/ /\ table = "active"
        /\ ttl' = "on"
        /\ Reach(s, "ready") \/ Fault(s)
     \/ Fault(s) /\ UNCHANGED ttl
  /\ UNCHANGED <<table, creator, restarts>>

Crash(s) ==
  /\ start[s] \in Running
  /\ Reach(s, "crashed")
  /\ creator' = [creator EXCEPT ![s] = FALSE]
  /\ UNCHANGED <<table, ttl, restarts>>

\* A program that crashed, or whose NewProvider failed, is started again.
Restart(s) ==
  /\ start[s] \in {"crashed", "failed"}
  /\ restarts < MaxRestarts
  /\ restarts' = restarts + 1
  /\ Reach(s, "describe")
  /\ creator' = [creator EXCEPT ![s] = FALSE]
  /\ UNCHANGED <<table, ttl>>

\* The service finishes creating the table.
Activate ==
  /\ table = "creating"
  /\ table' = "active"
  /\ UNCHANGED <<ttl, start, creator, restarts>>

Step(s) == DescribeTable(s) \/ CreateTable(s) \/ Wait(s) \/ EnableTTL(s)

TableNext == Activate \/ \E s \in Starters : Step(s) \/ Crash(s) \/ Restart(s)

TableSpec == TableInit /\ [][TableNext]_tableVars

\* A program that runs goes on.
StartSpec == TableSpec /\ \A s \in Starters : WF_tableVars(Step(s))

\* And the service finishes what it began.
LiveSpec == StartSpec /\ WF_tableVars(Activate)
-----------------------------------------------------------------------------
(* Properties.                                                             *)

\* Every variable has its type, and a starter waits only for a table that was
\* asked for, and sets the TTL only of one that is active.
TableTypeOK ==
  /\ table \in {"absent", "creating", "active"}
  /\ ttl \in {"off", "on"}
  /\ start \in [Starters -> StartSteps]
  /\ creator \in [Starters -> BOOLEAN]
  /\ restarts \in Nat
  /\ ttl = "on" => table = "active"
  /\ \A s \in Starters :
       /\ start[s] \in {"wait", "enableTTL"} => creator[s] /\ table # "absent"
       /\ start[s] = "enableTTL" => table = "active"

\* The start that made the table answers with a provider only when the table is
\* active and its expired memories will be deleted; and one start makes it,
\* however many see that it is missing.
CreatorReady ==
  /\ \A s \in Starters :
       creator[s] /\ start[s] = "ready" => table = "active" /\ ttl = "on"
  /\ \A s, t \in Starters : creator[s] /\ creator[t] => s = t

\* Every start comes to an end, a provider, an error or a crash, even if the
\* service never finishes the table.
EveryStartEnds ==
  \A s \in Starters : start[s] \in Running ~> start[s] \notin Running

\* "Built-in TTL for memory expiration": once a program has its provider, the
\* table comes to delete what has expired.
TTLComesOn == \A s \in Starters : start[s] = "ready" ~> ttl = "on"
=============================================================================
