----------------------------- MODULE GoRWMutex -----------------------------
(***************************************************************************)
(* The reader/writer lock of the Go runtime (sync.RWMutex) as the omnivault*)
(* and omnistorage providers use it: a lock is a record, an operation maps *)
(* a record to the next one.  The code is not in this repository; what is  *)
(* modelled is the documented hand-over that the providers rely on:        *)
(*   - Lock first becomes the only announced writer, then waits until the  *)
(*     readers that were active before it have left;                       *)
(*   - a reader that arrives while a writer is announced is parked;        *)
(*   - Unlock admits every parked reader before another writer.            *)
(***************************************************************************)

NoWriter == "no-writer"

Unlocked == [writer |-> NoWriter, readers |-> {}, parked |-> {}]

Locks(G) == [writer : G \cup {NoWriter}, readers : SUBSET G, parked : SUBSET G]

RLock(l, g) == IF l.writer = NoWriter
               THEN [l EXCEPT !.readers = @ \cup {g}]
               ELSE [l EXCEPT !.parked = @ \cup {g}]

RUnlock(l, g) == [l EXCEPT !.readers = @ \ {g}]

Lock(l, g) == [l EXCEPT !.writer = g]

Unlock(l, g) == [writer |-> NoWriter, readers |-> l.parked, parked |-> {}]

CanLock(l)       == l.writer = NoWriter
HoldsRead(l, g)  == g \in l.readers
HoldsWrite(l, g) == l.writer = g /\ l.readers = {}
=============================================================================
