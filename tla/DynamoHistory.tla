--------------------------- MODULE DynamoHistory ----------------------------
(***************************************************************************)
(* DynamoMemory with two history variables: the expiry that Add gave each  *)
(* memory, and the views a List or Search may have been answered from.     *)
(***************************************************************************)
EXTENDS DynamoMemory

VARIABLES expiry,  \* [Ids -> Nat]: in ticks, as Add computed it
          seen     \* [Goroutines -> set of views]: what Query could read

hvars == <<vars, expiry, seen>>

HInit ==
  /\ Init
  /\ expiry = [id \in Ids |-> NoExpiry]
  /\ seen = [g \in Goroutines |-> {}]

HNext ==
  /\ Next
  /\ expiry' = [id \in Ids |->
       IF id \in given' \ given
       THEN (CHOOSE m \in {mem'[g] : g \in Goroutines} : m.id = id).expires
       ELSE expiry[id]]
  /\ seen' = [g \in Goroutines |->
       CASE at[g] = "query" /\ at'[g] = "filter" -> Views
         [] at[g] = "filter" /\ at'[g] = "filter" -> seen[g]
         [] OTHER -> {}]

HSpec == HInit /\ [][HNext]_hvars
-----------------------------------------------------------------------------
\* What request r is about, of the items of a view.
Live(i) == i.expires # NoExpiry => clock <= i.expires * TicksPerSecond

Wanted(r, view) ==
  {itemToMemory(i) : i \in
     {x \in view : /\ Live(x)
                   /\ x.tenant = r.tenant
                   /\ r.subject # <<>> => x.subject = r.subject
                   /\ r.kinds # {} => x.kind \in r.kinds}}

Answers(g, ops) == at[g] = "filter" /\ at'[g] = "done" /\ call[g].op \in ops

\* A memory with a TTL is never reported once the expiry that Add computed for it
\* has passed: Update neither extends nor drops it, and neither an item not yet
\* reaped nor a stale replica brings it back.
ExpiryIsFinal ==
  [][\A g \in Goroutines :
       (at[g] \in {"check", "filter"} /\ at'[g] = "done") =>
          \A m \in ans'[g] : expiry[m.id] # NoExpiry => clock <= expiry[m.id]]_hvars

\* List reports memories of the subject and types it was asked for, not expired,
\* all from one state of the table or its replica; "HasMore" says the page is
\* full and something was left out.
ListSound ==
  [][\A g \in Goroutines : Answers(g, {"List"}) =>
       \E view \in seen[g] :
         /\ ans'[g] \subseteq Wanted(call[g], view)
         /\ more'[g] => /\ Cardinality(ans'[g]) = ListLimit(g)
                        /\ ans'[g] # Wanted(call[g], view)]_hvars

\* The items that compete for the page of a search, expired ones and other types
\* among them, and how many of them a page holds at least if there are so many.
Siblings(r, view) ==
  {i \in view : i.tenant = r.tenant /\ (r.subject # <<>> => i.subject = r.subject)}

PageHolds == IF ListDefault < PageItems THEN ListDefault ELSE PageItems

\* Search and Recall report memories they were asked for, and pass one over only
\* for better ones, as many as the caller's limit, or because a whole default
\* page of the subject's items comes before it in the order of the sort keys:
\* the caller's limit cuts off what is scored, not what is read.
SearchMissesOnlyBeyondPage ==
  [][\A g \in Goroutines : Answers(g, Searches) =>
       \E view \in seen[g] :
         LET fit == Scored(g, Wanted(call[g], view))
             n   == SearchLimit(call[g].limit)
         IN /\ ans'[g] \subseteq fit /\ Cardinality(ans'[g]) <= n
            /\ \A m \in fit \ ans'[g] :
                 \/ /\ Cardinality(ans'[g]) = n
                    /\ \A x \in ans'[g] : ScoreOf(g, m) <= ScoreOf(g, x)
                 \/ PageHolds <= Cardinality({i \in Siblings(call[g], view) :
                                            Before(SortKey(m), SortKey(i))})]_hvars

\* What the documents say: "Query retrieves all memories for the tenant/subject",
\* so Search reports the best of all the subject's memories, not of some of them.
SearchReportsBest ==
  [][\A g \in Goroutines : Answers(g, Searches) =>
       \E view \in seen[g] :
         ans'[g] \in Best(g, Scored(g, Wanted(call[g], view)),
                          SearchLimit(call[g].limit))]_hvars
=============================================================================
