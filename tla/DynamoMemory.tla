---------------------------- MODULE DynamoMemory ----------------------------
(***************************************************************************)
(* The DynamoDB provider of omnimemory (omnimemory/dynamodb/dynamodb.go):  *)
(* memories in one table, shared by all the providers configured with it.  *)
(*                                                                         *)
(* The provider keeps no state and no lock: a method is a request or two,  *)
(* with what the embedder answers and what the clock says in between.      *)
(* Neither GetItem nor Query asks for consistent reads, so both may answer *)
(* from a replica that lags behind the table.                              *)
(*                                                                         *)
(* A memory's embedding is named after the content it was made from, its   *)
(* metadata are the set of its keys.  Type and scope, two filters of one   *)
(* kind, are one attribute here.  A subject is the sequence of its letters,*)
(* "#" among them.  Time runs in ticks, the table keeps whole seconds.     *)
(***************************************************************************)
EXTENDS Integers, Sequences, FiniteSets, SequencesExt

CONSTANTS
  Goroutines,
  Requests,        \* Requests[g]: what goroutine g may ask for
  Embeds,          \* Embeds[g]: g's provider has an embedder
  Names,           \* tenants, letters, kinds, contents, ids, keys of metadata
  Ids,             \* the ids uuid.New may give
  LetterOrder,     \* order of the letters of a sort key, an id being a letter
  Score,           \* Score[c]: cosine similarity of c's embedding to the query
  NoEmbedding,     \* a memory without embedding
  ListDefault,     \* 100
  SearchDefault,   \* 10
  MaxInt32,
  PageItems,       \* items that fit in the answer of a Query
  TicksPerSecond,
  MaxTime          \* bound: the clock stops here

VARIABLES
  items,    \* the table
  replica,  \* what an eventually consistent read may answer from
  clock,
  given,    \* ids given so far
  at,       \* [Goroutines -> step]
  call,     \* [Goroutines -> request]
  mem,      \* [Goroutines -> memory]: the one Add or Update will store
  page,     \* [Goroutines -> set of items]: what GetItem or Query answered
  res,      \* [Goroutines -> outcome]
  ans,      \* [Goroutines -> set of memories]
  more      \* [Goroutines -> BOOLEAN]: HasMore

service == <<items, replica, clock, given>>
callers == <<at, call, mem, page, res, ans, more>>
vars    == <<service, callers>>

\* Recall is a Search that asks for no scope and no threshold.
Searches == {"Search", "Recall"}
Ops      == {"Add", "Get", "Update", "Delete", "List"} \cup Searches
Steps    == {"idle", "embed", "get", "check", "put", "delete", "query",
             "filter", "done"}
Outcomes == {"none", "ok", "notfound", "invalid", "fault"}

NoTenant == "none"
NoExpiry == 0
NoMemory == [tenant |-> NoTenant, subject |-> <<>>, id |-> "none", kind |-> "none",
             content |-> "none", emb |-> NoEmbedding, meta |-> {},
             created |-> 0, expires |-> NoExpiry]
NoCall   == [op |-> "none"]

Memory == [tenant : Names, subject : Seq(Names), id : Names, kind : Names,
           content : Names, emb : Names, meta : SUBSET Names,
           created : Nat, expires : Nat]

\* The requests of core, without the fields that only travel along.
AddRequest    == [op : {"Add"}, tenant : Names, subject : Seq(Names), kind : Names,
                  content : Names, meta : SUBSET Names, ttl : Nat]
ItemRequest   == [op : {"Get", "Delete"}, tenant : Names, subject : Seq(Names),
                  id : Names]
UpdateRequest == [op : {"Update"}, tenant : Names, subject : Seq(Names), id : Names,
                  content : Names, meta : SUBSET Names]
ListRequest   == [op : {"List"}, tenant : Names, subject : Seq(Names),
                  kinds : SUBSET Names, limit : Int]
SearchRequest == [op : Searches, tenant : Names, subject : Seq(Names),
                  kinds : SUBSET Names, limit : Int, threshold : Int]
Request == AddRequest \cup ItemRequest \cup UpdateRequest \cup ListRequest
             \cup SearchRequest

ASSUME DynamoAssumption ==
  /\ Embeds \in [Goroutines -> BOOLEAN]
  /\ \A g \in Goroutines : Requests[g] \subseteq Request
  /\ Ids \subseteq Names /\ {"none", NoEmbedding} \subseteq Names
  /\ "none" \notin Ids
  /\ \A x, y \in Names \cup {"#"} :
       LetterOrder[x] \in Nat /\ (LetterOrder[x] = LetterOrder[y] => x = y)
  /\ {ListDefault, SearchDefault, PageItems, TicksPerSecond} \subseteq Nat \ {0}
  /\ MaxInt32 \in Nat /\ ListDefault < MaxInt32
  /\ MaxTime \in Nat

Goto(g, s) == at' = [at EXCEPT ![g] = s]

Answer(g, r, a, h) ==
  /\ Goto(g, "done")
  /\ res' = [res EXCEPT ![g] = r]
  /\ ans' = [ans EXCEPT ![g] = a]
  /\ more' = [more EXCEPT ![g] = h]
  /\ UNCHANGED <<call, mem, page>>

Fail(g, r) == Answer(g, r, {}, FALSE)

Proceed(g, s) == Goto(g, s) /\ UNCHANGED <<call, res, ans, more>>
-----------------------------------------------------------------------------
(* Keys, conversions and the clock.                                        *)

SortKey(m) == m.subject \o <<"#", m.id>>
SameKey(m, n) == m.tenant = n.tenant /\ SortKey(m) = SortKey(n)

Before(s, t) ==
  \E n \in 0..Len(s) :
    /\ n < Len(t)
    /\ SubSeq(s, 1, n) = SubSeq(t, 1, n)
    /\ n < Len(s) => LetterOrder[s[n + 1]] < LetterOrder[t[n + 1]]

\* The n items of S that come first in descending order of sort keys.
LastBySortKey(S, n) ==
  {m \in S : Cardinality({x \in S : Before(SortKey(m), SortKey(x))}) < n}

\* memoryToItem and itemToMemory: the table keeps Unix seconds.
memoryToItem(m) ==
  [m EXCEPT !.created = @ \div TicksPerSecond, !.expires = @ \div TicksPerSecond]

itemToMemory(i) ==
  [i EXCEPT !.created = @ * TicksPerSecond, !.expires = @ * TicksPerSecond]

Expired(m) == m.expires # NoExpiry /\ clock > m.expires

\* The item i replaces the one with its key.
PutItem(i)    == items' = {x \in items : ~SameKey(x, i)} \cup {i}
DeleteItem(i) == items' = {x \in items : ~SameKey(x, i)}

Views == {items, replica}
-----------------------------------------------------------------------------
Init ==
  /\ items = {} /\ replica = {}
  /\ clock = TicksPerSecond
  /\ given = {}
  /\ at = [g \in Goroutines |-> "idle"]
  /\ call = [g \in Goroutines |-> NoCall]
  /\ mem = [g \in Goroutines |-> NoMemory]
  /\ page = [g \in Goroutines |-> {}]
  /\ res = [g \in Goroutines |-> "none"]
  /\ ans = [g \in Goroutines |-> {}]
  /\ more = [g \in Goroutines |-> FALSE]

\* The memory Add makes: time.Now and uuid.New come before everything else.
NewMemory(r, id) ==
  [tenant |-> r.tenant, subject |-> r.subject, id |-> id, kind |-> r.kind,
   content |-> r.content, emb |-> NoEmbedding, meta |-> r.meta, created |-> clock,
   expires |-> IF r.ttl > 0 THEN clock + r.ttl ELSE NoExpiry]

FirstStepUpserting(g, r) ==
  CASE r.op = "Get" -> "get"   [] r.op = "Delete" -> "delete"
    [] r.op = "List" -> "query" [] r.op = "Update" -> "put"
    [] r.op = "Add" -> IF Embeds[g] THEN "embed" ELSE "put"
    [] r.op \in Searches -> IF Embeds[g] THEN "embed" ELSE "query"

FirstStep(g, r) ==
  CASE r.op \in {"Get", "Update"} -> "get"
    [] r.op = "Delete" -> "delete"
    [] r.op = "List"   -> "query"
    [] r.op = "Add"    -> IF Embeds[g] THEN "embed" ELSE "put"
    [] r.op \in Searches -> IF Embeds[g] THEN "embed" ELSE "query"

Invoke(g) ==
  /\ at[g] = "idle"
  /\ \E r \in Requests[g] :
       /\ call' = [call EXCEPT ![g] = r]
       /\ Goto(g, FirstStep(g, r))
       /\ IF r.op = "Add"
          THEN \E id \in Ids \ given :
                 /\ given' = given \cup {id}
                 /\ mem' = [mem EXCEPT ![g] = NewMemory(r, id)]
          ELSE UNCHANGED <<given, mem>>
  /\ UNCHANGED <<items, replica, clock, page, res, ans, more>>

\* The embedder: for the content of Add and Update, for the query of Search.
Embed(g) ==
  /\ at[g] = "embed"
  /\ \/ Fail(g, "fault")
     \/ /\ call[g].op \in Searches
        /\ Proceed(g, "query")
        /\ UNCHANGED <<mem, page>>
     \/ /\ call[g].op \notin Searches
        /\ mem' = [mem EXCEPT ![g].emb = call[g].content]
        /\ Proceed(g, "put")
        /\ UNCHANGED page
  /\ UNCHANGED service

\* Add and the end of Update.  A failed request may have been carried out.
Put(g) ==
  /\ at[g] = "put"
  /\ \/ /\ PutItem(memoryToItem(mem[g]))
        /\ Answer(g, "ok", {mem[g]}, FALSE) \/ Fail(g, "fault")
     \/ UNCHANGED items /\ Fail(g, "fault")
  /\ UNCHANGED <<replica, clock, given>>

Delete(g) ==
  /\ at[g] = "delete"
  /\ \/ DeleteItem(call[g]) /\ \E r \in {"ok", "fault"} : Fail(g, r)
     \/ UNCHANGED items /\ Fail(g, "fault")
  /\ UNCHANGED <<replica, clock, given>>

\* Get, also as the first half of Update.
GetItem(g) ==
  /\ at[g] = "get"
  /\ \/ \E view \in Views :
          LET found == {i \in view : SameKey(i, call[g])} IN
          \/ found = {} /\ Fail(g, "notfound")
          \/ /\ found # {}
             /\ page' = [page EXCEPT ![g] = found]
             /\ Proceed(g, "check")
             /\ UNCHANGED mem
     \/ Fail(g, "fault")
  /\ UNCHANGED service

\* Update: a new content or none, metadata merged key by key.
UpdatedForGood(m, r) ==
  [m EXCEPT !.content = IF r.content = "none" THEN @ ELSE r.content,
            !.meta = @ \cup r.meta, !.expires = NoExpiry]

Updated(m, r) ==
  [m EXCEPT !.content = IF r.content = "none" THEN @ ELSE r.content,
            !.meta = @ \cup r.meta]

AfterUpdateSkippingEmbedder(g, r) == "put"
AfterUpdate(g, r) == IF r.content # "none" /\ Embeds[g] THEN "embed" ELSE "put"

\* Get, and Update after its Get.
Check(g) ==
  /\ at[g] = "check"
  /\ \E i \in page[g] :
       \/ /\ Expired(itemToMemory(i))
          /\ Fail(g, "notfound")
       \/ /\ ~Expired(itemToMemory(i))
          /\ call[g].op = "Get"
          /\ Answer(g, "ok", {itemToMemory(i)}, FALSE)
  /\ UNCHANGED service

Update(g) ==
  /\ at[g] = "check"
  /\ call[g].op = "Update"
  /\ \E i \in page[g] :
       /\ ~Expired(itemToMemory(i))
       /\ mem' = [mem EXCEPT ![g] = Updated(itemToMemory(i), call[g])]
  /\ page' = [page EXCEPT ![g] = {}]
  /\ Proceed(g, AfterUpdate(g, call[g]))
  /\ UNCHANGED service

\* int32 arithmetic: a value above MaxInt32 comes out negative.
Wrap(n) == IF n > MaxInt32 THEN n - 2 * (MaxInt32 + 1) ELSE n

PageLimitUncapped(n) == IF n > 0 THEN Wrap(n) ELSE ListDefault

PageLimit(n) ==
  IF n > MaxInt32 - 1 THEN MaxInt32 - 1 ELSE IF n > 0 THEN n ELSE ListDefault

\* Search lists with limit 0.
ListLimit(g) == PageLimit(IF call[g].op = "List" THEN call[g].limit ELSE 0)

\* One more than the page, "to check HasMore".
QueryLimit(g) == Wrap(ListLimit(g) + 1)

SubjectPrefixBare(r) == r.subject
SubjectPrefix(r) == r.subject \o <<"#">>

\* The items a key condition selects: a tenant's, or a subject's of it.
Selected(r, S) ==
  {i \in S : /\ i.tenant = r.tenant
             /\ r.subject # <<>> => IsPrefix(SubjectPrefix(r), SortKey(i))}

\* One page of the service: Limit items at most, and no more than fit in it.
Query(g) ==
  /\ at[g] = "query"
  /\ \/ call[g].tenant = NoTenant /\ Fail(g, "invalid")
     \/ /\ call[g].tenant # NoTenant /\ QueryLimit(g) > 0
        /\ \E view \in Views, n \in {QueryLimit(g), PageItems} :
             /\ n <= QueryLimit(g) /\ n <= PageItems
             /\ page' = [page EXCEPT ![g] = LastBySortKey(Selected(call[g], view), n)]
        /\ Proceed(g, "filter")
        /\ UNCHANGED mem
     \/ call[g].tenant # NoTenant /\ Fail(g, "fault")
  /\ UNCHANGED service

\* The memories of S that a filter by type lets through at this time.
MatchingExpired(r, S) ==
  {m \in {itemToMemory(i) : i \in S} : r.kinds = {} \/ m.kind \in r.kinds}

Matching(r, S) ==
  {m \in {itemToMemory(i) : i \in S} :
     ~Expired(m) /\ (r.kinds = {} \/ m.kind \in r.kinds)}

HasMore(g) == Cardinality(Matching(call[g], page[g])) > ListLimit(g)
Listed(g)  == LastBySortKey(Matching(call[g], page[g]), ListLimit(g))

ScoreOf(g, m) == IF Embeds[g] /\ m.emb # NoEmbedding THEN Score[m.emb] ELSE 0

SearchLimit(n) == IF n > 0 THEN n ELSE SearchDefault

\* What sorting S by score and cutting it off may leave: equals in any order.
Best(g, S, n) ==
  {T \in SUBSET S :
     /\ Cardinality(T) = (IF Cardinality(S) > n THEN n ELSE Cardinality(S))
     /\ \A m \in T, x \in S \ T : ScoreOf(g, x) <= ScoreOf(g, m)}

Scored(g, S) ==
  {m \in S : call[g].threshold > 0 => ScoreOf(g, m) >= call[g].threshold}

\* The clock is read once the page is there.
List(g) ==
  /\ at[g] = "filter"
  /\ call[g].op = "List"
  /\ Answer(g, "ok", Listed(g), HasMore(g))
  /\ UNCHANGED service

Search(g) ==
  /\ at[g] = "filter"
  /\ call[g].op \in Searches
  /\ \E T \in Best(g, Scored(g, Listed(g)), SearchLimit(call[g].limit)) :
       Answer(g, "ok", T, FALSE)
  /\ UNCHANGED service

\* The caller has its answer and forgets it.
Return(g) ==
  /\ at[g] = "done"
  /\ Goto(g, "idle")
  /\ call' = [call EXCEPT ![g] = NoCall]
  /\ mem' = [mem EXCEPT ![g] = NoMemory]
  /\ page' = [page EXCEPT ![g] = {}]
  /\ res' = [res EXCEPT ![g] = "none"]
  /\ ans' = [ans EXCEPT ![g] = {}]
  /\ more' = [more EXCEPT ![g] = FALSE]
  /\ UNCHANGED service

-----------------------------------------------------------------------------
(* The service.                                                            *)

\* The replica catches up with one key of the table.
Replicate ==
  /\ \E i \in items \cup replica :
       replica' = {x \in replica : ~SameKey(x, i)} \cup {x \in items : SameKey(x, i)}
  /\ replica' # replica
  /\ UNCHANGED <<items, clock, given, callers>>

\* DynamoDB deletes expired items, at some time.
Reap ==
  /\ \E i \in items : Expired(itemToMemory(i)) /\ items' = items \ {i}
  /\ UNCHANGED <<replica, clock, given, callers>>

Tick ==
  /\ clock < MaxTime
  /\ clock' = clock + 1
  /\ UNCHANGED <<items, replica, given, callers>>

Next ==
  \/ \E g \in Goroutines :
       \/ Invoke(g)  \/ Embed(g)     \/ Put(g)   \/ Delete(g)
       \/ GetItem(g) \/ Check(g)     \/ Update(g)
       \/ Query(g)   \/ List(g)      \/ Search(g) \/ Return(g)
  \/ Replicate \/ Reap \/ Tick

Spec == Init /\ [][Next]_vars
-----------------------------------------------------------------------------
(* Properties.                                                             *)

\* The methods a step belongs to.
OpsAt(s) ==
  CASE s = "idle" -> {"none"}
    [] s = "done" -> Ops
    [] s = "embed" -> {"Add", "Update"} \cup Searches
    [] s \in {"get", "check"} -> {"Get", "Update"}
    [] s = "put" -> {"Add", "Update"}
    [] s = "delete" -> {"Delete"}
    [] s \in {"query", "filter"} -> {"List"} \cup Searches

ServiceOK ==
  /\ items \in SUBSET Memory /\ replica \in SUBSET Memory
  /\ \A view \in Views : \A i, j \in view : SameKey(i, j) => i = j
  /\ clock \in Nat
  /\ given \subseteq Ids

CallersOK ==
  /\ at \in [Goroutines -> Steps]
  /\ call \in [Goroutines -> Request \cup {NoCall}]
  /\ mem \in [Goroutines -> Memory]
  /\ page \in [Goroutines -> SUBSET Memory]
  /\ res \in [Goroutines -> Outcomes]
  /\ ans \in [Goroutines -> SUBSET Memory]
  /\ more \in [Goroutines -> BOOLEAN]

ControlOK ==
  \A g \in Goroutines :
    /\ call[g].op \in OpsAt(at[g])
    /\ at[g] = "put" /\ call[g].op = "Add" => mem[g].id \in given
    /\ at[g] = "put" /\ call[g].op = "Update" => SameKey(mem[g], call[g])

\* Every variable has its type, table and replica hold one item for a key at
\* most, every goroutine is at a step of its method, and what it is about to put
\* has the key its caller named or Add made up.
TypeOK == ServiceOK /\ CallersOK /\ ControlOK

\* "Regenerate embedding if content changed": an item's embedding is that of its
\* content, however Add and Update interleave, fail and read stale items.
EmbeddingFits ==
  \A i \in items \cup replica : i.emb # NoEmbedding => i.emb = i.content

\* A page that is asked for is one the service accepts, whatever limit the
\* caller gave: adding one to it never leaves int32.
PageInRange ==
  \A g \in Goroutines : at[g] = "query" => QueryLimit(g) \in 1..MaxInt32

\* "Update updates an existing memory": a step of Update never adds an item.
UpdateOnlyExisting ==
  [][\A g \in Goroutines :
       (at[g] = "put" /\ call[g].op = "Update" /\ items' # items) =>
          \E i \in items : SameKey(i, mem[g])]_vars
=============================================================================
