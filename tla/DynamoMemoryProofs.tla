------------------------- MODULE DynamoMemoryProofs --------------------------
(***************************************************************************)
(* Proofs about DynamoMemory and DynamoHistory, for any number of          *)
(* goroutines, ids, requests and any limits and sizes of pages; and about  *)
(* DynamoTable, which makes the table they work on.                        *)
(***************************************************************************)
EXTENDS DynamoHistory, DynamoTable, FiniteSetTheorems, SequenceTheorems, WellFoundedInduction, TLAPS

-----------------------------------------------------------------------------
(* Conversions.                                                            *)

LEMMA SecondsAreNat ==
  ASSUME NEW n \in Nat
  PROVE  n \div TicksPerSecond \in Nat /\ n * TicksPerSecond \in Nat
  <1>1. TicksPerSecond \in Nat \ {0}
    BY DynamoAssumption
  <1> QED BY <1>1, SMTT(30)

\* Conversions change nothing but times.
LEMMA ToItem ==
  ASSUME NEW m \in Memory
  PROVE  /\ memoryToItem(m) \in Memory
         /\ memoryToItem(m).tenant = m.tenant /\ memoryToItem(m).subject = m.subject
         /\ memoryToItem(m).id = m.id
         /\ memoryToItem(m).content = m.content /\ memoryToItem(m).emb = m.emb
  <1>1. m.created \div TicksPerSecond \in Nat /\ m.expires \div TicksPerSecond \in Nat
    BY SecondsAreNat DEF Memory
  <1> QED BY <1>1 DEF memoryToItem, Memory

LEMMA ToMemory ==
  ASSUME NEW i \in Memory
  PROVE  /\ itemToMemory(i) \in Memory
         /\ itemToMemory(i).tenant = i.tenant /\ itemToMemory(i).subject = i.subject
         /\ itemToMemory(i).id = i.id
         /\ itemToMemory(i).content = i.content /\ itemToMemory(i).emb = i.emb
  <1>1. i.created * TicksPerSecond \in Nat /\ i.expires * TicksPerSecond \in Nat
    BY SecondsAreNat DEF Memory
  <1> QED BY <1>1 DEF itemToMemory, Memory

\* What a request holds follows from its method.
LEMMA RequestFields ==
  ASSUME NEW r \in Request
  PROVE  /\ r.op \in Ops
         /\ r.op = "Add" => r \in AddRequest
         /\ r.op = "Update" => r \in UpdateRequest
         /\ r.op \in {"Get", "Delete"} => r \in ItemRequest
         /\ r.op = "List" => r \in ListRequest
         /\ r.op \in Searches => r \in SearchRequest
  BY DEF Request, AddRequest, ItemRequest, UpdateRequest, ListRequest, SearchRequest,
         Searches, Ops

LEMMA MemoryOfFields ==
  ASSUME NEW t \in Names, NEW s \in Seq(Names), NEW id \in Names, NEW k \in Names,
         NEW c \in Names, NEW e \in Names, NEW ks \in SUBSET Names,
         NEW x \in Nat, NEW y \in Nat
  PROVE  [tenant |-> t, subject |-> s, id |-> id, kind |-> k, content |-> c,
          emb |-> e, meta |-> ks, created |-> x, expires |-> y] \in Memory
  BY DEF Memory

LEMMA NothingTypes == NoMemory \in Memory
  <1>1. <<>> \in Seq(Names) /\ {} \in SUBSET Names
    OBVIOUS
  <1>2. NoEmbedding \in Names /\ "none" \in Names /\ 0 \in Nat
    BY DynamoAssumption
  <1> QED BY <1>1, <1>2, MemoryOfFields, Zenon DEF NoMemory, NoTenant, NoExpiry

-----------------------------------------------------------------------------
(* Keys.                                                                   *)

LEMMA KeyEquivalence ==
  ASSUME NEW x, NEW y, NEW z
  PROVE  /\ SameKey(x, x)
         /\ SameKey(x, y) => SameKey(y, x)
         /\ SameKey(x, y) /\ SameKey(y, z) => SameKey(x, z)
  BY DEF SameKey

LEMMA KeyOfFields ==
  ASSUME NEW x, NEW y, x.tenant = y.tenant, x.subject = y.subject, x.id = y.id
  PROVE  SameKey(x, y)
  BY DEF SameKey, SortKey

\* A view holds one item for a key at most.
OnePerKey(view) == \A i, j \in view : SameKey(i, j) => i = j

LEMMA ReplacingKeepsKeys ==
  ASSUME NEW S, OnePerKey(S), NEW x
  PROVE  OnePerKey({y \in S : ~SameKey(y, x)} \cup {x})
  BY KeyEquivalence DEF OnePerKey

-----------------------------------------------------------------------------
(* Types.                                                                  *)

\* What a goroutine carries from step to step: the page of Get is about the key
\* it was asked for, and so is what Update made of it.
Carried ==
  \A g \in Goroutines :
    /\ at[g] = "check" => \A i \in page[g] : SameKey(i, call[g])
    /\ at[g] = "embed" /\ call[g].op = "Add" => mem[g].id \in given
    /\ at[g] = "embed" /\ call[g].op = "Update" => SameKey(mem[g], call[g])

IInv == TypeOK /\ Carried

\* An answer keeps the callers' types.
LEMMA AnswerTypes ==
  ASSUME IInv, NEW g \in Goroutines, at[g] # "idle", given \subseteq given',
         NEW r \in Outcomes, NEW a \in SUBSET Memory, NEW h \in BOOLEAN, Answer(g, r, a, h)
  PROVE  CallersOK' /\ ControlOK' /\ Carried'
  <1> USE DEF IInv, TypeOK
  <1>1. call[g].op \in Ops
    BY DEF ControlOK, CallersOK, OpsAt, Steps, Ops, Searches
  <1>2. /\ at' \in [Goroutines -> Steps] /\ at'[g] = "done"
        /\ \A k \in Goroutines \ {g} : at'[k] = at[k]
        /\ UNCHANGED <<call, mem, page>>
    BY DEF Answer, Goto, CallersOK, Steps
  <1>3. CallersOK'
    BY <1>2 DEF Answer, CallersOK
  <1>4. ControlOK'
    BY <1>1, <1>2 DEF ControlOK, OpsAt
  <1>5. Carried'
    BY <1>2 DEF Carried
  <1> QED BY <1>3, <1>4, <1>5

\* Sending a goroutine to another step of its method keeps them, too.
LEMMA ProceedTypes ==
  ASSUME IInv, NEW g \in Goroutines, NEW s \in Steps, Proceed(g, s),
         call[g].op \in OpsAt(s), given \subseteq given',
         mem' \in [Goroutines -> Memory], page' \in [Goroutines -> SUBSET Memory],
         \A h \in Goroutines \ {g} : mem'[h] = mem[h] /\ page'[h] = page[h],
         s = "check" => \A i \in page'[g] : SameKey(i, call[g]),
         s \in {"embed", "put"} =>
           /\ call[g].op = "Add" => mem'[g].id \in given
           /\ call[g].op = "Update" => SameKey(mem'[g], call[g])
  PROVE  CallersOK' /\ ControlOK' /\ Carried'
  <1> USE DEF IInv, TypeOK
  <1>1. /\ at' \in [Goroutines -> Steps] /\ at'[g] = s
        /\ \A k \in Goroutines \ {g} : at'[k] = at[k]
        /\ UNCHANGED <<call, res, ans, more>>
    BY DEF Proceed, Goto, CallersOK
  <1>2. CallersOK'
    BY <1>1 DEF CallersOK
  <1>3. ControlOK'
    BY <1>1 DEF ControlOK
  <1>4. Carried'
    BY <1>1 DEF Carried
  <1> QED BY <1>2, <1>3, <1>4

\* The steps that leave the service alone.
LEMMA ServiceKept ==
  ASSUME ServiceOK, UNCHANGED service
  PROVE  ServiceOK' /\ given \subseteq given'
  BY DEF ServiceOK, service, Views

LEMMA Inductive == Spec => []IInv
<1>1. Init => IInv
  <2> SUFFICES ASSUME Init PROVE IInv
    OBVIOUS
  <2>1. ServiceOK
    BY DynamoAssumption DEF Init, ServiceOK, Views
  <2>2. CallersOK
    BY NothingTypes DEF Init, CallersOK, Steps, Outcomes
  <2>3. ControlOK /\ Carried
    BY DEF Init, ControlOK, Carried, OpsAt, NoCall
  <2> QED BY <2>1, <2>2, <2>3 DEF IInv, TypeOK
<1>2. IInv /\ [Next]_vars => IInv'
  <2> SUFFICES ASSUME IInv, [Next]_vars PROVE IInv'
    OBVIOUS
  <2> USE DEF IInv, TypeOK
  <2>1. ASSUME NEW g \in Goroutines, Invoke(g) PROVE IInv'
    <3>1. PICK r \in Requests[g] :
            /\ call' = [call EXCEPT ![g] = r]
            /\ Goto(g, FirstStep(g, r))
            /\ IF r.op = "Add"
               THEN \E id \in Ids \ given :
                      /\ given' = given \cup {id}
                      /\ mem' = [mem EXCEPT ![g] = NewMemory(r, id)]
               ELSE UNCHANGED <<given, mem>>
      BY <2>1 DEF Invoke
    <3>2. r \in Request
      BY DynamoAssumption
    <3>3. /\ FirstStep(g, r) \in Steps
          /\ r.op \in OpsAt(FirstStep(g, r))
          /\ FirstStep(g, r) # "check"
          /\ FirstStep(g, r) \in {"embed", "put"} => r.op # "Update"
      BY <3>2, RequestFields DEF FirstStep, OpsAt, Ops, Searches, Steps
    <3>4. /\ mem' \in [Goroutines -> Memory]
          /\ given' \subseteq Ids /\ given \subseteq given'
          /\ r.op = "Add" => mem'[g].id \in given'
          /\ \A h \in Goroutines \ {g} : mem'[h] = mem[h]
      <4>1. CASE r.op = "Add"
        <5>1. PICK id \in Ids \ given :
                /\ given' = given \cup {id}
                /\ mem' = [mem EXCEPT ![g] = NewMemory(r, id)]
          BY <3>1, <4>1
        <5>2. r \in AddRequest
          BY <3>2, <4>1, RequestFields
        <5>3. NewMemory(r, id) \in Memory /\ NewMemory(r, id).id = id
          <6>1. clock \in Nat
            BY DEF ServiceOK
          <6>2. (IF r.ttl > 0 THEN clock + r.ttl ELSE NoExpiry) \in Nat
            BY <5>2, <6>1 DEF AddRequest, NoExpiry
          <6>3. /\ r.tenant \in Names /\ r.subject \in Seq(Names) /\ r.kind \in Names
                /\ r.content \in Names /\ r.meta \in SUBSET Names
            BY <5>2 DEF AddRequest
          <6>4. id \in Names /\ NoEmbedding \in Names
            BY DynamoAssumption
          <6>5. NewMemory(r, id) \in Memory
            BY <6>1, <6>2, <6>3, <6>4, MemoryOfFields, Zenon DEF NewMemory
          <6> QED BY <6>5 DEF NewMemory
        <5> QED BY <5>1, <5>3, DynamoAssumption DEF CallersOK, ServiceOK
      <4>2. CASE r.op # "Add"
        BY <3>1, <4>2 DEF CallersOK, ServiceOK
      <4> QED BY <4>1, <4>2
    <3>5. /\ call' \in [Goroutines -> Request \cup {NoCall}] /\ call'[g] = r
          /\ at' \in [Goroutines -> Steps] /\ at'[g] = FirstStep(g, r)
          /\ \A h \in Goroutines \ {g} : call'[h] = call[h] /\ at'[h] = at[h]
          /\ UNCHANGED <<items, replica, clock, page, res, ans, more>>
      BY <2>1, <3>1, <3>2, <3>3 DEF Goto, CallersOK, Invoke
    <3>6. ServiceOK'
      BY <3>4, <3>5 DEF ServiceOK, Views
    <3>7. CallersOK'
      BY <3>4, <3>5 DEF CallersOK
    <3>8. ControlOK'
      BY <3>3, <3>4, <3>5 DEF ControlOK
    <3>9. Carried'
      BY <3>3, <3>4, <3>5 DEF Carried
    <3> QED BY <3>6, <3>7, <3>8, <3>9
  <2>2. ASSUME NEW g \in Goroutines, Embed(g) PROVE IInv'
    <3>1. ServiceOK' /\ given \subseteq given' /\ at[g] = "embed"
      BY <2>2, ServiceKept DEF Embed
    <3>2. CASE Fail(g, "fault")
      BY <3>1, <3>2, AnswerTypes DEF Fail, Outcomes
    <3>3. CASE call[g].op \in Searches /\ Proceed(g, "query") /\ UNCHANGED <<mem, page>>
      <4>1. call[g].op \notin {"Add", "Update"} /\ call[g].op \in OpsAt("query")
        BY <3>3 DEF Searches, OpsAt
      <4> QED BY <3>1, <3>3, <4>1, ProceedTypes DEF Steps, CallersOK
    <3>4. CASE /\ call[g].op \notin Searches
               /\ mem' = [mem EXCEPT ![g].emb = call[g].content]
               /\ Proceed(g, "put") /\ UNCHANGED page
      <4>1. call[g].op \in {"Add", "Update"}
        BY <3>1, <3>4 DEF ControlOK, OpsAt
      <4>2. call[g].content \in Names
        BY <4>1, RequestFields DEF CallersOK, NoCall, AddRequest, UpdateRequest
      <4>3. /\ mem' \in [Goroutines -> Memory]
            /\ mem'[g].id = mem[g].id /\ mem'[g].tenant = mem[g].tenant
            /\ mem'[g].subject = mem[g].subject
            /\ \A h \in Goroutines \ {g} : mem'[h] = mem[h]
        <5> DEFINE m == [mem[g] EXCEPT !.emb = call[g].content]
        <5>1. mem[g] \in Memory /\ mem' = [mem EXCEPT ![g] = m]
          BY <3>4 DEF CallersOK
        <5>2. /\ m \in Memory
              /\ m.id = mem[g].id /\ m.tenant = mem[g].tenant /\ m.subject = mem[g].subject
          BY <4>2, <5>1 DEF Memory
        <5> HIDE DEF m
        <5> QED BY <5>1, <5>2 DEF CallersOK
      <4>4. call[g].op = "Update" => SameKey(mem'[g], call[g])
        BY <3>1, <4>3, KeyOfFields, KeyEquivalence DEF Carried
      <4>5. call[g].op = "Add" => mem'[g].id \in given
        BY <3>1, <4>3 DEF Carried
      <4>6. call[g].op \in OpsAt("put") /\ "put" \in Steps
        BY <4>1 DEF OpsAt, Steps
      <4>7. CallersOK' /\ ControlOK' /\ Carried'
        BY <3>1, <3>4, <4>3, <4>4, <4>5, <4>6, ProceedTypes DEF CallersOK
      <4> QED BY <3>1, <4>7
    <3> QED BY <2>2, <3>2, <3>3, <3>4 DEF Embed
  <2>3. ASSUME NEW g \in Goroutines, Put(g) PROVE IInv'
    <3>1. at[g] = "put" /\ UNCHANGED <<replica, clock, given>>
      BY <2>3 DEF Put
    <3>2. mem[g] \in Memory
      BY DEF CallersOK
    <3>3. \E r \in Outcomes, a \in SUBSET Memory, h \in BOOLEAN : Answer(g, r, a, h)
      BY <2>3, <3>2 DEF Put, Fail, Outcomes
    <3>4. CallersOK' /\ ControlOK' /\ Carried'
      BY <3>1, <3>3, AnswerTypes
    <3>5. ServiceOK'
      <4>1. CASE PutItem(memoryToItem(mem[g]))
        <5>1. memoryToItem(mem[g]) \in Memory
          BY <3>2, ToItem
        <5>2. OnePerKey(items) /\ OnePerKey(replica)
          BY DEF ServiceOK, Views, OnePerKey
        <5>3. OnePerKey(items') /\ items' \in SUBSET Memory
          BY <4>1, <5>1, <5>2, ReplacingKeepsKeys DEF PutItem, ServiceOK
        <5> QED BY <3>1, <5>2, <5>3 DEF ServiceOK, Views, OnePerKey
      <4>2. CASE UNCHANGED items
        BY <3>1, <4>2 DEF ServiceOK, Views
      <4> QED BY <2>3, <4>1, <4>2 DEF Put
    <3> QED BY <3>4, <3>5
  <2>4. ASSUME NEW g \in Goroutines, Delete(g) PROVE IInv'
    <3>1. at[g] = "delete" /\ UNCHANGED <<replica, clock, given>>
      BY <2>4 DEF Delete
    <3>2. \E r \in Outcomes : Answer(g, r, {}, FALSE)
      BY <2>4 DEF Delete, Fail, Outcomes
    <3>3. CallersOK' /\ ControlOK' /\ Carried'
      BY <3>1, <3>2, AnswerTypes
    <3>4. items' \subseteq items
      BY <2>4 DEF Delete, DeleteItem
    <3>5. ServiceOK'
      BY <3>1, <3>4 DEF ServiceOK, Views
    <3> QED BY <3>3, <3>5
  <2>5. ASSUME NEW g \in Goroutines, GetItem(g) PROVE IInv'
    <3>1. ServiceOK' /\ given \subseteq given' /\ at[g] = "get"
      BY <2>5, ServiceKept DEF GetItem
    <3>2. CASE \E r \in {"notfound", "fault"} : Fail(g, r)
      BY <3>1, <3>2, AnswerTypes DEF Fail, Outcomes
    <3>3. CASE \E view \in Views :
                 /\ page' = [page EXCEPT ![g] = {i \in view : SameKey(i, call[g])}]
                 /\ Proceed(g, "check")
                 /\ UNCHANGED mem
      <4>1. PICK view \in Views :
              page' = [page EXCEPT ![g] = {i \in view : SameKey(i, call[g])}]
        BY <3>3
      <4>2. view \subseteq Memory
        BY DEF Views, ServiceOK
      <4>3. /\ page' \in [Goroutines -> SUBSET Memory]
            /\ \A i \in page'[g] : SameKey(i, call[g])
            /\ \A h \in Goroutines \ {g} : page'[h] = page[h]
        BY <4>1, <4>2 DEF CallersOK
      <4>4. call[g].op \in OpsAt("check") /\ "check" \in Steps
        BY <3>1 DEF ControlOK, OpsAt, Steps
      <4>5. CallersOK' /\ ControlOK' /\ Carried'
        BY <3>1, <3>3, <4>3, <4>4, ProceedTypes DEF CallersOK
      <4> QED BY <3>1, <4>5
    <3> QED BY <2>5, <3>2, <3>3 DEF GetItem
  <2>6. ASSUME NEW g \in Goroutines, Check(g) PROVE IInv'
    <3>1. ServiceOK' /\ given \subseteq given' /\ at[g] = "check"
      BY <2>6, ServiceKept DEF Check
    <3>2. PICK i \in page[g] :
            Fail(g, "notfound") \/ Answer(g, "ok", {itemToMemory(i)}, FALSE)
      BY <2>6 DEF Check
    <3>3. itemToMemory(i) \in Memory
      BY ToMemory DEF CallersOK
    <3>4. CallersOK' /\ ControlOK' /\ Carried'
      BY <3>1, <3>2, <3>3, AnswerTypes DEF Fail, Outcomes
    <3> QED BY <3>1, <3>4
  <2>7. ASSUME NEW g \in Goroutines, Update(g) PROVE IInv'
    <3>1. /\ ServiceOK' /\ given \subseteq given' /\ at[g] = "check"
          /\ call[g].op = "Update" /\ page' = [page EXCEPT ![g] = {}]
          /\ Proceed(g, AfterUpdate(g, call[g]))
      BY <2>7, ServiceKept DEF Update
    <3>2. PICK i \in page[g] :
            mem' = [mem EXCEPT ![g] = Updated(itemToMemory(i), call[g])]
      BY <2>7 DEF Update
    <3>3. /\ itemToMemory(i) \in Memory
          /\ SameKey(itemToMemory(i), call[g])
      BY <3>1, ToMemory, KeyOfFields, KeyEquivalence DEF CallersOK, Carried
    <3>4. call[g] \in UpdateRequest
      BY <3>1, RequestFields DEF CallersOK, NoCall
    <3>5. ASSUME NEW m \in Memory
          PROVE  /\ Updated(m, call[g]) \in Memory
                 /\ SameKey(Updated(m, call[g]), m)
      <4>1. /\ Updated(m, call[g]) \in Memory
            /\ Updated(m, call[g]).tenant = m.tenant
            /\ Updated(m, call[g]).subject = m.subject
            /\ Updated(m, call[g]).id = m.id
        BY <3>4 DEF Updated, Memory, UpdateRequest
      <4> QED BY <4>1, KeyOfFields
    <3>6. /\ mem' \in [Goroutines -> Memory]
          /\ SameKey(mem'[g], call[g])
          /\ \A h \in Goroutines \ {g} : mem'[h] = mem[h]
      BY <3>2, <3>3, <3>5, KeyEquivalence DEF CallersOK
    <3>7. /\ page' \in [Goroutines -> SUBSET Memory]
          /\ \A h \in Goroutines \ {g} : page'[h] = page[h]
      BY <3>1 DEF CallersOK
    <3>8. /\ AfterUpdate(g, call[g]) \in {"embed", "put"}
          /\ AfterUpdate(g, call[g]) \in Steps
          /\ call[g].op \in OpsAt(AfterUpdate(g, call[g]))
      BY <3>1 DEF AfterUpdate, OpsAt, Steps
    <3>9. CallersOK' /\ ControlOK' /\ Carried'
      BY <3>1, <3>6, <3>7, <3>8, ProceedTypes
    <3> QED BY <3>1, <3>9
  <2>8. ASSUME NEW g \in Goroutines, Query(g) PROVE IInv'
    <3>1. ServiceOK' /\ given \subseteq given' /\ at[g] = "query"
      BY <2>8, ServiceKept DEF Query
    <3>2. CASE \E r \in {"invalid", "fault"} : Fail(g, r)
      BY <3>1, <3>2, AnswerTypes DEF Fail, Outcomes
    <3>3. CASE /\ \E view \in Views, n \in {QueryLimit(g), PageItems} :
                    page' = [page EXCEPT ![g] = LastBySortKey(Selected(call[g], view), n)]
               /\ Proceed(g, "filter")
               /\ UNCHANGED mem
      <4>1. PICK view \in Views, n \in {QueryLimit(g), PageItems} :
              page' = [page EXCEPT ![g] = LastBySortKey(Selected(call[g], view), n)]
        BY <3>3
      <4>2. LastBySortKey(Selected(call[g], view), n) \subseteq Memory
        BY DEF Views, ServiceOK, LastBySortKey, Selected
      <4>3. /\ page' \in [Goroutines -> SUBSET Memory]
            /\ \A h \in Goroutines \ {g} : page'[h] = page[h]
        BY <4>1, <4>2 DEF CallersOK
      <4>4. call[g].op \in OpsAt("filter") /\ "filter" \in Steps
        BY <3>1 DEF ControlOK, OpsAt, Steps
      <4>5. CallersOK' /\ ControlOK' /\ Carried'
        BY <3>1, <3>3, <4>3, <4>4, ProceedTypes DEF CallersOK
      <4> QED BY <3>1, <4>5
    <3> QED BY <2>8, <3>2, <3>3 DEF Query
  <2>9. ASSUME NEW g \in Goroutines, List(g) \/ Search(g) PROVE IInv'
    <3>1. ServiceOK' /\ given \subseteq given' /\ at[g] = "filter"
      BY <2>9, ServiceKept DEF List, Search
    <3>2. Listed(g) \subseteq Memory /\ HasMore(g) \in BOOLEAN
      BY ToMemory DEF Listed, HasMore, LastBySortKey, Matching, CallersOK
    <3>3. \E a \in SUBSET Memory, h \in BOOLEAN : Answer(g, "ok", a, h)
      <4>1. CASE List(g)
        BY <3>2, <4>1 DEF List
      <4>2. CASE Search(g)
        BY <3>2, <4>2 DEF Search, Best, Scored
      <4> QED BY <2>9, <4>1, <4>2
    <3>4. CallersOK' /\ ControlOK' /\ Carried'
      BY <3>1, <3>3, AnswerTypes DEF Outcomes
    <3> QED BY <3>1, <3>4
  <2>10. ASSUME NEW g \in Goroutines, Return(g) PROVE IInv'
    <3>1. ServiceOK'
      BY <2>10, ServiceKept DEF Return
    <3>2. /\ at' = [at EXCEPT ![g] = "idle"] /\ call' = [call EXCEPT ![g] = NoCall]
          /\ mem' = [mem EXCEPT ![g] = NoMemory] /\ given' = given
      BY <2>10 DEF Return, Goto, service
    <3>3. CallersOK'
      BY <2>10, NothingTypes DEF Return, Goto, CallersOK, Steps, Outcomes
    <3>4. NoCall.op \in OpsAt("idle")
      BY DEF NoCall, OpsAt
    <3>5. /\ at'[g] = "idle" /\ call'[g] = NoCall
          /\ \A h \in Goroutines \ {g} :
               at'[h] = at[h] /\ call'[h] = call[h] /\ mem'[h] = mem[h] /\ page'[h] = page[h]
      BY <2>10, <3>2 DEF Return, CallersOK
    <3>6. ControlOK'
      BY <3>2, <3>4, <3>5 DEF ControlOK
    <3>7. Carried'
      BY <3>2, <3>5 DEF Carried
    <3> QED BY <3>1, <3>3, <3>6, <3>7
  <2>11. ASSUME Replicate \/ Reap \/ Tick PROVE IInv'
    <3>1. UNCHANGED callers /\ given' = given
      BY <2>11 DEF Replicate, Reap, Tick
    <3>2. CallersOK' /\ ControlOK' /\ Carried'
      BY <3>1 DEF callers, CallersOK, ControlOK, Carried
    <3>3. OnePerKey(items) /\ OnePerKey(replica)
      BY DEF ServiceOK, Views, OnePerKey
    <3>4. CASE Replicate
      <4>1. PICK i \in items \cup replica :
              replica' = {x \in replica : ~SameKey(x, i)} \cup {x \in items : SameKey(x, i)}
        BY <3>4 DEF Replicate
      <4>2. OnePerKey({x \in replica : ~SameKey(x, i)} \cup {x \in items : SameKey(x, i)})
        BY <3>3, KeyEquivalence DEF OnePerKey
      <4>3. OnePerKey(replica') /\ replica' \in SUBSET Memory
        BY <4>1, <4>2 DEF ServiceOK
      <4>4. ServiceOK'
        BY <3>3, <3>4, <4>3 DEF Replicate, ServiceOK, Views, OnePerKey
      <4> QED BY <3>2, <4>4
    <3>5. CASE Reap \/ Tick
      BY <3>2, <3>5 DEF Reap, Tick, ServiceOK, Views
    <3> QED BY <2>11, <3>4, <3>5
  <2>12. CASE UNCHANGED vars
    BY <2>12 DEF vars, service, callers, ServiceOK, CallersOK, ControlOK, Carried, Views
  <2> QED BY <2>1, <2>2, <2>3, <2>4, <2>5, <2>6, <2>7, <2>8, <2>9, <2>10, <2>11, <2>12
          DEF Next
<1> QED BY <1>1, <1>2, PTL DEF Spec

\* Every variable has its type, keys are unique in the table and in the replica,
\* every goroutine is at a step of its method, and Put stores under the key that
\* the caller named or Add made up.
THEOREM TypeCorrect == Spec => []TypeOK
<1>1. IInv => TypeOK
  BY DEF IInv
<1> QED BY <1>1, Inductive, PTL

\* Whatever limit a caller gives, the page List or Search asks for is one the
\* service accepts: one more than the limit never leaves int32.
THEOREM PageRangeCorrect == Spec => []PageInRange
<1>1. TypeOK => PageInRange
  <2> SUFFICES ASSUME TypeOK, NEW g \in Goroutines, at[g] = "query"
               PROVE  QueryLimit(g) \in 1..MaxInt32
    BY DEF PageInRange
  <2>1. call[g].op \in {"List"} \cup Searches
    BY DEF TypeOK, ControlOK, OpsAt
  <2>2. ASSUME NEW n \in Int PROVE Wrap(PageLimit(n) + 1) \in 1..MaxInt32
    BY DynamoAssumption DEF PageLimit, Wrap
  <2>3. call[g].op = "List" => call[g].limit \in Int
    BY RequestFields DEF TypeOK, CallersOK, NoCall, ListRequest
  <2> QED BY <2>1, <2>2, <2>3 DEF QueryLimit, ListLimit
<1> QED BY <1>1, TypeCorrect, PTL
-----------------------------------------------------------------------------
(* Embeddings.                                                             *)

Fits(i) == i.emb # NoEmbedding => i.emb = i.content

\* What Put stores fits; so does what Get and Query found, from which Update
\* starts, and an embedder is asked for the content the memory already has.
EmbInv ==
  /\ \A i \in items \cup replica : Fits(i)
  /\ \A g \in Goroutines :
       /\ \A i \in page[g] : Fits(i)
       /\ at[g] = "put" => Fits(mem[g])
       /\ at[g] = "embed" /\ call[g].op \notin Searches => mem[g].content = call[g].content

\* GetItem and Query read what is in the table or its replica.
LEMMA PageIsRead ==
  ASSUME CallersOK, NEW g \in Goroutines, GetItem(g) \/ Query(g)
  PROVE  page'[g] = page[g] \/ page'[g] \subseteq items \cup replica
<1>1. CASE GetItem(g)
  BY <1>1 DEF GetItem, Fail, Answer, CallersOK, Views
<1>2. CASE Query(g)
  <2>1. CASE \E r \in {"invalid", "fault"} : Fail(g, r)
    BY <2>1 DEF Fail, Answer
  <2>2. CASE \E view \in Views, n \in {QueryLimit(g), PageItems} :
               page' = [page EXCEPT ![g] = LastBySortKey(Selected(call[g], view), n)]
    <3>1. PICK view \in Views, n \in {QueryLimit(g), PageItems} :
            page' = [page EXCEPT ![g] = LastBySortKey(Selected(call[g], view), n)]
      BY <2>2
    <3>2. LastBySortKey(Selected(call[g], view), n) \subseteq items \cup replica
      BY DEF Views, LastBySortKey, Selected
    <3> QED BY <3>1, <3>2 DEF CallersOK
  <2> QED BY <1>2, <2>1, <2>2 DEF Query
<1> QED BY <1>1, <1>2

\* Where every provider has an embedder, an item's embedding is that of its
\* content, however Adds and Updates interleave, fail and read stale items.
THEOREM EmbeddingCorrect ==
  ASSUME \A g \in Goroutines : Embeds[g]
  PROVE  Spec => []EmbeddingFits
<1>1. Init => EmbInv
  BY DEF Init, EmbInv, NoMemory, NoCall
<1>2. IInv /\ EmbInv /\ [Next]_vars => EmbInv'
  <2> SUFFICES ASSUME IInv, EmbInv, [Next]_vars PROVE EmbInv'
    OBVIOUS
  <2> USE DEF IInv, TypeOK, EmbInv
  <2>1. ASSUME NEW g \in Goroutines, Invoke(g) PROVE EmbInv'
    <3>1. PICK r \in Requests[g] :
            /\ call' = [call EXCEPT ![g] = r]
            /\ Goto(g, FirstStep(g, r))
            /\ IF r.op = "Add"
               THEN \E id \in Ids \ given : mem' = [mem EXCEPT ![g] = NewMemory(r, id)]
               ELSE mem' = mem
      BY <2>1 DEF Invoke
    <3>2. r.op \in Ops
      BY DynamoAssumption, RequestFields
    <3>3. /\ FirstStep(g, r) # "put"
          /\ FirstStep(g, r) = "embed" => r.op = "Add" \/ r.op \in Searches
      BY <3>2 DEF FirstStep, Ops, Searches
    <3>4. r.op = "Add" => mem'[g].content = r.content
      BY <3>1 DEF CallersOK, NewMemory
    <3>5. /\ call'[g] = r /\ at'[g] = FirstStep(g, r)
          /\ \A h \in Goroutines \ {g} :
               call'[h] = call[h] /\ at'[h] = at[h] /\ mem'[h] = mem[h]
          /\ UNCHANGED <<items, replica, page>>
      BY <2>1, <3>1 DEF Goto, CallersOK, Invoke
    <3> QED BY <3>3, <3>4, <3>5
  <2>2. ASSUME NEW g \in Goroutines, Embed(g) PROVE EmbInv'
    <3>1. /\ at[g] = "embed" /\ UNCHANGED <<items, replica, call, page>>
          /\ \A h \in Goroutines \ {g} : at'[h] = at[h] /\ mem'[h] = mem[h]
          /\ \/ at'[g] \in {"done", "query"}
             \/ at'[g] = "put" /\ Fits(mem'[g])
      <4>1. CASE \/ Fail(g, "fault")
                 \/ Proceed(g, "query") /\ UNCHANGED <<mem, page>>
        BY <2>2, <4>1 DEF Embed, Fail, Answer, Proceed, Goto, CallersOK, service
      <4>2. CASE /\ call[g].op \notin Searches /\ UNCHANGED page
                 /\ mem' = [mem EXCEPT ![g].emb = call[g].content]
                 /\ Proceed(g, "put")
        <5>1. mem'[g].emb = call[g].content /\ mem'[g].content = mem[g].content
          BY <4>2 DEF CallersOK, Memory
        <5>2. Fits(mem'[g])
          BY <2>2, <4>2, <5>1 DEF Fits, Embed
        <5> QED BY <2>2, <4>2, <5>2 DEF Embed, Proceed, Goto, CallersOK, service
      <4> QED BY <2>2, <4>1, <4>2 DEF Embed
    <3> QED BY <3>1
  <2>3. ASSUME NEW g \in Goroutines, Put(g) PROVE EmbInv'
    <3>1. /\ at[g] = "put" /\ at'[g] = "done" /\ UNCHANGED <<replica, call, mem, page>>
          /\ \A h \in Goroutines \ {g} : at'[h] = at[h]
      BY <2>3 DEF Put, Fail, Answer, Goto, CallersOK
    <3>2. Fits(memoryToItem(mem[g]))
      BY <3>1, ToItem DEF Fits, CallersOK
    <3>3. \A i \in items' : Fits(i)
      BY <2>3, <3>2 DEF Put, PutItem
    <3> QED BY <3>1, <3>3
  <2>4. ASSUME NEW g \in Goroutines, GetItem(g) \/ Query(g) PROVE EmbInv'
    <3>1. /\ UNCHANGED <<items, replica, call, mem>>
          /\ at'[g] \in {"done", "check", "filter"}
          /\ \A h \in Goroutines \ {g} : at'[h] = at[h] /\ page'[h] = page[h]
      BY <2>4 DEF GetItem, Query, Fail, Answer, Proceed, Goto, CallersOK, service
    <3>2. page'[g] = page[g] \/ page'[g] \subseteq items \cup replica
      BY <2>4, PageIsRead
    <3> QED BY <3>1, <3>2
  <2>5. ASSUME NEW g \in Goroutines, Update(g) PROVE EmbInv'
    <3>1. PICK i \in page[g] :
            mem' = [mem EXCEPT ![g] = Updated(itemToMemory(i), call[g])]
      BY <2>5 DEF Update
    <3>2. /\ call[g].op = "Update" /\ at'[g] = AfterUpdate(g, call[g]) /\ page'[g] = {}
          /\ UNCHANGED <<items, replica, call>>
          /\ \A h \in Goroutines \ {g} :
               at'[h] = at[h] /\ mem'[h] = mem[h] /\ page'[h] = page[h]
      BY <2>5, <3>1 DEF Update, Proceed, Goto, CallersOK, service
    <3>3. itemToMemory(i) \in Memory /\ Fits(itemToMemory(i))
      BY ToMemory DEF Fits, CallersOK
    <3>4. /\ mem'[g].content = IF call[g].content = "none" THEN itemToMemory(i).content
                               ELSE call[g].content
          /\ mem'[g].emb = itemToMemory(i).emb
      BY <3>1, <3>3 DEF Updated, CallersOK, Memory
    <3>5. CASE call[g].content = "none"
      BY <3>2, <3>3, <3>4, <3>5 DEF Fits, AfterUpdate
    <3>6. CASE call[g].content # "none"
      BY <3>2, <3>4, <3>6 DEF AfterUpdate
    <3> QED BY <3>5, <3>6
  <2>6. ASSUME NEW g \in Goroutines,
               \/ Delete(g) \/ Check(g) \/ List(g) \/ Search(g) \/ Return(g)
        PROVE  EmbInv'
    <3>1. /\ items' \subseteq items /\ replica' = replica
          /\ at'[g] \in {"done", "idle"} /\ page'[g] \subseteq page[g]
          /\ \A h \in Goroutines \ {g} :
               at'[h] = at[h] /\ call'[h] = call[h] /\ mem'[h] = mem[h] /\ page'[h] = page[h]
      BY <2>6 DEF Delete, DeleteItem, Check, List, Search, Return, Fail, Answer, Goto,
           CallersOK, service
    <3> QED BY <3>1
  <2>7. ASSUME Replicate \/ Reap \/ Tick PROVE EmbInv'
    <3>1. /\ UNCHANGED <<at, call, mem, page>>
          /\ items' \subseteq items /\ replica' \subseteq items \cup replica
      BY <2>7 DEF Replicate, Reap, Tick, callers
    <3> QED BY <3>1
  <2>8. CASE UNCHANGED vars
    BY <2>8 DEF vars, service, callers
  <2> QED BY <2>1, <2>2, <2>3, <2>4, <2>5, <2>6, <2>7, <2>8 DEF Next
<1>3. EmbInv => EmbeddingFits
  BY DEF EmbInv, EmbeddingFits, Fits
<1> QED BY <1>1, <1>2, <1>3, Inductive, PTL DEF Spec
-----------------------------------------------------------------------------
(* Expiry.                                                                 *)

\* DynamoHistory only watches.
LEMMA HistoryTypes == HSpec => []IInv
<1>1. HInit => Init
  BY DEF HInit
<1>2. [HNext]_hvars => [Next]_vars
  BY DEF HNext, hvars
<1> QED BY <1>1, <1>2, Inductive, PTL DEF HSpec, Spec

\* A copy of a memory with a lifetime has one too, which ends no later.
Late(m) == expiry[m.id] # NoExpiry => TicksPerSecond <= m.expires /\ m.expires <= expiry[m.id]

DueRight(i) == i.id \in given /\ Late(itemToMemory(i))

\* Every copy that is stored, was read or is about to be stored is of a memory
\* that Add began, and ends with it.  There are seconds before the first one.
ExpiryInv ==
  /\ clock >= TicksPerSecond
  /\ expiry \in [Ids -> Nat]
  /\ \A i \in items \cup replica : DueRight(i)
  /\ \A g \in Goroutines :
       /\ mem[g] = NoMemory \/ mem[g].id \in given
       /\ \A i \in page[g] : DueRight(i)
       /\ at[g] \in {"embed", "put"} /\ call[g].op \notin Searches =>
            mem[g].id \in given /\ Late(mem[g])

\* Rounding down to seconds loses less than one.
LEMMA RoundedDown ==
  ASSUME NEW n \in Nat \ {0}, NEW t \in Nat, n <= t
  PROVE  n <= (t \div n) * n /\ (t \div n) * n <= t
<1> DEFINE q == t \div n
<1>1. q \in Nat /\ t = q * n + (t % n) /\ t % n \in 0..(n - 1)
  BY SMT
<1>2. q # 0
  BY <1>1
<1> HIDE DEF q
<1>3. q * n = (q - 1) * n + n /\ (q - 1) * n >= 0
  BY <1>1, <1>2
<1> QED BY <1>1, <1>3 DEF q

LEMMA StoredIsDue ==
  ASSUME NEW m \in Memory, m.id \in given, Late(m), given \subseteq Ids, expiry \in [Ids -> Nat]
  PROVE  DueRight(memoryToItem(m))
<1> DEFINE i == memoryToItem(m)
<1>1. i \in Memory /\ i.id = m.id /\ i.expires = m.expires \div TicksPerSecond
  BY ToItem DEF memoryToItem, Memory
<1>2. itemToMemory(i).id = m.id /\ itemToMemory(i).expires = (m.expires \div TicksPerSecond) * TicksPerSecond
  BY <1>1 DEF itemToMemory, Memory
<1>3. ASSUME expiry[m.id] # NoExpiry
      PROVE  /\ TicksPerSecond <= itemToMemory(i).expires
             /\ itemToMemory(i).expires <= expiry[m.id]
  <2>1. TicksPerSecond \in Nat \ {0} /\ m.expires \in Nat /\ expiry[m.id] \in Nat
    BY DynamoAssumption DEF Memory
  <2>2. TicksPerSecond <= m.expires /\ m.expires <= expiry[m.id]
    BY <1>3 DEF Late
  <2>3. /\ TicksPerSecond <= (m.expires \div TicksPerSecond) * TicksPerSecond
        /\ (m.expires \div TicksPerSecond) * TicksPerSecond <= m.expires
    BY <2>1, <2>2, RoundedDown
  <2>4. (m.expires \div TicksPerSecond) * TicksPerSecond \in Nat
    BY <2>1, SecondsAreNat
  <2> QED BY <1>2, <2>1, <2>2, <2>3, <2>4
<1> QED BY <1>1, <1>2, <1>3 DEF DueRight, Late

\* What is right stays right: the expiry of an id is noted once.
LEMMA DueRemains ==
  ASSUME IInv, ExpiryInv, given \subseteq given', \A id \in given : expiry'[id] = expiry[id]
  PROVE  /\ \A i \in Memory : DueRight(i) => DueRight(i)'
         /\ \A m : m.id \in given /\ Late(m) => m.id \in given' /\ Late(m)'
<1>1. ASSUME NEW m, m.id \in given, Late(m) PROVE m.id \in given' /\ Late(m)'
  BY <1>1 DEF Late
<1>2. ASSUME NEW i \in Memory, DueRight(i) PROVE DueRight(i)'
  <2>1. itemToMemory(i).id = i.id
    BY ToMemory
  <2> QED BY <1>1, <1>2, <2>1 DEF DueRight
<1> QED BY <1>1, <1>2

LEMMA ExpiryNoted ==
  ASSUME IInv, ExpiryInv, HNext
  PROVE  /\ \A id \in given : expiry'[id] = expiry[id]
         /\ given' = given => expiry' = expiry
<1>1. expiry' = [id \in Ids |->
                   IF id \in given' \ given
                   THEN (CHOOSE m \in {mem'[g] : g \in Goroutines} : m.id = id).expires
                   ELSE expiry[id]]
  BY DEF HNext
<1>2. given \subseteq Ids /\ expiry \in [Ids -> Nat]
  BY DEF IInv, TypeOK, ServiceOK, ExpiryInv
<1> QED BY <1>1, <1>2

\* What a goroutine holds, as ExpiryInv has it.
Holds(s, r, m, S) ==
  /\ m = NoMemory \/ m.id \in given
  /\ \A i \in S : DueRight(i)
  /\ s \in {"embed", "put"} /\ r.op \notin Searches => m.id \in given /\ Late(m)

\* A step that begins no memory has only to copy what is right.
LEMMA ExpiryOfCopies ==
  ASSUME IInv, ExpiryInv, UNCHANGED <<expiry, given>>, clock' \in Nat, clock <= clock',
         \A i \in items' \cup replica' : DueRight(i),
         \A g \in Goroutines : Holds(at'[g], call'[g], mem'[g], page'[g])
  PROVE  ExpiryInv'
<1>1. \A x : (Late(x)' <=> Late(x)) /\ (DueRight(x)' <=> DueRight(x))
  BY DEF DueRight, Late
<1>2. clock' >= TicksPerSecond
  BY DynamoAssumption DEF ExpiryInv, IInv, TypeOK, ServiceOK
<1>3. \A i \in items' \cup replica' : DueRight(i)'
  BY <1>1
<1>4. ASSUME NEW g \in Goroutines
      PROVE  /\ mem'[g] = NoMemory \/ mem'[g].id \in given'
             /\ \A i \in page'[g] : DueRight(i)'
             /\ at'[g] \in {"embed", "put"} /\ call'[g].op \notin Searches =>
                  mem'[g].id \in given' /\ (expiry'[mem'[g].id] # NoExpiry =>
                    TicksPerSecond <= mem'[g].expires /\ mem'[g].expires <= expiry'[mem'[g].id])
  BY <1>1 DEF Holds, Late
<1>5. (\A i \in items \cup replica : DueRight(i))' /\ (expiry \in [Ids -> Nat])'
  BY <1>3 DEF ExpiryInv, DueRight, Late
<1>6. (\A g \in Goroutines :
        /\ mem[g] = NoMemory \/ mem[g].id \in given
        /\ \A i \in page[g] : DueRight(i)
        /\ at[g] \in {"embed", "put"} /\ call[g].op \notin Searches =>
             mem[g].id \in given /\ Late(mem[g]))'
  BY <1>4 DEF Late, DueRight
<1> QED BY <1>2, <1>5, <1>6 DEF ExpiryInv

LEMMA AllHold ==
  ASSUME ExpiryInv
  PROVE  /\ \A g \in Goroutines : Holds(at[g], call[g], mem[g], page[g])
         /\ \A i \in items \cup replica : DueRight(i)
  BY DEF ExpiryInv, Holds

\* A step of one goroutine.
LEMMA ExpiryOfStep ==
  ASSUME IInv, ExpiryInv, HNext, NEW g \in Goroutines,
         UNCHANGED <<given, clock, replica>>, \A i \in items' : i \in items \/ DueRight(i),
         \A h \in Goroutines \ {g} :
           at'[h] = at[h] /\ call'[h] = call[h] /\ mem'[h] = mem[h] /\ page'[h] = page[h],
         Holds(at'[g], call'[g], mem'[g], page'[g])
  PROVE  ExpiryInv'
<1>1. expiry' = expiry
  BY ExpiryNoted
<1>2. clock' \in Nat /\ clock <= clock'
  BY DEF IInv, TypeOK, ServiceOK
<1>3. \A h \in Goroutines : Holds(at'[h], call'[h], mem'[h], page'[h])
  BY AllHold
<1> QED BY <1>1, <1>2, <1>3, AllHold, ExpiryOfCopies

\* The memory that Add begins is new, and ends when its lifetime says.
LEMMA ExpiryOfAdd ==
  ASSUME IInv, ExpiryInv, HNext, NEW g \in Goroutines, NEW r \in AddRequest, NEW id \in Ids \ given,
         given' = given \cup {id}, mem' = [mem EXCEPT ![g] = NewMemory(r, id)],
         call' = [call EXCEPT ![g] = r],
         \A h \in Goroutines \ {g} : at'[h] = at[h],
         UNCHANGED <<clock, items, replica, page>>
  PROVE  ExpiryInv'
<1> DEFINE n == NewMemory(r, id)
<1>1. clock \in Nat /\ clock >= TicksPerSecond /\ TicksPerSecond \in Nat \ {0}
  BY DynamoAssumption DEF ExpiryInv, IInv, TypeOK, ServiceOK
<1>2. /\ n.id = id /\ n.expires \in Nat
      /\ n.expires # NoExpiry => TicksPerSecond <= n.expires
  BY <1>1 DEF NewMemory, AddRequest, NoExpiry
<1> HIDE DEF n
<1>3. mem'[g] = n /\ \A h \in Goroutines \ {g} : mem'[h] = mem[h]
  BY DEF n, IInv, TypeOK, CallersOK
<1>4. \A h \in Goroutines : mem'[h].id = id => mem'[h] = n
  <2>1. NoMemory.id # id
    BY DynamoAssumption DEF NoMemory
  <2>2. \A h \in Goroutines \ {g} : mem[h].id # id
    BY <2>1 DEF ExpiryInv
  <2> QED BY <1>3, <2>2
<1>5. (CHOOSE m \in {mem'[h] : h \in Goroutines} : m.id = id) = n
  BY <1>2, <1>3, <1>4
<1>6. expiry' = [j \in Ids |->
                  IF j \in given' \ given
                  THEN (CHOOSE m \in {mem'[h] : h \in Goroutines} : m.id = j).expires
                  ELSE expiry[j]]
  BY DEF HNext
<1>7. given \subseteq Ids /\ expiry \in [Ids -> Nat]
  BY DEF IInv, TypeOK, ServiceOK, ExpiryInv
<1>8. expiry'[id] = n.expires /\ \A j \in given : expiry'[j] = expiry[j]
  BY <1>5, <1>6, <1>7
<1>9. expiry' \in [Ids -> Nat]
  <2>1. \A j \in Ids : j \in given' \ given => j = id
    OBVIOUS
  <2> QED BY <1>2, <1>5, <1>6, <1>7, <2>1
<1>10. /\ \A i \in Memory : DueRight(i) => DueRight(i)'
       /\ \A m : m.id \in given /\ Late(m) => m.id \in given' /\ Late(m)'
  BY <1>8, DueRemains
<1>11. (\A i \in items \cup replica : DueRight(i))'
  BY <1>10 DEF ExpiryInv, IInv, TypeOK, ServiceOK
<1>12. ASSUME NEW h \in Goroutines
       PROVE  /\ mem'[h] = NoMemory \/ mem'[h].id \in given'
              /\ \A i \in page'[h] : DueRight(i)'
              /\ at'[h] \in {"embed", "put"} /\ call'[h].op \notin Searches =>
                   mem'[h].id \in given' /\ Late(mem[h])'
  <2>1. \A i \in page'[h] : DueRight(i)'
    BY <1>10 DEF ExpiryInv, IInv, TypeOK, CallersOK
  <2>2. CASE h = g
    <3>1. Late(mem[g])'
      BY <1>2, <1>3, <1>8, <1>9 DEF Late
    <3> QED BY <1>2, <1>3, <2>1, <2>2, <3>1
  <2>3. CASE h # g
    <3>1. at'[h] = at[h] /\ call'[h] = call[h] /\ mem'[h] = mem[h]
      BY <1>3, <2>3 DEF IInv, TypeOK, CallersOK
    <3>2. \A m : m = mem[h] /\ Late(m)' => Late(mem[h])'
      BY <3>1 DEF Late
    <3>3. mem[h] = NoMemory \/ mem[h].id \in given
      BY DEF ExpiryInv
    <3>4. at[h] \in {"embed", "put"} /\ call[h].op \notin Searches => mem[h].id \in given /\ Late(mem[h])
      BY DEF ExpiryInv
    <3> QED BY <1>10, <2>1, <3>1, <3>2, <3>3, <3>4
  <2> QED BY <2>2, <2>3
<1>13. clock' >= TicksPerSecond
  BY <1>1
<1> QED BY <1>9, <1>11, <1>12, <1>13 DEF ExpiryInv

LEMMA ExpiryKept ==
  IInv /\ ExpiryInv /\ [HNext]_hvars => ExpiryInv'
<1> SUFFICES ASSUME IInv, ExpiryInv, [HNext]_hvars PROVE ExpiryInv'
  OBVIOUS
<1> USE DEF IInv, TypeOK
<1>1. ASSUME NEW g \in Goroutines, Invoke(g), HNext PROVE ExpiryInv'
  <2>1. PICK r \in Requests[g] :
          /\ call' = [call EXCEPT ![g] = r]
          /\ Goto(g, FirstStep(g, r))
          /\ IF r.op = "Add"
             THEN \E id \in Ids \ given :
                    /\ given' = given \cup {id}
                    /\ mem' = [mem EXCEPT ![g] = NewMemory(r, id)]
             ELSE UNCHANGED <<given, mem>>
    BY <1>1 DEF Invoke
  <2>2. r \in Request
    BY DynamoAssumption
  <2>3. /\ UNCHANGED <<items, replica, clock, page>>
        /\ at'[g] = FirstStep(g, r) /\ call'[g] = r
        /\ \A h \in Goroutines \ {g} : at'[h] = at[h] /\ call'[h] = call[h]
    BY <1>1, <2>1 DEF Invoke, Goto, CallersOK
  <2>4. CASE r.op = "Add"
    <3>1. PICK id \in Ids \ given :
            given' = given \cup {id} /\ mem' = [mem EXCEPT ![g] = NewMemory(r, id)]
      BY <2>1, <2>4
    <3>2. r \in AddRequest
      BY <2>2, <2>4, RequestFields
    <3> QED BY <1>1, <2>1, <2>3, <3>1, <3>2, ExpiryOfAdd
  <2>5. CASE r.op # "Add"
    <3>1. UNCHANGED <<given, mem>>
      BY <2>1, <2>5
    <3>2. FirstStep(g, r) \notin {"embed", "put"} \/ r.op \in Searches
      BY <2>2, <2>5, RequestFields DEF FirstStep, Ops, Searches
    <3>3. Holds(at'[g], call'[g], mem'[g], page'[g])
      BY <2>3, <3>1, <3>2 DEF Holds, ExpiryInv
    <3> QED BY <1>1, <2>3, <3>1, <3>3, ExpiryOfStep
  <2> QED BY <2>4, <2>5
<1>2. ASSUME NEW g \in Goroutines, Embed(g), HNext PROVE ExpiryInv'
  <2>1. /\ UNCHANGED <<given, clock, items, replica>> /\ at[g] = "embed"
        /\ UNCHANGED <<call, page>>
        /\ \A h \in Goroutines \ {g} : at'[h] = at[h] /\ mem'[h] = mem[h]
        /\ \/ mem'[g] = mem[g] /\ at'[g] \in {"done", "query"}
           \/ call[g].op \notin Searches /\ mem'[g] = [mem[g] EXCEPT !.emb = call[g].content]
    BY <1>2 DEF Embed, Fail, Answer, Proceed, Goto, CallersOK, service
  <2>2. ASSUME call[g].op \notin Searches, mem'[g] = [mem[g] EXCEPT !.emb = call[g].content]
        PROVE  Holds(at'[g], call'[g], mem'[g], page'[g])
    <3>1. mem'[g].id = mem[g].id /\ mem'[g].expires = mem[g].expires
      BY <2>2 DEF CallersOK, Memory
    <3>2. mem[g].id \in given /\ Late(mem[g])
      BY <2>1, <2>2 DEF ExpiryInv
    <3> QED BY <2>1, <3>1, <3>2 DEF Holds, Late, ExpiryInv
  <2>3. ASSUME mem'[g] = mem[g], at'[g] \in {"done", "query"}
        PROVE  Holds(at'[g], call'[g], mem'[g], page'[g])
    BY <2>1, <2>3 DEF Holds, ExpiryInv
  <2> QED BY <1>2, <2>1, <2>2, <2>3, ExpiryOfStep
<1>3. ASSUME NEW g \in Goroutines, Put(g), HNext PROVE ExpiryInv'
  <2>1. /\ at[g] = "put" /\ at'[g] = "done" /\ UNCHANGED <<replica, clock, given, call, mem, page>>
        /\ \A h \in Goroutines \ {g} : at'[h] = at[h]
        /\ \A i \in items' : i \in items \/ i = memoryToItem(mem[g])
    BY <1>3 DEF Put, PutItem, Fail, Answer, Goto, CallersOK
  <2>2. DueRight(memoryToItem(mem[g]))
    <3>1. call[g].op \notin Searches
      BY <2>1 DEF ControlOK, OpsAt, Searches
    <3>2. mem[g].id \in given /\ Late(mem[g])
      BY <2>1, <3>1 DEF ExpiryInv
    <3>3. mem[g] \in Memory /\ given \subseteq Ids /\ expiry \in [Ids -> Nat]
      BY DEF CallersOK, ServiceOK, ExpiryInv
    <3> QED BY <3>2, <3>3, StoredIsDue
  <2>3. Holds(at'[g], call'[g], mem'[g], page'[g])
    BY <2>1 DEF Holds, ExpiryInv
  <2> QED BY <1>3, <2>1, <2>2, <2>3, ExpiryOfStep
<1>4. ASSUME NEW g \in Goroutines, GetItem(g) \/ Query(g), HNext PROVE ExpiryInv'
  <2>1. /\ UNCHANGED <<given, clock, items, replica, call, mem>>
        /\ at'[g] \in {"done", "check", "filter"}
        /\ \A h \in Goroutines \ {g} : at'[h] = at[h] /\ page'[h] = page[h]
    BY <1>4 DEF GetItem, Query, Fail, Answer, Proceed, Goto, CallersOK, service
  <2>2. page'[g] = page[g] \/ page'[g] \subseteq items \cup replica
    BY <1>4, PageIsRead
  <2>3. Holds(at'[g], call'[g], mem'[g], page'[g])
    BY <2>1, <2>2 DEF Holds, ExpiryInv
  <2> QED BY <1>4, <2>1, <2>3, ExpiryOfStep
<1>5. ASSUME NEW g \in Goroutines, Update(g), HNext PROVE ExpiryInv'
  <2>1. PICK i \in page[g] :
          mem' = [mem EXCEPT ![g] = Updated(itemToMemory(i), call[g])]
    BY <1>5 DEF Update
  <2>2. /\ UNCHANGED <<given, clock, items, replica, call>> /\ page'[g] = {}
        /\ \A h \in Goroutines \ {g} :
             at'[h] = at[h] /\ mem'[h] = mem[h] /\ page'[h] = page[h]
    BY <1>5, <2>1 DEF Update, Proceed, Goto, CallersOK, service
  <2>3. itemToMemory(i) \in Memory /\ itemToMemory(i).id = i.id /\ DueRight(i)
    BY ToMemory DEF CallersOK, ExpiryInv
  <2>4. ASSUME NEW m \in Memory
        PROVE  Updated(m, call[g]).id = m.id /\ Updated(m, call[g]).expires = m.expires
    BY DEF Updated, Memory
  <2>5. mem'[g].id = i.id /\ mem'[g].expires = itemToMemory(i).expires
    BY <2>1, <2>3, <2>4 DEF CallersOK
  <2>6. Holds(at'[g], call'[g], mem'[g], page'[g])
    BY <2>2, <2>3, <2>5 DEF Holds, DueRight, Late
  <2> QED BY <1>5, <2>2, <2>6, ExpiryOfStep
<1>6. ASSUME NEW g \in Goroutines, HNext,
             \/ Delete(g) \/ Check(g) \/ List(g) \/ Search(g)
      PROVE  ExpiryInv'
  <2>1. /\ items' \subseteq items /\ UNCHANGED <<given, clock, replica, call, mem, page>>
        /\ at'[g] = "done" /\ \A h \in Goroutines \ {g} : at'[h] = at[h]
    BY <1>6 DEF Delete, DeleteItem, Check, List, Search, Fail, Answer, Goto, CallersOK, service
  <2>2. Holds(at'[g], call'[g], mem'[g], page'[g])
    BY <2>1 DEF Holds, ExpiryInv
  <2> QED BY <1>6, <2>1, <2>2, ExpiryOfStep
<1>7. ASSUME NEW g \in Goroutines, HNext, Return(g) PROVE ExpiryInv'
  <2>1. /\ UNCHANGED <<given, clock, items, replica>>
        /\ at'[g] = "idle" /\ mem'[g] = NoMemory /\ page'[g] = {}
        /\ \A h \in Goroutines \ {g} :
             at'[h] = at[h] /\ call'[h] = call[h] /\ mem'[h] = mem[h] /\ page'[h] = page[h]
    BY <1>7 DEF Return, Goto, CallersOK, service
  <2>2. Holds(at'[g], call'[g], mem'[g], page'[g])
    BY <2>1 DEF Holds
  <2> QED BY <1>7, <2>1, <2>2, ExpiryOfStep
<1>8. ASSUME Replicate \/ Reap \/ Tick, HNext PROVE ExpiryInv'
  <2>1. /\ UNCHANGED <<given, at, call, mem, page>>
        /\ items' \subseteq items /\ replica' \subseteq items \cup replica
        /\ clock' \in Nat /\ clock <= clock'
    BY <1>8 DEF Replicate, Reap, Tick, callers, ServiceOK
  <2>2. expiry' = expiry
    BY <1>8, <2>1, ExpiryNoted
  <2> QED BY <2>1, <2>2, AllHold, ExpiryOfCopies
<1>9. CASE UNCHANGED hvars
  <2>1. UNCHANGED <<given, at, call, mem, page, items, replica, clock, expiry>>
    BY <1>9 DEF hvars, vars, service, callers
  <2>2. clock' \in Nat /\ clock <= clock'
    BY <2>1 DEF ServiceOK
  <2> QED BY <2>1, <2>2, AllHold, ExpiryOfCopies
<1> QED BY <1>1, <1>2, <1>3, <1>4, <1>5, <1>6, <1>7, <1>8, <1>9 DEF HNext, Next

LEMMA ExpiryHolds == HSpec => []ExpiryInv
<1>1. HInit => ExpiryInv
  <2> SUFFICES ASSUME HInit PROVE ExpiryInv
    OBVIOUS
  <2>1. clock >= TicksPerSecond /\ NoExpiry \in Nat
    BY DynamoAssumption DEF HInit, Init, NoExpiry
  <2> QED BY <2>1 DEF HInit, Init, ExpiryInv
<1> QED BY <1>1, ExpiryKept, HistoryTypes, PTL DEF HSpec

\* What a filter lets through comes from the page, and is not over.
LEMMA ListedIsLive ==
  ASSUME IInv, NEW g \in Goroutines, NEW m \in Listed(g)
  PROVE  ~Expired(m) /\ \E i \in page[g] : m = itemToMemory(i)
  BY DEF Listed, LastBySortKey, Matching

\* A memory whose lifetime is over is not reported again, by whatever way it came
\* back: an item not reaped yet, a stale replica, or an Update that wrote it
\* (itemToMemory, Expired, Get, List and Search).
THEOREM ExpiredStaysExpired == HSpec => ExpiryIsFinal
<1> DEFINE Final == \A g \in Goroutines :
                      (at[g] \in {"check", "filter"} /\ at'[g] = "done") =>
                         \A m \in ans'[g] : expiry[m.id] # NoExpiry => clock <= expiry[m.id]
<1>1. ASSUME IInv, ExpiryInv, [HNext]_hvars PROVE [Final]_hvars
  <2> SUFFICES ASSUME HNext, NEW g \in Goroutines,
                      at[g] \in {"check", "filter"}, at'[g] = "done",
                      NEW m \in ans'[g], expiry[m.id] # NoExpiry
               PROVE  clock <= expiry[m.id]
    BY <1>1
  <2>1. ASSUME NEW i \in page[g], m = itemToMemory(i), ~Expired(m)
        PROVE  clock <= expiry[m.id]
    <3>1. i \in Memory /\ m \in Memory /\ m.id = i.id
      BY <1>1, <2>1, ToMemory DEF IInv, TypeOK, CallersOK
    <3>2. DueRight(i)
      BY <1>1 DEF ExpiryInv
    <3>3. TicksPerSecond <= m.expires /\ m.expires <= expiry[m.id]
      BY <2>1, <3>2 DEF DueRight, Late
    <3>4. /\ clock \in Nat /\ m.expires \in Nat /\ TicksPerSecond \in Nat \ {0}
          /\ expiry[m.id] \in Nat
      <4>1. m.id \in Ids
        BY <1>1, <3>1, <3>2 DEF DueRight, IInv, TypeOK, ServiceOK
      <4> QED BY <1>1, <3>1, <4>1, DynamoAssumption DEF ExpiryInv, Memory, IInv, TypeOK, ServiceOK
    <3>5. clock <= m.expires
      BY <2>1, <3>3, <3>4 DEF Expired, NoExpiry
    <3> QED BY <3>3, <3>4, <3>5
  <2>2. \/ Check(g) \/ Update(g) \/ List(g) \/ Search(g)
    <3>1. ASSUME NEW h \in Goroutines, h # g,
                 \/ Invoke(h) \/ Embed(h) \/ Put(h) \/ Delete(h) \/ GetItem(h) \/ Check(h)
                 \/ Update(h) \/ Query(h) \/ List(h) \/ Search(h) \/ Return(h)
          PROVE  at'[g] = at[g]
      BY <1>1, <3>1 DEF Invoke, Embed, Put, Delete, GetItem, Check, Update, Query, List, Search, Return,
                        Fail, Answer, Proceed, Goto, IInv, TypeOK, CallersOK
    <3>2. Replicate \/ Reap \/ Tick => at' = at
      BY DEF Replicate, Reap, Tick, callers
    <3> QED BY <3>1, <3>2, ZenonT(30) DEF HNext, Next, Invoke, Embed, Put, Delete, GetItem, Query, Return
  <2>3. CASE Check(g)
    <3>1. \E i \in page[g] : \/ ans'[g] = {}
                             \/ (~Expired(itemToMemory(i)) /\ ans'[g] = {itemToMemory(i)})
      BY <1>1, <2>3 DEF Check, Fail, Answer, IInv, TypeOK, CallersOK
    <3> QED BY <2>1, <3>1
  <2>4. CASE Update(g)
    <3>1. at'[g] \in {"embed", "put"}
      BY <1>1, <2>4 DEF Update, Proceed, Goto, AfterUpdate, IInv, TypeOK, CallersOK
    <3> QED BY <3>1
  <2>5. CASE List(g) \/ Search(g)
    <3>1. ans'[g] \subseteq Listed(g)
      BY <1>1, <2>5 DEF List, Search, Best, Scored, Answer, IInv, TypeOK, CallersOK
    <3> QED BY <1>1, <2>1, <3>1, ListedIsLive
  <2> QED BY <2>2, <2>3, <2>4, <2>5
<1> QED BY <1>1, HistoryTypes, ExpiryHolds, PTL DEF HSpec, ExpiryIsFinal
-----------------------------------------------------------------------------
(* Pages of sorted keys.                                                   *)

Letters == Names \cup {"#"}

\* Before, letter by letter.
PrecedesAt(s, t, n) ==
  /\ n <= Len(s) /\ n < Len(t)
  /\ \A i \in 1..n : s[i] = t[i]
  /\ n < Len(s) => LetterOrder[s[n + 1]] < LetterOrder[t[n + 1]]

LEMMA BeforeByLetter ==
  ASSUME NEW s \in Seq(Letters), NEW t \in Seq(Letters)
  PROVE  Before(s, t) <=> \E n \in Nat : PrecedesAt(s, t, n)
<1>1. Len(s) \in Nat /\ Len(t) \in Nat
  OBVIOUS
<1>2. ASSUME NEW n \in 0..Len(s), n < Len(t)
      PROVE  SubSeq(s, 1, n) = SubSeq(t, 1, n) <=> \A i \in 1..n : s[i] = t[i]
  <2>1. /\ SubSeq(s, 1, n) = [i \in 1..n |-> s[i]]
        /\ SubSeq(t, 1, n) = [i \in 1..n |-> t[i]]
    BY <1>1, <1>2
  <2> QED BY <2>1
<1> QED BY <1>1, <1>2 DEF Before, PrecedesAt

\* No sequence is before itself; before one that is before a third is before it.
LEMMA BeforeIsStrict ==
  ASSUME NEW s \in Seq(Letters), NEW t \in Seq(Letters), NEW u \in Seq(Letters)
  PROVE  ~Before(s, s) /\ (Before(s, t) /\ Before(t, u) => Before(s, u))
<1>1. Len(s) \in Nat /\ Len(t) \in Nat /\ Len(u) \in Nat
  OBVIOUS
<1>2. ASSUME NEW n \in Nat
      PROVE  /\ n < Len(s) => LetterOrder[s[n + 1]] \in Nat
             /\ n < Len(t) => LetterOrder[t[n + 1]] \in Nat
             /\ n < Len(u) => LetterOrder[u[n + 1]] \in Nat
  <2>1. /\ n < Len(s) => s[n + 1] \in Letters
        /\ n < Len(t) => t[n + 1] \in Letters
        /\ n < Len(u) => u[n + 1] \in Letters
    BY <1>1
  <2> QED BY <2>1, DynamoAssumption DEF Letters
<1>3. ASSUME NEW n \in Nat, PrecedesAt(s, s, n) PROVE FALSE
  BY <1>1, <1>2, <1>3 DEF PrecedesAt
<1>4. ASSUME NEW n \in Nat, NEW m \in Nat, PrecedesAt(s, t, n), PrecedesAt(t, u, m)
      PROVE  \E k \in Nat : PrecedesAt(s, u, k)
  <2>1. CASE n < m
    <3>1. n < Len(u) /\ \A i \in 1..(n + 1) : t[i] = u[i]
      BY <1>1, <1>4, <2>1 DEF PrecedesAt
    <3> QED BY <1>4, <3>1 DEF PrecedesAt
  <2>2. CASE m < n
    <3>1. m < Len(t) /\ m < Len(s) /\ \A i \in 1..(m + 1) : s[i] = t[i]
      BY <1>1, <1>4, <2>2 DEF PrecedesAt
    <3> QED BY <1>4, <3>1 DEF PrecedesAt
  <2>3. CASE n = m
    BY <1>1, <1>2, <1>4, <2>3 DEF PrecedesAt
  <2> QED BY <2>1, <2>2, <2>3
<1> QED BY <1>3, <1>4, BeforeByLetter

\* A set of numbers has a first one.
LEMMA FirstNumber ==
  ASSUME NEW S \in SUBSET Nat, S # {}
  PROVE  \E x \in S : \A y \in S : x <= y
<1>1. \E x \in S : \A y \in S : ~(<<y, x>> \in OpToRel(<, Nat))
  BY NatLessThanWellFounded, WFMin
<1>2. PICK x \in S : \A y \in S : ~(y < x)
  BY <1>1 DEF OpToRel
<1> QED BY <1>2

\* Of two sequences, one is before the other.
LEMMA BeforeIsTotal ==
  ASSUME NEW s \in Seq(Letters), NEW t \in Seq(Letters), s # t
  PROVE  Before(s, t) \/ Before(t, s)
<1>1. Len(s) \in Nat /\ Len(t) \in Nat
  OBVIOUS
<1> DEFINE D == {n \in Nat : \/ n = Len(s)
                             \/ n = Len(t)
                             \/ n < Len(s) /\ n < Len(t) /\ s[n + 1] # t[n + 1]}
<1>2. D # {} /\ D \subseteq Nat
  <2>1. Len(s) \in D
    BY <1>1
  <2>2. D \subseteq Nat
    OBVIOUS
  <2> HIDE DEF D
  <2> QED BY <2>1, <2>2
<1> HIDE DEF D
<1>3. PICK n \in D : \A y \in D : n <= y
  BY <1>2, FirstNumber, Zenon
<1>4. /\ n \in Nat /\ n <= Len(s) /\ n <= Len(t)
      /\ \/ n = Len(s) \/ n = Len(t) \/ s[n + 1] # t[n + 1]
  BY <1>1, <1>3 DEF D
<1>5. \A i \in 1..n : s[i] = t[i]
  <2>1. ASSUME NEW i \in 1..n, s[i] # t[i] PROVE FALSE
    <3>1. i - 1 \in Nat /\ i - 1 < n /\ (i - 1) + 1 = i
      BY <1>4
    <3>2. i - 1 \in D
      BY <1>1, <1>4, <2>1, <3>1 DEF D
    <3> QED BY <1>3, <1>4, <3>1, <3>2
  <2> QED BY <2>1
<1>6. CASE n = Len(s) /\ n = Len(t)
  <2>1. Len(s) = Len(t) /\ \A i \in 1..Len(s) : s[i] = t[i]
    BY <1>5, <1>6
  <2>2. s = t
    BY <2>1, SeqEqual, Zenon
  <2> QED BY <2>1
<1>7. CASE n = Len(s) /\ n < Len(t)
  <2>1. PrecedesAt(s, t, n)
    BY <1>1, <1>4, <1>5, <1>7 DEF PrecedesAt
  <2> QED BY <1>4, <2>1, BeforeByLetter
<1>8. CASE n = Len(t) /\ n < Len(s)
  <2>1. PrecedesAt(t, s, n)
    BY <1>1, <1>4, <1>5, <1>8 DEF PrecedesAt
  <2> QED BY <1>4, <2>1, BeforeByLetter
<1>9. CASE n < Len(s) /\ n < Len(t)
  <2>1. s[n + 1] \in Letters /\ t[n + 1] \in Letters /\ s[n + 1] # t[n + 1]
    BY <1>1, <1>4, <1>9
  <2>2. \/ LetterOrder[s[n + 1]] < LetterOrder[t[n + 1]]
        \/ LetterOrder[t[n + 1]] < LetterOrder[s[n + 1]]
    BY <2>1, DynamoAssumption DEF Letters
  <2>3. PrecedesAt(s, t, n) \/ PrecedesAt(t, s, n)
    BY <1>1, <1>4, <1>5, <1>9, <2>2 DEF PrecedesAt
  <2> QED BY <1>4, <2>3, BeforeByLetter
<1> QED BY <1>1, <1>4, <1>6, <1>7, <1>8, <1>9

\* Where a memory stands on the pages: those before it, last sort key first.
Ahead(S, m) == {x \in S : Before(SortKey(m), SortKey(x))}
Place(S, m) == Cardinality(Ahead(S, m))

\* A set of memories in which no two have one sort key.
KeysDiffer(S) == \A x, y \in S : SortKey(x) = SortKey(y) => x = y

LEMMA KeysAreLetters == \A m \in Memory : SortKey(m) \in Seq(Letters)
<1>1. ASSUME NEW m \in Memory PROVE SortKey(m) \in Seq(Letters)
  <2>1. m.subject \in Seq(Names) /\ m.id \in Names
    BY DEF Memory
  <2>2. m.subject \in Seq(Letters)
    BY <2>1 DEF Letters
  <2>3. <<"#", m.id>> \in Seq(Letters)
    BY <2>1 DEF Letters
  <2> QED BY <2>2, <2>3 DEF SortKey
<1> QED BY <1>1

\* What is strictly inside a finite set is smaller.
LEMMA SmallerInside ==
  ASSUME NEW S, IsFiniteSet(S), NEW T \in SUBSET S, NEW x \in S, x \notin T
  PROVE  IsFiniteSet(T) /\ Cardinality(T) \in Nat /\ Cardinality(S) \in Nat
         /\ Cardinality(T) < Cardinality(S)
<1>1. /\ IsFiniteSet(T) /\ Cardinality(T) <= Cardinality(S)
      /\ Cardinality(S) = Cardinality(T) => S = T
  BY FS_Subset
<1>2. Cardinality(T) \in Nat /\ Cardinality(S) \in Nat
  BY <1>1, FS_CardinalityType
<1> QED BY <1>1, <1>2

\* No two memories stand at one place, and there is a place for each.
LEMMA PlacesDiffer ==
  ASSUME NEW S \in SUBSET Memory, IsFiniteSet(S), KeysDiffer(S)
  PROVE  /\ \A m \in S : Place(S, m) \in 0..(Cardinality(S) - 1)
         /\ \A m, x \in S : m # x => Place(S, m) # Place(S, x)
<1>1. \A m \in S : SortKey(m) \in Seq(Letters)
  BY KeysAreLetters
<1>2. Cardinality(S) \in Nat
  BY FS_CardinalityType
<1>3. ASSUME NEW m \in S
      PROVE  Place(S, m) \in Nat /\ Place(S, m) < Cardinality(S) /\ IsFiniteSet(Ahead(S, m))
  <2>1. ~Before(SortKey(m), SortKey(m))
    BY <1>1, BeforeIsStrict
  <2>2. Ahead(S, m) \in SUBSET S /\ m \notin Ahead(S, m)
    BY <2>1 DEF Ahead
  <2> QED BY <2>2, SmallerInside DEF Place
<1>4. ASSUME NEW m \in S, NEW x \in S, Before(SortKey(m), SortKey(x))
      PROVE  Place(S, x) < Place(S, m)
  <2>1. /\ ~Before(SortKey(x), SortKey(x))
        /\ \A y \in S : Before(SortKey(x), SortKey(y)) => Before(SortKey(m), SortKey(y))
    BY <1>1, <1>4, BeforeIsStrict
  <2>2. /\ Ahead(S, x) \in SUBSET Ahead(S, m)
        /\ x \in Ahead(S, m) /\ x \notin Ahead(S, x)
    BY <1>4, <2>1 DEF Ahead
  <2> QED BY <1>3, <2>2, SmallerInside DEF Place
<1>5. ASSUME NEW m \in S, NEW x \in S, m # x PROVE Place(S, m) # Place(S, x)
  <2>1. Before(SortKey(m), SortKey(x)) \/ Before(SortKey(x), SortKey(m))
    BY <1>1, <1>5, BeforeIsTotal DEF KeysDiffer
  <2>2. Place(S, m) < Place(S, x) \/ Place(S, x) < Place(S, m)
    BY <1>4, <2>1
  <2> QED BY <1>3, <2>2
<1> QED BY <1>2, <1>3, <1>5

\* A page is full, or holds everything there is.
LEMMA PageIsFull ==
  ASSUME NEW S \in SUBSET Memory, IsFiniteSet(S), KeysDiffer(S), NEW n \in Nat
  PROVE  /\ Cardinality(S) <= n => LastBySortKey(S, n) = S
         /\ n <= Cardinality(S) => Cardinality(LastBySortKey(S, n)) = n
<1> DEFINE k == Cardinality(S)
           T == LastBySortKey(S, n)
<1>1. k \in Nat
  BY FS_CardinalityType
<1>2. T = {m \in S : Place(S, m) < n}
  BY DEF LastBySortKey, Place, Ahead
<1>3. /\ \A m \in S : Place(S, m) \in 0..(k - 1)
      /\ \A m, x \in S : m # x => Place(S, m) # Place(S, x)
  BY PlacesDiffer
<1> HIDE DEF k, T
<1>4. k <= n => T = S
  BY <1>1, <1>2, <1>3
<1>5. ASSUME n <= k PROVE Cardinality(T) = n
  <2> DEFINE f == [m \in S |-> Place(S, m)]
             h == [m \in T |-> Place(S, m)]
  <2>1. IsFiniteSet(0..(k - 1)) /\ Cardinality(0..(k - 1)) = k
    BY <1>1, FS_Interval
  <2>2. f \in Injection(S, 0..(k - 1))
    BY <1>3 DEF Injection, IsInjective
  <2>3. f \in Surjection(S, 0..(k - 1))
    <3> HIDE DEF f
    <3> QED BY <2>1, <2>2, FS_Injection DEF k
  <2>4. IsFiniteSet(0..(n - 1)) /\ Cardinality(0..(n - 1)) = n
    BY FS_Interval
  <2>5. h \in Injection(T, 0..(n - 1))
    BY <1>1, <1>2, <1>3 DEF Injection, IsInjective
  <2>6. h \in Surjection(T, 0..(n - 1))
    <3>1. ASSUME NEW j \in 0..(n - 1) PROVE \E m \in T : h[m] = j
      <4>1. j \in 0..(k - 1)
        BY <1>1, <1>5
      <4>2. PICK m \in S : f[m] = j
        BY <2>3, <4>1 DEF Surjection
      <4>3. m \in T
        BY <1>2, <4>2
      <4> QED BY <4>2, <4>3
    <3>2. h \in [T -> 0..(n - 1)]
      BY <2>5 DEF Injection, IsInjective
    <3> QED BY <3>1, <3>2 DEF Surjection
  <2> HIDE DEF h
  <2> QED BY <2>4, <2>5, <2>6, FS_Injection
<1> QED BY <1>4, <1>5 DEF k, T

LEMMA PageIsPart ==
  ASSUME NEW S, NEW n
  PROVE  LastBySortKey(S, n) \subseteq S
  BY DEF LastBySortKey
-----------------------------------------------------------------------------
(* Lists and searches.                                                     *)

\* A page p of what request r selects from one state of the table or its replica:
\* some of it, and for a search what comes first in the order of the sort keys.
ReadFrom(p, r, view) ==
  /\ view \in SUBSET Memory /\ IsFiniteSet(view) /\ OnePerKey(view)
  /\ p \subseteq Selected(r, view)
  /\ r.op \in Searches =>
       \A i \in Selected(r, view) \ p : PageHolds <= Place(Selected(r, view), i)

\* Table and replica are finite, and whoever filters a page has read it from one
\* of the views Query could read.
ListInv ==
  /\ IsFiniteSet(items) /\ IsFiniteSet(replica)
  /\ \A g \in Goroutines :
       at[g] = "filter" => \E view \in seen[g] : ReadFrom(page[g], call[g], view)

LEMMA LimitIsPositive ==
  ASSUME IInv, NEW g \in Goroutines
  PROVE  /\ call[g].op = "List" => ListLimit(g) \in Nat \ {0}
         /\ call[g].op \in Searches =>
              ListLimit(g) = ListDefault /\ QueryLimit(g) = ListDefault + 1
<1>1. MaxInt32 \in Nat /\ ListDefault \in Nat \ {0} /\ ListDefault < MaxInt32
  BY DynamoAssumption
<1>2. ASSUME call[g].op = "List" PROVE ListLimit(g) \in Nat \ {0}
  <2>1. call[g] \in ListRequest
    BY <1>2, RequestFields DEF IInv, TypeOK, CallersOK, NoCall
  <2>2. call[g].limit \in Int
    BY <2>1 DEF ListRequest
  <2> QED BY <1>1, <1>2, <2>2 DEF ListLimit, PageLimit
<1>3. ASSUME call[g].op \in Searches
      PROVE  ListLimit(g) = ListDefault /\ QueryLimit(g) = ListDefault + 1
  BY <1>1, <1>3 DEF ListLimit, PageLimit, QueryLimit, Wrap, Searches
<1> QED BY <1>2, <1>3

\* The items of one tenant, one for a key, have different sort keys.
LEMMA SelectedKeysDiffer ==
  ASSUME NEW r, NEW view \in SUBSET Memory, IsFiniteSet(view), OnePerKey(view)
  PROVE  /\ Selected(r, view) \in SUBSET Memory
         /\ IsFiniteSet(Selected(r, view))
         /\ KeysDiffer(Selected(r, view))
<1>1. Selected(r, view) \in SUBSET view
  BY DEF Selected
<1>2. KeysDiffer(Selected(r, view))
  BY DEF Selected, KeysDiffer, OnePerKey, SameKey
<1> QED BY <1>1, <1>2, FS_Subset

\* Query reads one view.
LEMMA QueryReads ==
  ASSUME IInv, ListInv, NEW g \in Goroutines, Query(g), at'[g] = "filter"
  PROVE  \E view \in Views : ReadFrom(page'[g], call'[g], view)
<1>1. PICK view \in Views, n \in {QueryLimit(g), PageItems} :
        /\ QueryLimit(g) > 0
        /\ n <= QueryLimit(g) /\ n <= PageItems
        /\ page' = [page EXCEPT ![g] = LastBySortKey(Selected(call[g], view), n)]
  BY DEF Query, Fail, Answer, Goto, IInv, TypeOK, CallersOK
<1>2. page'[g] = LastBySortKey(Selected(call[g], view), n) /\ call' = call
  BY <1>1 DEF Query, Proceed, Fail, Answer, IInv, TypeOK, CallersOK
<1>3. view \in SUBSET Memory /\ IsFiniteSet(view) /\ OnePerKey(view)
  BY DEF Views, IInv, TypeOK, ServiceOK, ListInv, OnePerKey
<1>4. ASSUME call[g].op \in Searches, NEW i \in Selected(call[g], view) \ page'[g]
      PROVE  PageHolds <= Place(Selected(call[g], view), i)
  <2>1. n \in Nat /\ ListDefault \in Nat /\ PageItems \in Nat /\ PageHolds <= n
    BY <1>1, <1>4, LimitIsPositive, DynamoAssumption DEF PageHolds
  <2>2. Place(Selected(call[g], view), i) \in Nat
    BY <1>3, <1>4, SelectedKeysDiffer, PlacesDiffer, FS_CardinalityType
  <2>3. ~(Place(Selected(call[g], view), i) < n)
    BY <1>2, <1>4 DEF LastBySortKey, Place, Ahead
  <2>4. PageHolds \in Nat
    BY <2>1 DEF PageHolds
  <2> QED BY <2>1, <2>2, <2>3, <2>4
<1> QED BY <1>2, <1>3, <1>4, PageIsPart DEF ReadFrom

LEMMA ListKept ==
  IInv /\ ListInv /\ [HNext]_hvars => ListInv'
<1> SUFFICES ASSUME IInv, ListInv, [HNext]_hvars PROVE ListInv'
  OBVIOUS
<1> USE DEF IInv, TypeOK, CallersOK
<1>1. IsFiniteSet(items') /\ IsFiniteSet(replica')
  <2>1. ASSUME NEW T \in SUBSET items, NEW x PROVE IsFiniteSet(T \cup {x})
    BY FS_Subset, FS_AddElement DEF ListInv
  <2>2. ASSUME NEW T \in SUBSET (items \cup replica) PROVE IsFiniteSet(T)
    BY FS_Subset, FS_Union DEF ListInv
  <2>3. \/ items' \in SUBSET items
        \/ \E x : \E T \in SUBSET items : items' = T \cup {x}
    BY DEF HNext, hvars, Next, vars, service, Invoke, Embed, Put, Delete, GetItem, Check, Update,
           Query, List, Search, Return, Replicate, Reap, Tick, PutItem, DeleteItem
  <2>4. replica' \in SUBSET (items \cup replica)
    BY DEF HNext, hvars, Next, vars, service, Invoke, Embed, Put, Delete, GetItem, Check, Update,
           Query, List, Search, Return, Replicate, Reap, Tick
  <2> QED BY <2>1, <2>2, <2>3, <2>4
<1>2. ASSUME NEW g \in Goroutines, at'[g] = "filter"
      PROVE  \E view \in seen'[g] : ReadFrom(page'[g], call'[g], view)
  <2>1. \/ HNext /\ Query(g)
        \/ at[g] = "filter" /\ page'[g] = page[g] /\ call'[g] = call[g]
    <3>1. ASSUME NEW h \in Goroutines, h # g,
                 \/ Invoke(h) \/ Embed(h) \/ Put(h) \/ Delete(h) \/ GetItem(h) \/ Check(h)
                 \/ Update(h) \/ Query(h) \/ List(h) \/ Search(h) \/ Return(h)
          PROVE  at'[g] = at[g] /\ page'[g] = page[g] /\ call'[g] = call[g]
      BY <3>1 DEF Invoke, Embed, Put, Delete, GetItem, Check, Update, Query, List, Search, Return,
                  Fail, Answer, Proceed, Goto
    <3>2. ~Invoke(g)
      <4>1. \A r \in Requests[g] : FirstStep(g, r) # "filter"
        BY RequestFields, DynamoAssumption DEF FirstStep, Ops, Searches
      <4> QED BY <1>2, <4>1 DEF Invoke, Goto
    <3>3. ASSUME \/ Embed(g) \/ Put(g) \/ Delete(g) \/ GetItem(g) \/ Check(g)
                 \/ Update(g) \/ List(g) \/ Search(g) \/ Return(g)
          PROVE  FALSE
      BY <1>2, <3>3 DEF Embed, Put, Delete, GetItem, Check, Update, AfterUpdate,
                        List, Search, Return, Fail, Answer, Proceed, Goto
    <3>4. Replicate \/ Reap \/ Tick \/ UNCHANGED hvars => UNCHANGED <<at, page, call>>
      BY DEF Replicate, Reap, Tick, callers, hvars, vars
    <3> QED BY <1>2, <3>1, <3>2, <3>3, <3>4 DEF HNext, Next
  <2>2. CASE HNext /\ Query(g)
    <3>1. at[g] = "query" /\ seen'[g] = Views
      BY <1>2, <2>2 DEF Query, HNext
    <3> QED BY <1>2, <2>2, <3>1, QueryReads
  <2>3. CASE at[g] = "filter" /\ page'[g] = page[g] /\ call'[g] = call[g]
    <3>1. seen'[g] = seen[g]
      BY <1>2, <2>3 DEF HNext, hvars
    <3> QED BY <2>3, <3>1 DEF ListInv
  <2> QED BY <2>1, <2>2, <2>3
<1> QED BY <1>1, <1>2 DEF ListInv

LEMMA ListHolds == HSpec => []ListInv
<1>1. HInit => ListInv
  BY FS_EmptySet DEF HInit, Init, ListInv
<1> QED BY <1>1, ListKept, HistoryTypes, PTL DEF HSpec

\* What the filter lets through of some items is about those items, one memory
\* for each, and the other way round.
LEMMA MatchingOfItems ==
  ASSUME NEW r, NEW S \in SUBSET Memory, IsFiniteSet(S), KeysDiffer(S)
  PROVE  /\ Matching(r, S) \in SUBSET Memory
         /\ IsFiniteSet(Matching(r, S)) /\ KeysDiffer(Matching(r, S))
         /\ Cardinality(Matching(r, S)) <= Cardinality(S)
<1> DEFINE T == {itemToMemory(i) : i \in S}
           f == [i \in S |-> itemToMemory(i)]
<1>1. T \in SUBSET Memory
  BY ToMemory
<1>2. f \in Surjection(S, T)
  BY DEF Surjection
<1>3. IsFiniteSet(T) /\ Cardinality(T) <= Cardinality(S)
  <2> HIDE DEF T, f
  <2> QED BY <1>2, FS_Surjection
<1>4. KeysDiffer(T)
  <2>1. \A i \in S : SortKey(itemToMemory(i)) = SortKey(i)
    BY ToMemory DEF SortKey
  <2> QED BY <2>1 DEF KeysDiffer
<1>5. Matching(r, S) \in SUBSET T
  BY DEF Matching
<1> HIDE DEF T
<1>6. KeysDiffer(Matching(r, S))
  BY <1>4, <1>5 DEF KeysDiffer
<1>7. /\ IsFiniteSet(Matching(r, S)) /\ Cardinality(Matching(r, S)) <= Cardinality(T)
  BY <1>3, <1>5, FS_Subset
<1>8. /\ Cardinality(Matching(r, S)) \in Nat /\ Cardinality(T) \in Nat /\ Cardinality(S) \in Nat
  BY <1>3, <1>7, FS_CardinalityType
<1> QED BY <1>1, <1>3, <1>5, <1>6, <1>7, <1>8

\* The separator ends a subject, as long as no subject has it as a letter.
LEMMA PrefixIsSubject ==
  ASSUME "#" \notin Names, NEW s \in Seq(Names), NEW i \in Memory
  PROVE  IsPrefix(s \o <<"#">>, SortKey(i)) <=> i.subject = s
<1> DEFINE t == i.subject
<1>1. t \in Seq(Names) /\ i.id \in Names
  BY DEF Memory
<1> HIDE DEF t
<1>2. Len(s) \in Nat /\ Len(t) \in Nat
  BY <1>1
<1>3. /\ Len(s \o <<"#">>) = Len(s) + 1 /\ (s \o <<"#">>)[Len(s) + 1] = "#"
      /\ \A n \in 1..Len(s) : (s \o <<"#">>)[n] = s[n]
  BY <1>2
<1>4. /\ SortKey(i) = t \o <<"#", i.id>> /\ Len(SortKey(i)) = Len(t) + 2
      /\ SortKey(i)[Len(t) + 1] = "#" /\ SortKey(i)[Len(t) + 2] = i.id
      /\ \A n \in 1..Len(t) : SortKey(i)[n] = t[n]
  BY <1>1, <1>2 DEF SortKey, t
<1>5. ASSUME IsPrefix(s \o <<"#">>, SortKey(i)) PROVE t = s
  <2>1. /\ Len(s) + 1 <= Len(t) + 2
        /\ \A n \in 1..(Len(s) + 1) : (s \o <<"#">>)[n] = SortKey(i)[n]
    <3> DEFINE p == s \o <<"#">>
               k == SortKey(i)
    <3>1. Len(p) \in Nat /\ Len(k) \in Nat /\ Len(p) <= Len(k)
      BY <1>2, <1>3, <1>4, <1>5 DEF IsPrefix
    <3> HIDE DEF p, k
    <3>2. SubSeq(p, 1, Len(p)) = SubSeq(k, 1, Len(p))
      BY <1>5 DEF IsPrefix, p, k
    <3>3. \A n \in 1..Len(p) : p[n] = k[n]
      BY <3>1, <3>2
    <3> QED BY <1>2, <1>3, <1>4, <3>1, <3>3 DEF p, k
  <2>2. SortKey(i)[Len(s) + 1] = "#"
    BY <1>2, <1>3, <2>1
  <2>3. Len(s) = Len(t)
    <3>1. Len(s) + 1 # Len(t) + 2
      BY <1>1, <1>4, <2>2
    <3>2. ASSUME Len(s) < Len(t) PROVE FALSE
      <4>1. SortKey(i)[Len(s) + 1] = t[Len(s) + 1] /\ t[Len(s) + 1] \in Names
        BY <1>1, <1>2, <1>4, <3>2
      <4> QED BY <2>2, <4>1
    <3> QED BY <1>2, <2>1, <3>1, <3>2
  <2>4. \A n \in 1..Len(s) : s[n] = t[n]
    BY <1>2, <1>3, <1>4, <2>1, <2>3
  <2> QED BY <1>1, <2>3, <2>4, SeqEqual, Zenon
<1>6. ASSUME t = s PROVE IsPrefix(s \o <<"#">>, SortKey(i))
  <2> DEFINE p == s \o <<"#">>
             k == SortKey(i)
  <2>1. Len(p) \in Nat /\ Len(k) \in Nat /\ Len(p) <= Len(k)
    BY <1>2, <1>3, <1>4, <1>6
  <2>2. \A n \in 1..Len(p) : p[n] = k[n]
    BY <1>2, <1>3, <1>4, <1>6
  <2> HIDE DEF p, k
  <2>3. SubSeq(p, 1, Len(p)) = SubSeq(k, 1, Len(p))
    BY <2>1, <2>2
  <2> QED BY <2>1, <2>3 DEF IsPrefix, p, k
<1> QED BY <1>5, <1>6 DEF t

\* An item is live when the memory read from it is not expired.
LEMMA LiveIsNotExpired ==
  ASSUME IInv, NEW i \in Memory
  PROVE  /\ Live(i) <=> ~Expired(itemToMemory(i))
         /\ itemToMemory(i).kind = i.kind
<1>1. itemToMemory(i).expires = i.expires * TicksPerSecond /\ itemToMemory(i).kind = i.kind
  BY DEF itemToMemory, Memory
<1>2. i.expires \in Nat /\ clock \in Nat /\ TicksPerSecond \in Nat \ {0}
  BY DynamoAssumption DEF Memory, IInv, TypeOK, ServiceOK
<1>3. i.expires * TicksPerSecond \in Nat /\ (i.expires * TicksPerSecond = 0 <=> i.expires = 0)
  BY <1>2
<1> HIDE DEF Expired
<1>4. Expired(itemToMemory(i)) <=> i.expires # 0 /\ clock > i.expires * TicksPerSecond
  BY <1>1, <1>3 DEF Expired, NoExpiry
<1>5. Live(i) <=> (i.expires # 0 => clock <= i.expires * TicksPerSecond)
  BY DEF Live, NoExpiry
<1> QED BY <1>1, <1>2, <1>3, <1>4, <1>5

\* The memories of a subject that a filter lets through are those asked for.
LEMMA MatchingIsWanted ==
  ASSUME "#" \notin Names, IInv, NEW g \in Goroutines, call[g].op \in {"List"} \cup Searches,
         NEW view \in SUBSET Memory
  PROVE  Matching(call[g], Selected(call[g], view)) = Wanted(call[g], view)
<1> DEFINE r == call[g]
           Match(i) == ~Expired(itemToMemory(i))
                         /\ (r.kinds = {} \/ itemToMemory(i).kind \in r.kinds)
           Want(i) == /\ Live(i)
                      /\ i.tenant = r.tenant
                      /\ r.subject # <<>> => i.subject = r.subject
                      /\ r.kinds # {} => i.kind \in r.kinds
<1>1. r.subject \in Seq(Names)
  BY RequestFields DEF IInv, TypeOK, CallersOK, NoCall, Ops, Searches, ListRequest, SearchRequest
<1>2. ASSUME NEW i \in view PROVE i \in Selected(r, view) /\ Match(i) <=> Want(i)
  <2>1. i \in Selected(r, view) <=>
          i.tenant = r.tenant /\ (r.subject # <<>> => i.subject = r.subject)
    BY <1>1, PrefixIsSubject DEF Selected, SubjectPrefix
  <2> QED BY <2>1, LiveIsNotExpired
<1>3. Matching(r, Selected(r, view))
        = {itemToMemory(i) : i \in {x \in view : x \in Selected(r, view) /\ Match(x)}}
  BY DEF Matching, Selected
<1>4. Wanted(r, view) = {itemToMemory(i) : i \in {x \in view : Want(x)}}
  BY DEF Wanted
<1>5. {x \in view : x \in Selected(r, view) /\ Match(x)} = {x \in view : Want(x)}
  <2> HIDE DEF Match, Want
  <2> QED BY <1>2
<1> QED BY <1>3, <1>4, <1>5

LEMMA FilterAnswers ==
  ASSUME IInv, HNext, NEW g \in Goroutines, at[g] = "filter", at'[g] = "done"
  PROVE  \/ /\ call[g].op = "List"
            /\ ans'[g] = Listed(g) /\ more'[g] = HasMore(g)
         \/ /\ call[g].op \in Searches
            /\ ans'[g] \in Best(g, Scored(g, Listed(g)), SearchLimit(call[g].limit))
<1> USE DEF IInv, TypeOK, CallersOK
<1>1. List(g) \/ Search(g)
  <2>1. ASSUME NEW h \in Goroutines, h # g,
               \/ Invoke(h) \/ Embed(h) \/ Put(h) \/ Delete(h) \/ GetItem(h) \/ Check(h)
               \/ Update(h) \/ Query(h) \/ List(h) \/ Search(h) \/ Return(h)
        PROVE  at'[g] = at[g]
    BY <2>1 DEF Invoke, Embed, Put, Delete, GetItem, Check, Update, Query, List, Search, Return,
                Fail, Answer, Proceed, Goto
  <2>2. Replicate \/ Reap \/ Tick => at' = at
    BY DEF Replicate, Reap, Tick, callers
  <2> QED BY <2>1, <2>2, ZenonT(30) DEF HNext, Next, Invoke, Embed, Put, Delete, GetItem, Check, Update,
             Query, Return
<1> QED BY <1>1 DEF List, Search, Answer, Searches

\* What the filter lets through of a page is among the memories asked for.
LEMMA PageMatches ==
  ASSUME "#" \notin Names, IInv, NEW g \in Goroutines, call[g].op \in {"List"} \cup Searches,
         NEW view, ReadFrom(page[g], call[g], view)
  PROVE  LET M == Matching(call[g], page[g]) IN
         /\ M \in SUBSET Memory /\ IsFiniteSet(M) /\ KeysDiffer(M)
         /\ Cardinality(M) <= Cardinality(Selected(call[g], view))
         /\ M \subseteq Wanted(call[g], view)
         /\ page[g] = Selected(call[g], view) => M = Wanted(call[g], view)
<1> DEFINE S == Selected(call[g], view)
<1>1. view \in SUBSET Memory /\ IsFiniteSet(view) /\ OnePerKey(view) /\ page[g] \in SUBSET S
  BY DEF ReadFrom
<1>2. S \in SUBSET Memory /\ IsFiniteSet(S) /\ KeysDiffer(S)
  BY <1>1, SelectedKeysDiffer
<1>3. Matching(call[g], S) = Wanted(call[g], view)
  BY <1>1, MatchingIsWanted
<1> HIDE DEF S
<1>4. /\ page[g] \in SUBSET Memory /\ IsFiniteSet(page[g]) /\ KeysDiffer(page[g])
      /\ Cardinality(page[g]) <= Cardinality(S)
  BY <1>1, <1>2, FS_Subset DEF KeysDiffer
<1>5. Matching(call[g], page[g]) \subseteq Matching(call[g], S)
  BY <1>1 DEF Matching
<1>6. /\ Matching(call[g], page[g]) \in SUBSET Memory
      /\ IsFiniteSet(Matching(call[g], page[g])) /\ KeysDiffer(Matching(call[g], page[g]))
      /\ Cardinality(Matching(call[g], page[g])) <= Cardinality(page[g])
  BY <1>4, MatchingOfItems
<1>7. /\ Cardinality(S) \in Nat /\ Cardinality(page[g]) \in Nat
      /\ Cardinality(Matching(call[g], page[g])) \in Nat
  BY <1>2, <1>4, <1>6, FS_CardinalityType
<1> QED BY <1>3, <1>4, <1>5, <1>6, <1>7 DEF S

\* List reports memories of the tenant, subject and types it was asked for, that
\* are not expired, all from one state of the table or its replica; with HasMore
\* its page is full and something was left out (Query, List), as long as no
\* subject has the separator "#" as a letter.
THEOREM ListIsSound ==
  ASSUME "#" \notin Names
  PROVE  HSpec => ListSound
<1>1. ASSUME IInv, ListInv, [HNext]_hvars
      PROVE  [\A g \in Goroutines : Answers(g, {"List"}) =>
                \E view \in seen[g] :
                  /\ ans'[g] \subseteq Wanted(call[g], view)
                  /\ more'[g] => /\ Cardinality(ans'[g]) = ListLimit(g)
                                 /\ ans'[g] # Wanted(call[g], view)]_hvars
  <2> SUFFICES ASSUME HNext, NEW g \in Goroutines,
                      at[g] = "filter", at'[g] = "done", call[g].op = "List"
               PROVE  \E view \in seen[g] :
                        /\ ans'[g] \subseteq Wanted(call[g], view)
                        /\ more'[g] => /\ Cardinality(ans'[g]) = ListLimit(g)
                                       /\ ans'[g] # Wanted(call[g], view)
    BY <1>1 DEF Answers
  <2>1. ans'[g] = Listed(g) /\ more'[g] = HasMore(g)
    BY <1>1, FilterAnswers DEF Searches
  <2>2. PICK view \in seen[g] : ReadFrom(page[g], call[g], view)
    BY <1>1 DEF ListInv
  <2> DEFINE M == Matching(call[g], page[g])
  <2>3. /\ M \in SUBSET Memory /\ IsFiniteSet(M) /\ KeysDiffer(M)
        /\ M \subseteq Wanted(call[g], view)
    BY <1>1, <2>2, PageMatches
  <2>4. ListLimit(g) \in Nat /\ Cardinality(M) \in Nat
    BY <1>1, <2>3, LimitIsPositive, FS_CardinalityType
  <2>5. Listed(g) \subseteq M
    BY PageIsPart DEF Listed
  <2>6. ASSUME HasMore(g)
        PROVE  Cardinality(Listed(g)) = ListLimit(g) /\ Listed(g) # M
    <3>1. ListLimit(g) <= Cardinality(M) /\ ListLimit(g) # Cardinality(M)
      BY <2>4, <2>6 DEF HasMore
    <3>2. Cardinality(Listed(g)) = ListLimit(g)
      BY <2>3, <2>4, <3>1, PageIsFull DEF Listed
    <3> QED BY <3>1, <3>2
  <2> HIDE DEF M
  <2> QED BY <2>1, <2>3, <2>5, <2>6
<1> QED BY <1>1, HistoryTypes, ListHolds, PTL DEF HSpec, ListSound

\* The place of a memory among those the filter lets through is not behind the
\* place of its item.
LEMMA PlaceOfItem ==
  ASSUME NEW r, NEW p \in SUBSET Memory, NEW S \in SUBSET Memory, p \subseteq S,
         IsFiniteSet(S), NEW i \in S
  PROVE  LET m == itemToMemory(i) IN
         /\ SortKey(m) = SortKey(i) /\ Ahead(S, m) = Ahead(S, i)
         /\ Place(S, i) \in Nat
         /\ Place(Matching(r, p), m) \in Nat /\ Place(Matching(r, p), m) <= Place(S, i)
<1> DEFINE m == itemToMemory(i)
           T == {itemToMemory(x) : x \in Ahead(S, i)}
           f == [x \in Ahead(S, i) |-> itemToMemory(x)]
           Q == Ahead(Matching(r, p), m)
<1>1. \A x \in S : SortKey(itemToMemory(x)) = SortKey(x)
  BY ToMemory DEF SortKey
<1>2. Ahead(S, m) = Ahead(S, i) /\ Ahead(S, i) \in SUBSET S
  BY <1>1 DEF Ahead
<1>3. IsFiniteSet(Ahead(S, i)) /\ Cardinality(Ahead(S, i)) \in Nat
  BY <1>2, FS_Subset, FS_CardinalityType
<1>4. f \in Surjection(Ahead(S, i), T)
  BY DEF Surjection
<1>5. IsFiniteSet(T) /\ Cardinality(T) <= Cardinality(Ahead(S, i))
  <2> HIDE DEF T, f
  <2> QED BY <1>3, <1>4, FS_Surjection
<1>6. Q \subseteq T
  <2>1. ASSUME NEW y \in Q PROVE y \in T
    <3>1. PICK x \in p : y = itemToMemory(x) /\ Before(SortKey(m), SortKey(y))
      BY <2>1 DEF Ahead, Matching
    <3>2. x \in S /\ Before(SortKey(i), SortKey(x))
      BY <1>1, <3>1
    <3> QED BY <3>1, <3>2 DEF Ahead
  <2> QED BY <2>1
<1>7. Cardinality(Q) <= Cardinality(T) /\ Cardinality(Q) \in Nat /\ Cardinality(T) \in Nat
  <2> HIDE DEF Q, T
  <2> QED BY <1>5, <1>6, FS_Subset, FS_CardinalityType
<1> QED BY <1>1, <1>2, <1>3, <1>5, <1>7 DEF Place

\* What comes out of the sort by score and the cut.
LEMMA BestOf ==
  ASSUME NEW g, NEW S, IsFiniteSet(S), NEW n \in Nat, NEW T \in Best(g, S, n)
  PROVE  /\ T \subseteq S /\ Cardinality(T) <= n
         /\ \A x \in S \ T : Cardinality(T) = n /\ \A m \in T : ScoreOf(g, x) <= ScoreOf(g, m)
<1>1. /\ T \subseteq S /\ Cardinality(T) = (IF Cardinality(S) > n THEN n ELSE Cardinality(S))
      /\ \A m \in T, x \in S \ T : ScoreOf(g, x) <= ScoreOf(g, m)
  BY DEF Best
<1>2. Cardinality(S) \in Nat
  BY FS_CardinalityType
<1>3. ASSUME NEW x \in S \ T PROVE Cardinality(T) < Cardinality(S)
  BY <1>1, <1>3, SmallerInside
<1> QED BY <1>1, <1>2, <1>3

\* Search and Recall report memories they were asked for, all from one state of
\* the table or its replica, and pass one over only for better ones, as many as
\* the caller's limit, or because a default page of the subject's items comes
\* before it (List, Search), as long as no subject has the separator "#" as a
\* letter.
THEOREM SearchMissesLittle ==
  ASSUME "#" \notin Names
  PROVE  HSpec => SearchMissesOnlyBeyondPage
<1>1. ASSUME IInv, ListInv, [HNext]_hvars
      PROVE  [\A g \in Goroutines : Answers(g, Searches) =>
                \E view \in seen[g] :
                  LET fit == Scored(g, Wanted(call[g], view))
                      n   == SearchLimit(call[g].limit)
                  IN /\ ans'[g] \subseteq fit /\ Cardinality(ans'[g]) <= n
                     /\ \A m \in fit \ ans'[g] :
                          \/ /\ Cardinality(ans'[g]) = n
                             /\ \A x \in ans'[g] : ScoreOf(g, m) <= ScoreOf(g, x)
                          \/ PageHolds <= Cardinality({i \in Siblings(call[g], view) :
                                                     Before(SortKey(m), SortKey(i))})]_hvars
  <2> SUFFICES ASSUME HNext, NEW g \in Goroutines,
                      at[g] = "filter", at'[g] = "done", call[g].op \in Searches
               PROVE  \E view \in seen[g] :
                        LET fit == Scored(g, Wanted(call[g], view))
                            n   == SearchLimit(call[g].limit)
                        IN /\ ans'[g] \subseteq fit /\ Cardinality(ans'[g]) <= n
                           /\ \A m \in fit \ ans'[g] :
                                \/ /\ Cardinality(ans'[g]) = n
                                   /\ \A x \in ans'[g] : ScoreOf(g, m) <= ScoreOf(g, x)
                                \/ PageHolds <= Cardinality({i \in Siblings(call[g], view) :
                                                           Before(SortKey(m), SortKey(i))})
    BY <1>1 DEF Answers
  <2>1. PICK view \in seen[g] : ReadFrom(page[g], call[g], view)
    BY <1>1 DEF ListInv
  <2> DEFINE r == call[g]
             n == SearchLimit(r.limit)
             p == page[g]
             S == Selected(r, view)
             M == Matching(r, p)
             L == Listed(g)
             W == Wanted(r, view)
             T == ans'[g]
  <2>2. n \in Nat
    <3>1. r.limit \in Int
      BY <1>1, RequestFields DEF IInv, TypeOK, CallersOK, NoCall, Searches, SearchRequest
    <3> QED BY <3>1, DynamoAssumption DEF SearchLimit
  <2>3. /\ M \in SUBSET Memory /\ IsFiniteSet(M) /\ KeysDiffer(M) /\ M \subseteq W
        /\ S \in SUBSET Memory /\ IsFiniteSet(S) /\ KeysDiffer(S)
        /\ p \subseteq S /\ W = Matching(r, S)
        /\ \A i \in S \ p : PageHolds <= Place(S, i)
    <3>1. /\ view \in SUBSET Memory /\ IsFiniteSet(view) /\ OnePerKey(view) /\ p \subseteq S
          /\ \A i \in S \ p : PageHolds <= Place(S, i)
      BY <2>1 DEF ReadFrom
    <3>2. S \in SUBSET Memory /\ IsFiniteSet(S) /\ KeysDiffer(S)
      BY <3>1, SelectedKeysDiffer
    <3>3. M \in SUBSET Memory /\ IsFiniteSet(M) /\ KeysDiffer(M) /\ M \subseteq W
      BY <1>1, <2>1, PageMatches
    <3>4. W = Matching(r, S)
      BY <1>1, <3>1, MatchingIsWanted
    <3> QED BY <3>1, <3>2, <3>3, <3>4
  <2>4. S = Siblings(r, view)
    <3>1. r.subject \in Seq(Names)
      BY <1>1, RequestFields DEF IInv, TypeOK, CallersOK, NoCall, Searches, SearchRequest
    <3>2. view \in SUBSET Memory
      BY <2>1 DEF ReadFrom
    <3> QED BY <3>1, <3>2, PrefixIsSubject DEF Selected, SubjectPrefix, Siblings
  <2>5. L \subseteq M /\ L = {m \in M : Place(M, m) < ListDefault}
    BY <1>1, LimitIsPositive DEF Listed, LastBySortKey, Place, Ahead
  <2>6. T \in Best(g, Scored(g, L), n)
    BY <1>1, FilterAnswers DEF Searches
  <2>7. PageHolds \in Nat /\ ListDefault \in Nat /\ PageHolds <= ListDefault
    BY DynamoAssumption DEF PageHolds
  <2>8. IsFiniteSet(Scored(g, L)) /\ Scored(g, L) \subseteq L
    BY <2>3, <2>5, FS_Subset DEF Scored
  <2> HIDE DEF r, n, p, S, M, L, W, T
  <2>9. /\ T \subseteq Scored(g, L) /\ Cardinality(T) <= n
        /\ \A x \in Scored(g, L) \ T :
             Cardinality(T) = n /\ \A m \in T : ScoreOf(g, x) <= ScoreOf(g, m)
    <3> DEFINE Q == Scored(g, L)
    <3>1. IsFiniteSet(Q) /\ T \in Best(g, Q, n)
      BY <2>6, <2>8
    <3> HIDE DEF Q
    <3>2. /\ T \subseteq Q /\ Cardinality(T) <= n
          /\ \A x \in Q \ T : Cardinality(T) = n /\ \A m \in T : ScoreOf(g, x) <= ScoreOf(g, m)
      BY <2>2, <3>1, BestOf
    <3> QED BY <3>2 DEF Q
  <2>10. T \subseteq Scored(g, W)
    BY <2>3, <2>5, <2>9 DEF Scored
  <2>11. ASSUME NEW m \in Scored(g, W) \ T
         PROVE  \/ /\ Cardinality(T) = n
                   /\ \A x \in T : ScoreOf(g, m) <= ScoreOf(g, x)
                \/ PageHolds <= Cardinality({i \in S : Before(SortKey(m), SortKey(i))})
    <3>1. PICK i \in S : m = itemToMemory(i)
                           /\ ~Expired(m) /\ (r.kinds = {} \/ m.kind \in r.kinds)
      BY <2>3, <2>11 DEF Scored, Matching
    <3>2. /\ Ahead(S, m) = Ahead(S, i) /\ Place(S, i) \in Nat
          /\ Place(M, m) \in Nat /\ Place(M, m) <= Place(S, i)
      BY <2>3, <3>1, PlaceOfItem DEF M
    <3>3. {x \in S : Before(SortKey(m), SortKey(x))} = Ahead(S, i)
      BY <3>2 DEF Ahead
    <3>4. CASE m \in L
      <4>1. m \in Scored(g, L)
        BY <2>11, <3>4 DEF Scored
      <4> QED BY <2>9, <2>11, <4>1
    <3>5. CASE m \in M /\ m \notin L
      <4>1. ~(Place(M, m) < ListDefault)
        BY <2>5, <3>5
      <4>2. PageHolds <= Place(S, i)
        BY <2>7, <3>2, <4>1
      <4> QED BY <3>3, <4>2 DEF Place
    <3>6. CASE m \notin M
      <4>1. i \notin p
        BY <3>1, <3>6 DEF M, Matching
      <4> QED BY <2>3, <3>3, <4>1 DEF Place
    <3> QED BY <3>4, <3>5, <3>6
  <2> QED BY <2>4, <2>9, <2>10, <2>11 DEF T, W, n, r, S
<1> QED BY <1>1, HistoryTypes, ListHolds, PTL DEF HSpec, SearchMissesOnlyBeyondPage

-----------------------------------------------------------------------------
(* NewProvider, which creates the table: for any number of starters and      *)
(* restarts.                                                                 *)

\* CreatorReady does not carry over a step by itself: that a second start cannot
\* make the table rests on the table outliving its creation, and that a starter
\* about to answer found the TTL on rests on what it did on the way.
TableInv ==
  /\ TableTypeOK
  /\ CreatorReady
  /\ \A s \in Starters :
       /\ creator[s] => table # "absent"
       /\ start[s] \in {"describe", "create"} => ~creator[s]

\* TableInit puts every starter at its first request.
LEMMA TableStarts == TableInit => TableInv
  BY DEF TableInit, TableInv, TableTypeOK, CreatorReady, StartSteps

\* One starter, or the service, takes a step.
LEMMA TableSteps == TableInv /\ [TableNext]_tableVars => TableInv'
<1> SUFFICES ASSUME TableInv, [TableNext]_tableVars PROVE TableInv'
  OBVIOUS
<1> USE TableAssumption DEF TableInv, TableTypeOK, CreatorReady, StartSteps
<1>1. ASSUME NEW s \in Starters, DescribeTable(s) PROVE TableInv'
  BY <1>1 DEF DescribeTable, Reach, Fault
<1>2. ASSUME NEW s \in Starters, CreateTable(s) PROVE TableInv'
  <2>1. CASE table # "absent"
    BY <1>2, <2>1 DEF CreateTable, Reach, Fault
  <2>2. CASE table = "absent"
    <3>1. \A t \in Starters : ~creator[t]
      BY <2>2
    <3> QED BY <1>2, <2>2, <3>1 DEF CreateTable, Reach, Fault
  <2> QED BY <2>1, <2>2
<1>3. ASSUME NEW s \in Starters, Wait(s) PROVE TableInv'
  BY <1>3 DEF Wait, Reach, Fault
<1>4. ASSUME NEW s \in Starters, EnableTTL(s) PROVE TableInv'
  BY <1>4 DEF EnableTTL, Reach, Fault
<1>5. ASSUME NEW s \in Starters, Crash(s) PROVE TableInv'
  BY <1>5 DEF Crash, Reach, Running
<1>6. ASSUME NEW s \in Starters, Restart(s) PROVE TableInv'
  BY <1>6 DEF Restart, Reach
<1>7. CASE Activate
  BY <1>7 DEF Activate
<1>8. CASE UNCHANGED tableVars
  BY <1>8 DEF tableVars
<1> QED BY <1>1, <1>2, <1>3, <1>4, <1>5, <1>6, <1>7, <1>8 DEF TableNext, Step

\* Whatever happens to the starters, the table and the TTL are only asked for in
\* order, and every variable keeps its type.
THEOREM TableTypeCorrect == TableSpec => []TableTypeOK
<1>1. TableInv => TableTypeOK
  BY DEF TableInv
<1> QED BY <1>1, TableStarts, TableSteps, PTL DEF TableSpec

\* NewProvider that made the table returns one that is active and expires.
THEOREM CreatorCorrect == TableSpec => []CreatorReady
<1>1. TableInv => CreatorReady
  BY DEF TableInv
<1> QED BY <1>1, TableStarts, TableSteps, PTL DEF TableSpec
=============================================================================
