------------------------ MODULE ParameterStoreProofs ------------------------
(***************************************************************************)
(* Proofs about ParameterStore, for any number of goroutines, providers,   *)
(* parameters, versions and tries: types, the lock, Close, the mark of     *)
(* ListVersions, that the provider implements VaultSpec, and what List     *)
(* reports.                                                                *)
(***************************************************************************)
EXTENDS ParameterHistory, FiniteSetTheorems, TLAPS

\* An operation on a lock gives a lock.
LEMMA LockTypes ==
  ASSUME NEW l \in Locks(Goroutines), NEW g \in Goroutines
  PROVE  /\ RLock(l, g) \in Locks(Goroutines)
         /\ RUnlock(l, g) \in Locks(Goroutines)
         /\ Lock(l, g) \in Locks(Goroutines)
         /\ Unlock(l, g) \in Locks(Goroutines)
  BY DEF Locks, RLock, RUnlock, Lock, Unlock

\* Sending a goroutine to a step of the method it is in keeps the control part.
LEMMA GotoTypes ==
  ASSUME TypeOK, NEW g \in Goroutines, NEW s \in Steps,
         Goto(g, s), call' = call, call[g].op \in OpsAt(s)
  PROVE  at' \in [Goroutines -> Steps] /\ ControlOK'
  <1>1. at' \in [Goroutines -> Steps]
    BY DEF Goto, TypeOK, CallersOK
  <1>2. ASSUME NEW h \in Goroutines PROVE call'[h].op \in OpsAt(at'[h])
    <2>1. CASE h = g BY <2>1 DEF Goto, TypeOK, CallersOK
    <2>2. CASE h # g
      <3>1. at'[h] = at[h] BY <2>2 DEF Goto, TypeOK, CallersOK
      <3> QED BY <3>1 DEF TypeOK, ControlOK
    <2> QED BY <2>1, <2>2
  <1>3. ControlOK' BY <1>2 DEF ControlOK
  <1> QED BY <1>1, <1>3

\* Returning from a method keeps the types of what belongs to the callers.
LEMMA ReturnTypes ==
  ASSUME TypeOK, NEW g \in Goroutines, call[g].op # "none",
         NEW r \in Outcomes, NEW a \in SUBSET (Paths \cup Nat),
         ReturnRead(g, r, a) \/ ReturnWrite(g, r, a),
         current' \in [Goroutines -> SUBSET (Paths \cup Nat)]
  PROVE  CallersOK' /\ ControlOK'
  <1>1. rw' \in [Providers -> Locks(Goroutines)]
    <2>1. Home[g] \in Providers /\ rw[Home[g]] \in Locks(Goroutines)
      BY PSAssumption DEF TypeOK, CallersOK
    <2>2. \E l \in Locks(Goroutines) : rw' = [rw EXCEPT ![Home[g]] = l]
      BY <2>1, LockTypes DEF ReturnRead, ReturnWrite
    <2> QED BY <2>1, <2>2 DEF TypeOK, CallersOK
  <1>2. Answer(g, r, a) BY DEF ReturnRead, ReturnWrite
  <1>3. call[g].op \in OpsAt("done") BY DEF OpsAt, TypeOK, CallersOK
  <1>4. at' \in [Goroutines -> Steps] /\ ControlOK'
    BY <1>2, <1>3, GotoTypes DEF Answer, Steps
  <1>5. /\ res' \in [Goroutines -> Outcomes]
        /\ ans' \in [Goroutines -> SUBSET (Paths \cup Nat)]
        /\ UNCHANGED <<call, cursor, tries, issued>>
    BY <1>2 DEF Answer, TypeOK, CallersOK
  <1> QED BY <1>1, <1>4, <1>5 DEF TypeOK, CallersOK

\* A step keeps the types.
LEMMA TypeKept ==
  ASSUME TypeOK, [Next]_vars
  PROVE  TypeOK'
  <1>a. ASSUME NEW g \in Goroutines
        PROVE  Path(g) \in Paths
    BY DEF TypeOK, CallersOK, Path
  <1>b. ASSUME NEW g \in Goroutines, at[g] # "idle" PROVE call[g].op # "none"
    BY <1>b DEF TypeOK, CallersOK, ControlOK, OpsAt, Steps, WriteSteps, ReadSteps,
             Ops, WriteOps, ReadOps
  <1>c. ASSUME NEW g \in Goroutines, NEW s \in Steps, Goto(g, s),
               UNCHANGED <<rw, call, res, ans, current, cursor, tries, issued>>,
               call[g].op \in OpsAt(s)
        PROVE  CallersOK' /\ ControlOK'
    BY <1>c, GotoTypes DEF TypeOK, CallersOK
  <1>d. ASSUME NEW g \in Goroutines, at[g] # "idle", NEW r \in Outcomes,
               NEW a \in SUBSET (Paths \cup Nat),
               ReturnRead(g, r, a) \/ ReturnWrite(g, r, a),
               current' \in [Goroutines -> SUBSET (Paths \cup Nat)]
        PROVE  CallersOK' /\ ControlOK'
    BY <1>b, <1>d, ReturnTypes
  <1>e. current \in [Goroutines -> SUBSET (Paths \cup Nat)]
    BY DEF TypeOK, CallersOK
  <1>1. ASSUME NEW g \in Goroutines, Invoke(g) PROVE TypeOK'
    <2>1. PICK o \in Ops, p \in Paths, i \in Numbers \cup {0} :
            /\ issued' = IF o = "Set" THEN issued + 1 ELSE issued
            /\ o = "Set" => issued < MaxSets
            /\ call' = [call EXCEPT ![g] = [op |-> o, path |-> p, id |-> i]]
            /\ IF o \in ReadOps
               THEN Goto(g, "rlock") /\ rw' = [rw EXCEPT ![Home[g]] = RLock(@, g)]
               ELSE Goto(g, "lock") /\ UNCHANGED rw
      BY <1>1, PSAssumption DEF Invoke
    <2>2. o \in Ops /\ [op |-> o, path |-> p, id |-> i]
                         \in [op : Ops \cup {"none"}, path : Paths, id : Nat]
      BY PSAssumption DEF Numbers
    <2>3. rw' \in [Providers -> Locks(Goroutines)]
      <3>1. Home[g] \in Providers /\ rw[Home[g]] \in Locks(Goroutines)
        BY PSAssumption DEF TypeOK, CallersOK
      <3>2. \E l \in Locks(Goroutines) : (rw' = [rw EXCEPT ![Home[g]] = l] \/ UNCHANGED rw)
        BY <2>1, <3>1, LockTypes
      <3> QED BY <3>1, <3>2 DEF TypeOK, CallersOK
    <2>4. /\ at' \in [Goroutines -> Steps]
          /\ at'[g] = IF o \in ReadOps THEN "rlock" ELSE "lock"
          /\ \A h \in Goroutines \ {g} : at'[h] = at[h] /\ call'[h] = call[h]
          /\ call' \in [Goroutines -> [op : Ops \cup {"none"}, path : Paths, id : Nat]]
          /\ call'[g].op = o
      BY <2>1, <2>2 DEF Goto, TypeOK, CallersOK, Steps
    <2>5. o \in OpsAt(at'[g])
      BY <2>2, <2>4 DEF OpsAt, Ops
    <2>6. ControlOK'
      BY <2>4, <2>5 DEF TypeOK, ControlOK
    <2>7. issued' \in 0..MaxSets
      BY <2>1, PSAssumption DEF TypeOK, CallersOK
    <2> QED BY <1>1, <2>3, <2>4, <2>6, <2>7
            DEF Invoke, TypeOK, CallersOK, ServiceOK, service
  <1>2. ASSUME NEW g \in Goroutines, AnnounceWriter(g) PROVE TypeOK'
    <2>1. rw' \in [Providers -> Locks(Goroutines)]
      BY <1>2, LockTypes, PSAssumption DEF AnnounceWriter, TypeOK, CallersOK
    <2> QED BY <1>2, <2>1
            DEF AnnounceWriter, TypeOK, CallersOK, ServiceOK, ControlOK, service, callers
  <1>3. ASSUME NEW g \in Goroutines, EnterWrite(g) PROVE TypeOK'
    <2>1. call[g].op \in WriteOps
      BY <1>3 DEF EnterWrite, TypeOK, ControlOK, OpsAt
    <2>2. call[g].op # "Close" =>
            /\ FirstRequest(call[g].op) \in Steps
            /\ call[g].op \in OpsAt(FirstRequest(call[g].op))
      BY <2>1 DEF WriteOps, FirstRequest, OpsAt, Steps, WriteSteps
    <2>3. CallersOK' /\ ControlOK'
      BY <1>3, <1>c, <1>d, <1>e, <2>2 DEF EnterWrite, Proceed, ReturnWrite, Outcomes
    <2>4. closed' \in [Providers -> BOOLEAN]
      BY <1>3, PSAssumption DEF EnterWrite, TypeOK
    <2> QED BY <1>3, <2>3, <2>4 DEF EnterWrite, TypeOK, ServiceOK, service
  <1>4. ASSUME NEW g \in Goroutines, EnterRead(g) PROVE TypeOK'
    <2>1. call[g].op \in ReadOps
      BY <1>4 DEF EnterRead, TypeOK, ControlOK, OpsAt
    <2>2. FirstRequest(call[g].op) \in Steps /\ call[g].op \in OpsAt(FirstRequest(call[g].op))
      BY <2>1 DEF ReadOps, FirstRequest, OpsAt, Steps, ReadSteps
    <2>3. CallersOK' /\ ControlOK'
      BY <1>4, <1>c, <1>d, <1>e, <2>2 DEF EnterRead, Proceed, Outcomes
    <2> QED BY <1>4, <2>3 DEF EnterRead, TypeOK, ServiceOK, service
  <1>5. ASSUME NEW g \in Goroutines, PutParameter(g) \/ DeleteParameter(g) PROVE TypeOK'
    <2>1. CallersOK' /\ ControlOK'
      <3>1. CASE TryAgain(g)
        BY <1>5, <3>1 DEF TryAgain, TypeOK, CallersOK, ControlOK
      <3>2. ASSUME NEW r \in {"ok", "fault"}, ReturnWrite(g, r, {})
            PROVE  CallersOK' /\ ControlOK'
        <4>1. at[g] # "idle"
          BY <1>5 DEF PutParameter, DeleteParameter
        <4>2. current' \in [Goroutines -> SUBSET (Paths \cup Nat)]
          BY <1>e, <3>2 DEF ReturnWrite
        <4> QED BY <1>d, <3>2, <4>1, <4>2 DEF Outcomes
      <3> QED BY <1>5, <3>1, <3>2 DEF PutParameter, DeleteParameter
    <2>2. ServiceOK'
      <3>1. params \in [Paths -> Seq(Nat)] /\ Path(g) \in Paths /\ nextId \in Nat
        BY <1>a DEF TypeOK, ServiceOK
      <3>2. \E s \in Seq(Nat) :
              \/ params' = [params EXCEPT ![Path(g)] = s] /\ nextId' \in {nextId, nextId + 1}
              \/ UNCHANGED service
        <4>1. CASE PutParameter(g)
          <5> DEFINE s == Append(params[Path(g)], nextId)
          <5>1. s \in Seq(Nat)
            BY <3>1
          <5>2. \/ params' = [params EXCEPT ![Path(g)] = s] /\ nextId' = nextId + 1
                \/ UNCHANGED service
            BY <4>1, Zenon DEF PutParameter
          <5> HIDE DEF s
          <5> QED BY <5>1, <5>2
        <4>2. CASE DeleteParameter(g)
          <5>1. <<>> \in Seq(Nat)
            OBVIOUS
          <5> QED BY <4>2, <5>1 DEF DeleteParameter, service
        <4> QED BY <1>5, <4>1, <4>2
      <3>3. params' \in [Paths -> Seq(Nat)]
        BY <3>1, <3>2, ZenonT(30) DEF service
      <3>4. nextId' \in Nat
        BY <3>1, <3>2 DEF service
      <3> QED BY <3>3, <3>4 DEF ServiceOK
    <2> QED BY <1>5, <2>1, <2>2 DEF PutParameter, DeleteParameter, TypeOK
  <1>6. ASSUME NEW g \in Goroutines, GetParameter(g) \/ GetVersion(g) \/ Exists(g)
        PROVE  TypeOK'
    <2>1. params[Path(g)] \in Seq(Nat)
      BY <1>a DEF TypeOK, ServiceOK
    <2>2. PICK s, found, a : /\ Read(g, s, found, a)
                             /\ at[g] # "idle"
                             /\ found => a \in SUBSET (Paths \cup Nat)
      <3>1. CASE GetParameter(g)
        <4>1. Found(Path(g)) => {Last(params[Path(g)])} \in SUBSET (Paths \cup Nat)
          BY <2>1 DEF Found, Last
        <4> QED BY <3>1, <4>1 DEF GetParameter, Read
      <3>2. CASE GetVersion(g)
        <4>1. call[g].id \in DOMAIN params[Path(g)] =>
                {params[Path(g)][call[g].id]} \in SUBSET (Paths \cup Nat)
          BY <2>1
        <4> QED BY <3>2, <4>1 DEF GetVersion, Read
      <3>3. CASE Exists(g)
        <4>1. {p \in {Path(g)} : Found(p)} \in SUBSET (Paths \cup Nat)
          BY <1>a
        <4> QED BY <3>3, <4>1 DEF Exists, Read
      <3> QED BY <1>6, <3>1, <3>2, <3>3
    <2>3. \E r \in Outcomes, b \in SUBSET (Paths \cup Nat) : ReturnRead(g, r, b)
      BY <2>2 DEF Read, Outcomes
    <2>4. CallersOK' /\ ControlOK'
      BY <2>2, <2>3, <1>d, <1>e DEF Read
    <2> QED BY <2>2, <2>4 DEF Read, TypeOK, ServiceOK, service
  <1>7. ASSUME NEW g \in Goroutines, ListPage(g) PROVE TypeOK'
    <2>1. Page(g) \in SUBSET Paths /\ ans[g] \cup Page(g) \in SUBSET (Paths \cup Nat)
      BY <1>a, PSAssumption DEF Page, Rest, TypeOK, CallersOK
    <2>2. CASE \E r \in Outcomes, a \in SUBSET (Paths \cup Nat) : ReturnRead(g, r, a)
      <3>1. CallersOK' /\ ControlOK'
        BY <1>7, <1>d, <1>e, <2>2 DEF ListPage
      <3> QED BY <1>7, <3>1 DEF ListPage, TypeOK, ServiceOK, service
    <2>3. CASE /\ \E last \in Page(g) : cursor' = [cursor EXCEPT ![g] = Rank[last]]
               /\ ans' = [ans EXCEPT ![g] = @ \cup Page(g)]
               /\ UNCHANGED <<rw, at, call, res, tries, issued>>
      <3>1. cursor' \in [Goroutines -> Nat]
        BY <2>1, <2>3, PSAssumption DEF TypeOK, CallersOK
      <3>2. ans' \in [Goroutines -> SUBSET (Paths \cup Nat)]
        BY <2>1, <2>3 DEF TypeOK, CallersOK
      <3> QED BY <1>7, <2>3, <3>1, <3>2
              DEF ListPage, TypeOK, ServiceOK, CallersOK, ControlOK, service
    <2> QED BY <1>7, <2>1, <2>2, <2>3 DEF ListPage, Outcomes
  <1>8. ASSUME NEW g \in Goroutines, HistoryPage(g) PROVE TypeOK'
    <2>1. /\ params[Path(g)] \in Seq(Nat) /\ cursor[g] \in Nat
          /\ ans[g] \in SUBSET (Paths \cup Nat)
      BY <1>a DEF TypeOK, ServiceOK, CallersOK
    <2>2. Upto(g) \in Nat /\ Upto(g) <= Len(params[Path(g)])
      BY <2>1, PSAssumption DEF Upto
    <2>3. ans[g] \cup Seen(g) \in SUBSET (Paths \cup Nat)
      <3>1. \A i \in (cursor[g] + 1)..Upto(g) : params[Path(g)][i] \in Nat
        BY <2>1, <2>2
      <3> QED BY <2>1, <3>1 DEF Seen
    <2>4. CASE ReturnRead(g, "fault", {}) /\ UNCHANGED current
      <3>1. CallersOK' /\ ControlOK'
        BY <1>8, <1>d, <1>e, <2>4 DEF HistoryPage, Outcomes
      <3> QED BY <1>8, <3>1 DEF HistoryPage, TypeOK, ServiceOK, service
    <2>5. CASE /\ ReturnRead(g, "ok", ans[g] \cup Seen(g))
               /\ current' = [current EXCEPT ![g] = Marked(ans[g] \cup Seen(g))]
      <3>1. Marked(ans[g] \cup Seen(g)) \in SUBSET (Paths \cup Nat)
        BY <2>3 DEF Marked
      <3>2. current' \in [Goroutines -> SUBSET (Paths \cup Nat)]
        BY <1>e, <2>5, <3>1
      <3>3. CallersOK' /\ ControlOK'
        BY <1>8, <1>d, <2>3, <2>5, <3>2 DEF HistoryPage, Outcomes
      <3> QED BY <1>8, <3>3 DEF HistoryPage, TypeOK, ServiceOK, service
    <2>6. CASE /\ cursor' = [cursor EXCEPT ![g] = Upto(g)]
               /\ ans' = [ans EXCEPT ![g] = @ \cup Seen(g)]
               /\ UNCHANGED <<rw, at, call, res, current, tries, issued>>
      <3>1. cursor' \in [Goroutines -> Nat]
        BY <2>2, <2>6 DEF TypeOK, CallersOK
      <3>2. ans' \in [Goroutines -> SUBSET (Paths \cup Nat)]
        BY <2>3, <2>6 DEF TypeOK, CallersOK
      <3> QED BY <1>8, <2>6, <3>1, <3>2
              DEF HistoryPage, TypeOK, ServiceOK, CallersOK, ControlOK, service
    <2> QED BY <1>8, <2>4, <2>5, <2>6 DEF HistoryPage
  <1>9. ASSUME NEW g \in Goroutines, Return(g) PROVE TypeOK'
    <2>1. NoCall \in [op : Ops \cup {"none"}, path : Paths, id : Nat] /\ NoCall.op = "none"
      BY PSAssumption DEF NoCall
    <2>2. CallersOK'
      BY <1>9, <2>1 DEF Return, Goto, TypeOK, CallersOK, Steps, Outcomes
    <2>3. ControlOK'
      BY <1>9, <2>1, ZenonT(30) DEF Return, Goto, TypeOK, CallersOK, ControlOK, OpsAt
    <2> QED BY <1>9, <2>2, <2>3 DEF Return, TypeOK, ServiceOK, service
  <1>10. CASE UNCHANGED vars
    BY <1>10 DEF vars, service, callers, TypeOK, ServiceOK, CallersOK, ControlOK
  <1> QED
    BY <1>1, <1>2, <1>3, <1>4, <1>5, <1>6, <1>7, <1>8, <1>9, <1>10
    DEF Next, Progress, Request

\* Every variable has its type and every goroutine is at a step of the method
\* it called.
THEOREM TypeCorrect == Spec => []TypeOK
<1>1. Init => TypeOK
  <2> SUFFICES ASSUME Init PROVE TypeOK
    OBVIOUS
  <2>1. NoCall \in [op : Ops \cup {"none"}, path : Paths, id : Nat]
    BY PSAssumption DEF NoCall
  <2>2. Unlocked \in Locks(Goroutines)
    BY DEF Unlocked, Locks
  <2>3. CallersOK
    BY <2>1, <2>2, PSAssumption DEF Init, CallersOK, Steps, Outcomes
  <2>4. ControlOK
    BY DEF Init, ControlOK, NoCall, OpsAt
  <2> QED BY <2>3, <2>4 DEF Init, TypeOK, ServiceOK
<1>2. TypeOK /\ [Next]_vars => TypeOK'
  BY TypeKept
<1> QED BY <1>1, <1>2, PTL DEF Spec

-----------------------------------------------------------------------------
(* Locking.                                                                *)

\* What each step does to the lock and to the program counter.
LockStep(g) ==
  LET l == rw[Home[g]]
      Set(m, s) == rw' = [rw EXCEPT ![Home[g]] = m] /\ Goto(g, s) IN
  \/ at[g] = "idle" /\ (Set(RLock(l, g), "rlock") \/ Set(l, "lock"))
  \/ at[g] = "lock" /\ CanLock(l) /\ Set(Lock(l, g), "lock")
  \/ /\ at[g] = "lock" /\ HoldsWrite(l, g)
     /\ \/ Set(Unlock(l, g), "done")
        \/ ~closed[Home[g]] /\ \E s \in WriteSteps : Set(l, s)
  \/ /\ at[g] = "rlock" /\ HoldsRead(l, g)
     /\ \/ Set(RUnlock(l, g), "done")
        \/ ~closed[Home[g]] /\ \E s \in ReadSteps : Set(l, s)
  \/ at[g] \in WriteSteps /\ (Set(Unlock(l, g), "done") \/ Set(l, at[g]))
  \/ at[g] \in ReadSteps /\ (Set(RUnlock(l, g), "done") \/ Set(l, at[g]))
  \/ at[g] = "done" /\ Set(l, "idle")

\* Every step of the specification is one of those, or leaves them alone.
LEMMA StepsLock ==
  ASSUME TypeOK, [Next]_vars
  PROVE  \/ UNCHANGED <<rw, at, closed>>
         \/ \E g \in Goroutines :
              /\ LockStep(g)
              /\ \/ UNCHANGED closed
                 \/ /\ at[g] = "lock" /\ HoldsWrite(rw[Home[g]], g) /\ at'[g] = "done"
                    /\ closed' = [closed EXCEPT ![Home[g]] = TRUE]
  <1> USE DEF Goto
  <1>1. ASSUME NEW g \in Goroutines
        PROVE  /\ rw = [rw EXCEPT ![Home[g]] = rw[Home[g]]]
               /\ at = [at EXCEPT ![g] = at[g]]
    BY PSAssumption DEF TypeOK, CallersOK
  <1>2. ASSUME NEW g \in Goroutines, Invoke(g) PROVE LockStep(g) /\ UNCHANGED closed
    BY <1>1, <1>2 DEF Invoke, LockStep
  <1>3. ASSUME NEW g \in Goroutines, AnnounceWriter(g) PROVE LockStep(g) /\ UNCHANGED closed
    BY <1>1, <1>3 DEF AnnounceWriter, LockStep, callers
  <1>4. ASSUME NEW g \in Goroutines, EnterWrite(g)
        PROVE  /\ LockStep(g)
               /\ \/ UNCHANGED closed
                  \/ /\ at[g] = "lock" /\ HoldsWrite(rw[Home[g]], g) /\ at'[g] = "done"
                     /\ closed' = [closed EXCEPT ![Home[g]] = TRUE]
    <2>1. call[g].op \in WriteOps
      BY <1>4 DEF EnterWrite, TypeOK, ControlOK, OpsAt
    <2>2. call[g].op # "Close" => FirstRequest(call[g].op) \in WriteSteps
      BY <2>1 DEF WriteOps, FirstRequest, WriteSteps
    <2> QED BY <1>1, <1>4, <2>2
            DEF EnterWrite, Proceed, ReturnWrite, Answer, LockStep, TypeOK, CallersOK
  <1>5. ASSUME NEW g \in Goroutines, EnterRead(g) PROVE LockStep(g) /\ UNCHANGED closed
    <2>1. call[g].op \in ReadOps
      BY <1>5 DEF EnterRead, TypeOK, ControlOK, OpsAt
    <2>2. FirstRequest(call[g].op) \in ReadSteps
      BY <2>1 DEF ReadOps, FirstRequest, ReadSteps
    <2> QED BY <1>1, <1>5, <2>2 DEF EnterRead, Proceed, ReturnRead, Answer, LockStep
  <1>6. ASSUME NEW g \in Goroutines, PutParameter(g) \/ DeleteParameter(g)
        PROVE  LockStep(g) /\ UNCHANGED closed
    BY <1>1, <1>6 DEF PutParameter, DeleteParameter, TryAgain, ReturnWrite, Answer,
         LockStep, WriteSteps
  <1>7. ASSUME NEW g \in Goroutines,
               GetParameter(g) \/ GetVersion(g) \/ Exists(g) \/ ListPage(g) \/ HistoryPage(g)
        PROVE  LockStep(g) /\ UNCHANGED closed
    BY <1>1, <1>7 DEF GetParameter, GetVersion, Exists, Read, ListPage, HistoryPage,
         ReturnRead, Answer, LockStep, ReadSteps
  <1>8. ASSUME NEW g \in Goroutines, Return(g) PROVE LockStep(g) /\ UNCHANGED closed
    BY <1>1, <1>8 DEF Return, LockStep
  <1> QED BY <1>2, <1>3, <1>4, <1>5, <1>6, <1>7, <1>8
          DEF Next, Progress, Request, vars, callers

\* A lock step keeps the lock invariant.  Within one provider, a writer at work
\* has the lock to itself, so what another goroutine does to the lock leaves it
\* (and any reader at work) in possession.
LEMMA LockStepKeeps ==
  ASSUME TypeOK, LockInv, NEW g \in Goroutines, LockStep(g)
  PROVE  LockInv'
  <1> DEFINE l == rw[Home[g]]
             m == rw'[Home[g]]
  <1>1. /\ Home[g] \in Providers /\ l \in Locks(Goroutines)
        /\ \A r \in Providers \ {Home[g]} : rw'[r] = rw[r]
        /\ \A h \in Goroutines \ {g} : at'[h] = at[h]
        /\ g # NoWriter
    BY PSAssumption DEF LockStep, Goto, TypeOK, CallersOK
  <1>2. LET Set(k, s) == m = k /\ at'[g] = s IN
        \/ at[g] = "idle" /\ (Set(RLock(l, g), "rlock") \/ Set(l, "lock"))
        \/ at[g] = "lock" /\ CanLock(l) /\ Set(Lock(l, g), "lock")
        \/ /\ at[g] = "lock" /\ HoldsWrite(l, g)
           /\ (Set(Unlock(l, g), "done") \/ \E s \in WriteSteps : Set(l, s))
        \/ /\ at[g] = "rlock" /\ HoldsRead(l, g)
           /\ (Set(RUnlock(l, g), "done") \/ \E s \in ReadSteps : Set(l, s))
        \/ at[g] \in WriteSteps /\ (Set(Unlock(l, g), "done") \/ Set(l, at[g]))
        \/ at[g] \in ReadSteps /\ (Set(RUnlock(l, g), "done") \/ Set(l, at[g]))
        \/ at[g] = "done" /\ Set(l, "idle")
    BY <1>1 DEF LockStep, Goto, TypeOK, CallersOK
  <1> USE DEF Locks, RLock, RUnlock, Lock, Unlock, CanLock, HoldsRead, HoldsWrite,
              WriteSteps, ReadSteps
  <1>3. ASSUME NEW h \in Goroutines, h # g, Home[h] = Home[g]
        PROVE  /\ at'[h] \in WriteSteps => HoldsWrite(m, h)
               /\ at'[h] \in ReadSteps => HoldsRead(m, h)
               /\ at'[h] = "rlock" => h \in m.readers \cup m.parked
    <2>1. /\ at[h] \in WriteSteps => HoldsWrite(l, h)
          /\ at[h] \in ReadSteps => HoldsRead(l, h)
          /\ at[h] = "rlock" => h \in l.readers \cup l.parked
          /\ at[g] \in WriteSteps => HoldsWrite(l, g)
          /\ at[g] \in ReadSteps => HoldsRead(l, g)
          /\ at'[h] = at[h]
      BY <1>1, <1>3 DEF LockInv
    <2>2. h # NoWriter
      BY PSAssumption
    <2> QED BY <1>1, <1>2, <1>3, <2>1, <2>2
  <1>4. /\ at'[g] \in WriteSteps => HoldsWrite(m, g)
        /\ at'[g] \in ReadSteps => HoldsRead(m, g)
        /\ at'[g] = "rlock" => g \in m.readers \cup m.parked
    <2>1. /\ at[g] \in WriteSteps => HoldsWrite(l, g)
          /\ at[g] \in ReadSteps => HoldsRead(l, g)
      BY DEF LockInv
    <2> QED BY <1>1, <1>2, <2>1
  <1>5. ASSUME NEW h \in Goroutines, Home[h] # Home[g]
        PROVE  rw'[Home[h]] = rw[Home[h]] /\ at'[h] = at[h]
    BY <1>1, <1>5, PSAssumption
  <1> QED BY <1>3, <1>4, <1>5 DEF LockInv

\* Whoever makes a request holds its provider's lock as its method needs it.
THEOREM LockCorrect == Spec => []LockInv
<1>1. Init => LockInv
  BY DEF Init, LockInv, WriteSteps, ReadSteps
<1>2. TypeOK /\ LockInv /\ [Next]_vars => LockInv'
  <2> SUFFICES ASSUME TypeOK, LockInv, [Next]_vars PROVE LockInv'
    OBVIOUS
  <2>1. CASE UNCHANGED <<rw, at, closed>>
    BY <2>1 DEF LockInv
  <2>2. CASE \E g \in Goroutines : LockStep(g)
    BY <2>2, LockStepKeeps
  <2> QED BY <2>1, <2>2, StepsLock
<1> QED BY <1>1, <1>2, TypeCorrect, PTL DEF Spec

-----------------------------------------------------------------------------
(* Closing.                                                                *)

\* Once a provider is closed none of its callers is at a request, nor at another
\* try of one.  Close has the lock to itself when it sets the
\* flag, and a goroutine gets to its first request only past the closed test.
THEOREM CloseIsQuiet == Spec => []ClosedQuiet
<1>1. Init => ClosedQuiet
  BY PSAssumption DEF Init, ClosedQuiet
<1>2. TypeOK /\ LockInv /\ ClosedQuiet /\ [Next]_vars => ClosedQuiet'
  <2> SUFFICES ASSUME TypeOK, LockInv, ClosedQuiet, [Next]_vars,
                      NEW h \in Goroutines, closed'[Home[h]],
                      at'[h] \in WriteSteps \cup ReadSteps
               PROVE  FALSE
    BY DEF ClosedQuiet
  <2> USE DEF WriteSteps, ReadSteps
  <2>1. CASE UNCHANGED <<rw, at, closed>>
    BY <2>1 DEF ClosedQuiet
  <2>2. ASSUME NEW g \in Goroutines, LockStep(g),
               \/ UNCHANGED closed
               \/ /\ at[g] = "lock" /\ HoldsWrite(rw[Home[g]], g) /\ at'[g] = "done"
                  /\ closed' = [closed EXCEPT ![Home[g]] = TRUE]
        PROVE  FALSE
    <3>1. /\ \A k \in Goroutines \ {g} : at'[k] = at[k]
          /\ \E s \in Steps : at'[g] = s
          /\ Home[h] \in Providers /\ Home[g] \in Providers
      BY <2>2, PSAssumption DEF LockStep, Goto, TypeOK, CallersOK, Steps
    <3>2. CASE UNCHANGED closed
      <4>1. CASE h # g
        BY <3>1, <3>2, <4>1 DEF ClosedQuiet
      <4>2. CASE h = g
        <5>1. at[g] \in WriteSteps \cup ReadSteps \/ ~closed[Home[g]]
          BY <2>2, <4>2 DEF LockStep, Goto, TypeOK, CallersOK
        <5> QED BY <3>2, <4>2, <5>1 DEF ClosedQuiet
      <4> QED BY <4>1, <4>2
    <3>3. CASE /\ at[g] = "lock" /\ HoldsWrite(rw[Home[g]], g) /\ at'[g] = "done"
               /\ closed' = [closed EXCEPT ![Home[g]] = TRUE]
      <4>1. h # g /\ at'[h] = at[h]
        BY <3>1, <3>3
      <4>2. CASE Home[h] # Home[g]
        BY <3>1, <3>3, <4>1, <4>2 DEF ClosedQuiet, TypeOK
      <4>3. CASE Home[h] = Home[g]
        BY <3>3, <4>1, <4>3, PSAssumption DEF LockInv, HoldsWrite, HoldsRead
      <4> QED BY <4>2, <4>3
    <3> QED BY <2>2, <3>2, <3>3
  <2> QED BY <2>1, <2>2, StepsLock
<1> QED BY <1>1, <1>2, TypeCorrect, LockCorrect, PTL DEF Spec

-----------------------------------------------------------------------------
(* The version marked current.                                             *)

\* The versions of a parameter were stored in the order of their numbers.
Ordered(s, n) ==
  /\ \A i \in 1..Len(s) : s[i] < n
  /\ \A i, j \in 1..Len(s) : i < j => s[i] < s[j]

VersionsOrdered == \A p \in Paths : Ordered(params[p], nextId)

\* Nobody calls what is not on the menu, a call begins with nothing read, and a
\* history that is read undisturbed has collected the versions up to its cursor.
MenuKept(g) == call[g].op # "none" => <<call[g].op, Path(g)>> \in Menu[g]
Fresh(g)    == at[g] \in {"idle", "rlock"} => cursor[g] = 0 /\ ans[g] = {}
Collected(g) ==
  (at[g] = "history" /\ Undisturbed(g)) =>
     /\ cursor[g] <= Len(params[Path(g)])
     /\ ans[g] = {params[Path(g)][i] : i \in 1..cursor[g]}

HistoryInv ==
  VersionsOrdered /\ \A g \in Goroutines : MenuKept(g) /\ Fresh(g) /\ Collected(g)

LEMMA AppendOrdered ==
  ASSUME NEW n \in Nat, NEW s \in Seq(Nat), Ordered(s, n)
  PROVE  Ordered(Append(s, n), n + 1)
  <1>1. \A i \in 1..Len(s) : s[i] \in Nat /\ s[i] < n
    BY DEF Ordered
  <1>2. \A i, j \in 1..Len(s) : i < j => s[i] < s[j]
    BY DEF Ordered
  <1> DEFINE t == Append(s, n)
  <1>3. /\ Len(t) = Len(s) + 1 /\ Len(s) \in Nat
        /\ \A i \in 1..Len(s) : t[i] = s[i]
        /\ t[Len(s) + 1] = n
    OBVIOUS
  <1> HIDE DEF t
  <1> QED BY <1>1, <1>2, <1>3 DEF Ordered

\* What a step does to the parameters.
LEMMA ParamsStep ==
  ASSUME TypeOK, [Next]_vars
  PROVE  \/ UNCHANGED service
         \/ \E g \in Goroutines :
              /\ PutParameter(g)
              /\ params' = [params EXCEPT ![Path(g)] = Append(@, nextId)]
              /\ nextId' = nextId + 1
         \/ \E g \in Goroutines :
              /\ DeleteParameter(g)
              /\ params' = [params EXCEPT ![Path(g)] = <<>>]
              /\ nextId' = nextId
  <1>1. CASE UNCHANGED vars
    BY <1>1 DEF vars
  <1>2. ASSUME NEW g \in Goroutines, Invoke(g) \/ AnnounceWriter(g) \/ EnterWrite(g) \/ EnterRead(g) \/ Return(g)
        PROVE  UNCHANGED service
    BY <1>2 DEF Invoke, AnnounceWriter, EnterWrite, EnterRead, Return
  <1>3. ASSUME NEW g \in Goroutines, GetParameter(g) \/ GetVersion(g) \/ Exists(g) \/ ListPage(g) \/ HistoryPage(g)
        PROVE  UNCHANGED service
    BY <1>3 DEF GetParameter, GetVersion, Exists, Read, ListPage, HistoryPage
  <1>4. ASSUME NEW g \in Goroutines, PutParameter(g)
        PROVE  \/ UNCHANGED service
               \/ /\ params' = [params EXCEPT ![Path(g)] = Append(@, nextId)]
                  /\ nextId' = nextId + 1
    BY <1>4 DEF PutParameter
  <1>5. ASSUME NEW g \in Goroutines, DeleteParameter(g)
        PROVE  \/ UNCHANGED service
               \/ params' = [params EXCEPT ![Path(g)] = <<>>] /\ nextId' = nextId
    BY <1>5 DEF DeleteParameter, service
  <1> QED BY <1>1, <1>2, <1>3, <1>4, <1>5 DEF Next, Progress, Request

\* The numbers of the versions stay in the order in which they were stored.
LEMMA OrderedKept ==
  ASSUME TypeOK, VersionsOrdered, [Next]_vars
  PROVE  VersionsOrdered'
  <1>1. params \in [Paths -> Seq(Nat)] /\ nextId \in Nat
        /\ \A g \in Goroutines : Path(g) \in Paths
    BY DEF TypeOK, ServiceOK, CallersOK, Path
  <1>2. CASE UNCHANGED service
    BY <1>2 DEF VersionsOrdered, service
  <1>3. ASSUME NEW g \in Goroutines,
               params' = [params EXCEPT ![Path(g)] = Append(@, nextId)], nextId' = nextId + 1
        PROVE  VersionsOrdered'
    <2> SUFFICES ASSUME NEW p \in Paths PROVE Ordered(params'[p], nextId + 1)
      BY <1>3 DEF VersionsOrdered
    <2>1. CASE p = Path(g)
      <3>1. params'[p] = Append(params[p], nextId)
        BY <1>1, <1>3, <2>1, Zenon
      <3>2. params[p] \in Seq(Nat) /\ Ordered(params[p], nextId)
        BY <1>1 DEF VersionsOrdered
      <3> QED BY <1>1, <3>1, <3>2, AppendOrdered
    <2>2. CASE p # Path(g)
      <3>1. params'[p] = params[p]
        BY <1>1, <1>3, <2>2, Zenon
      <3>2. params[p] \in Seq(Nat) /\ Ordered(params[p], nextId)
        BY <1>1 DEF VersionsOrdered
      <3> QED BY <1>1, <3>1, <3>2 DEF Ordered
    <2> QED BY <2>1, <2>2
  <1>4. ASSUME NEW g \in Goroutines, params' = [params EXCEPT ![Path(g)] = <<>>], nextId' = nextId
        PROVE  VersionsOrdered'
    <2> SUFFICES ASSUME NEW p \in Paths PROVE Ordered(params'[p], nextId)
      BY <1>4 DEF VersionsOrdered
    <2>1. params'[p] = <<>> \/ params'[p] = params[p]
      BY <1>1, <1>4, Zenon
    <2> QED BY <2>1 DEF VersionsOrdered, Ordered
  <1> QED BY <1>2, <1>3, <1>4, ParamsStep

\* A step of g leaves the other callers alone and keeps what g knows of its call.
LEMMA CallerStep ==
  ASSUME TypeOK, NEW g \in Goroutines, MenuKept(g), Fresh(g), Invoke(g) \/ Progress(g)
  PROVE  /\ \A h \in Goroutines \ {g} :
              /\ at'[h] = at[h] /\ call'[h] = call[h] /\ ans'[h] = ans[h]
              /\ cursor'[h] = cursor[h]
         /\ MenuKept(g)' /\ Fresh(g)'
         /\ at'[g] = "history" =>
              \/ EnterRead(g) /\ UNCHANGED <<service, call, ans, cursor>>
              \/ HistoryPage(g)
  <1> USE DEF Goto, TypeOK, CallersOK, MenuKept, Fresh, Path
  <1>1. CASE Invoke(g)
    <2>1. PICK o \in Ops, p \in Paths, i \in Numbers \cup {0} :
            /\ <<o, p>> \in Menu[g]
            /\ call' = [call EXCEPT ![g] = [op |-> o, path |-> p, id |-> i]]
      BY <1>1 DEF Invoke
    <2>2. call'[g].op = o /\ call'[g].path = p /\ \A h \in Goroutines \ {g} : call'[h] = call[h]
      BY <2>1
    <2>3. MenuKept(g)'
      BY <2>1, <2>2
    <2>4. Fresh(g)' /\ at'[g] # "history"
      BY <1>1 DEF Invoke
    <2>5. \A h \in Goroutines \ {g} :
            at'[h] = at[h] /\ ans'[h] = ans[h] /\ cursor'[h] = cursor[h]
      BY <1>1 DEF Invoke
    <2> QED BY <2>2, <2>3, <2>4, <2>5
  <1>2. CASE AnnounceWriter(g)
    BY <1>2 DEF AnnounceWriter, callers
  <1>3. CASE EnterWrite(g)
    <2>1. call[g].op \in WriteOps
      BY <1>3 DEF EnterWrite, ControlOK, OpsAt
    <2>2. call[g].op # "Close" => FirstRequest(call[g].op) \in {"put", "delete"}
      BY <2>1 DEF WriteOps, FirstRequest
    <2> QED BY <1>3, <2>2 DEF EnterWrite, Proceed, ReturnWrite, Answer
  <1>4. CASE EnterRead(g)
    <2>1. call[g].op \in ReadOps
      BY <1>4 DEF EnterRead, ControlOK, OpsAt
    <2>2. FirstRequest(call[g].op) \in ReadSteps
      BY <2>1 DEF ReadOps, FirstRequest, ReadSteps
    <2> QED BY <1>4, <2>2 DEF EnterRead, Proceed, ReturnRead, Answer, ReadSteps
  <1>5. CASE PutParameter(g) \/ DeleteParameter(g)
    BY <1>5 DEF PutParameter, DeleteParameter, TryAgain, ReturnWrite, Answer
  <1>6. CASE GetParameter(g) \/ GetVersion(g) \/ Exists(g)
    BY <1>6 DEF GetParameter, GetVersion, Exists, Read, ReturnRead, Answer
  <1>7. CASE ListPage(g)
    BY <1>7 DEF ListPage, ReturnRead, Answer
  <1>8. CASE HistoryPage(g)
    BY <1>8 DEF HistoryPage, ReturnRead, Answer
  <1>9. CASE Return(g)
    BY <1>9 DEF Return, NoCall
  <1> QED BY <1>1, <1>2, <1>3, <1>4, <1>5, <1>6, <1>7, <1>8, <1>9 DEF Progress, Request

\* A page of the history extends what has been collected.
LEMMA PageCollects ==
  ASSUME TypeOK, NEW g \in Goroutines, Collected(g), at[g] = "history", Undisturbed(g)
  PROVE  /\ Upto(g) <= Len(params[Path(g)])
         /\ ans[g] \cup Seen(g) = {params[Path(g)][i] : i \in 1..Upto(g)}
  <1>1. /\ params[Path(g)] \in Seq(Nat) /\ cursor[g] \in Nat /\ PageSize \in Nat \ {0}
        /\ cursor[g] <= Len(params[Path(g)])
        /\ ans[g] = {params[Path(g)][i] : i \in 1..cursor[g]}
    BY PSAssumption DEF TypeOK, ServiceOK, CallersOK, Path, Collected
  <1>2. Upto(g) \in Nat /\ cursor[g] <= Upto(g) /\ Upto(g) <= Len(params[Path(g)])
    BY <1>1 DEF Upto
  <1>3. 1..Upto(g) = (1..cursor[g]) \cup ((cursor[g] + 1)..Upto(g))
    BY <1>1, <1>2
  <1> QED BY <1>1, <1>2, <1>3 DEF Seen

\* Of a history that is in order the last version is the one marked.
LEMMA LastIsMarked ==
  ASSUME NEW s \in Seq(Nat), NEW n \in Nat, Ordered(s, n), s # <<>>
  PROVE  Marked({s[i] : i \in 1..Len(s)}) = {Last(s)}
  <1>1. Len(s) \in Nat \ {0} /\ \A i \in 1..Len(s) : s[i] \in Nat
    OBVIOUS
  <1>2. \A i \in 1..Len(s) : i # Len(s) => s[i] < s[Len(s)]
    BY <1>1 DEF Ordered
  <1> DEFINE V == {s[i] : i \in 1..Len(s)}
  <1>3. s[Len(s)] \in V /\ \A v \in V : v \in Nat /\ v <= s[Len(s)]
    BY <1>1, <1>2
  <1> HIDE DEF V
  <1>4. Marked(V) = {s[Len(s)]}
    BY <1>3 DEF Marked
  <1> QED BY <1>4 DEF Last, V

LEMMA HistoryKept ==
  ASSUME TypeOK, LockInv, HistoryInv, [Next]_vars
  PROVE  HistoryInv'
  <1>1. VersionsOrdered'
    BY OrderedKept DEF HistoryInv
  <1>2. /\ params \in [Paths -> Seq(Nat)] /\ nextId \in Nat
        /\ \A h \in Goroutines : Path(h) \in Paths /\ cursor[h] \in Nat
    BY DEF TypeOK, ServiceOK, CallersOK, Path
  <1>3. CASE UNCHANGED vars
    BY <1>1, <1>3 DEF vars, service, callers, HistoryInv, MenuKept, Fresh, Collected,
         Undisturbed, Path
  <1>4. ASSUME NEW g \in Goroutines, Invoke(g) \/ Progress(g) PROVE HistoryInv'
    <2>1. MenuKept(g) /\ Fresh(g) /\ Collected(g)
      BY DEF HistoryInv
    <2>2. Collected(g)'
      <3> SUFFICES ASSUME at'[g] = "history", Undisturbed(g)' PROVE Collected(g)'
        BY DEF Collected
      <3>1. CASE EnterRead(g) /\ UNCHANGED <<service, call, ans, cursor>>
        BY <1>2, <2>1, <3>1 DEF EnterRead, Fresh, Collected, Path, service
      <3>2. CASE HistoryPage(g)
        <4>1. /\ call' = call /\ params' = params /\ at[g] = "history"
              /\ cursor' = [cursor EXCEPT ![g] = Upto(g)]
              /\ ans' = [ans EXCEPT ![g] = @ \cup Seen(g)]
          BY <3>2 DEF HistoryPage, ReturnRead, Answer, Goto, TypeOK, CallersOK, service
        <4>2. /\ Upto(g) <= Len(params[Path(g)])
              /\ ans[g] \cup Seen(g) = {params[Path(g)][i] : i \in 1..Upto(g)}
          BY <2>1, <4>1, PageCollects DEF Undisturbed, Path
        <4>3. cursor'[g] = Upto(g) /\ ans'[g] = ans[g] \cup Seen(g)
          BY <4>1 DEF TypeOK, CallersOK
        <4> QED BY <4>1, <4>2, <4>3 DEF Collected, Path
      <3> QED BY <1>4, <2>1, <3>1, <3>2, CallerStep
    <2>3. ASSUME NEW h \in Goroutines, h # g
          PROVE  MenuKept(h)' /\ Fresh(h)' /\ Collected(h)'
      <3>1. /\ at'[h] = at[h] /\ call'[h] = call[h] /\ ans'[h] = ans[h]
            /\ cursor'[h] = cursor[h] /\ Path(h)' = Path(h)
            /\ MenuKept(h) /\ Fresh(h) /\ Collected(h)
        BY <1>4, <2>1, <2>3, CallerStep DEF HistoryInv, Path
      <3>2. MenuKept(h)' /\ Fresh(h)' /\ (Undisturbed(h)' <=> Undisturbed(h))
        BY <3>1 DEF MenuKept, Fresh, Undisturbed
      <3>3. ASSUME at[h] = "history", Undisturbed(h)
            PROVE  /\ Len(params[Path(h)]) <= Len(params'[Path(h)])
                   /\ \A i \in 1..Len(params[Path(h)]) : params'[Path(h)][i] = params[Path(h)][i]
        <4>1. CASE UNCHANGED service
          BY <1>2, <4>1 DEF service
        <4>2. ASSUME NEW k \in Goroutines,
                     params' = [params EXCEPT ![Path(k)] = Append(@, nextId)]
              PROVE  /\ Len(params[Path(h)]) <= Len(params'[Path(h)])
                     /\ \A i \in 1..Len(params[Path(h)]) :
                          params'[Path(h)][i] = params[Path(h)][i]
          <5>1. \/ params'[Path(h)] = params[Path(h)]
                \/ params'[Path(h)] = Append(params[Path(h)], nextId)
            BY <1>2, <4>2, Zenon
          <5>2. params[Path(h)] \in Seq(Nat) /\ Len(params[Path(h)]) \in Nat
            BY <1>2
          <5>3. /\ Len(Append(params[Path(h)], nextId)) = Len(params[Path(h)]) + 1
                /\ \A i \in 1..Len(params[Path(h)]) :
                     Append(params[Path(h)], nextId)[i] = params[Path(h)][i]
            BY <1>2, <5>2
          <5>4. CASE params'[Path(h)] = params[Path(h)]
            BY <5>2, <5>4
          <5>5. CASE params'[Path(h)] = Append(params[Path(h)], nextId)
            <6> DEFINE t == Append(params[Path(h)], nextId)
            <6>1. params'[Path(h)] = t
              BY <5>5
            <6> HIDE DEF t
            <6> QED BY <5>2, <5>3, <6>1 DEF t
          <5> QED BY <5>1, <5>4, <5>5
        <4>3. ASSUME NEW k \in Goroutines, DeleteParameter(k),
                     params' = [params EXCEPT ![Path(k)] = <<>>]
              PROVE  params'[Path(h)] = params[Path(h)]
          <5>1. at[k] = "delete" /\ call[k].op = "Delete" /\ MenuKept(k)
            BY <4>3 DEF DeleteParameter, TypeOK, ControlOK, OpsAt, HistoryInv
          <5>2. Home[k] = Home[h] => FALSE
            BY <3>3, <5>1 DEF LockInv, WriteSteps, ReadSteps, HoldsRead, HoldsWrite
          <5>3. Path(k) # Path(h)
            BY <3>3, <5>1, <5>2 DEF MenuKept, Undisturbed
          <5> QED BY <1>2, <4>3, <5>3, Zenon
        <4>4. params[Path(h)] \in Seq(Nat)
          BY <1>2
        <4> QED BY <4>1, <4>2, <4>3, <4>4, ParamsStep
      <3>4. Collected(h)'
        <4> SUFFICES ASSUME at[h] = "history", Undisturbed(h)
                     PROVE  /\ cursor[h] <= Len(params'[Path(h)])
                            /\ ans[h] = {params'[Path(h)][i] : i \in 1..cursor[h]}
          BY <3>1, <3>2 DEF Collected
        <4>1. /\ cursor[h] <= Len(params[Path(h)])
              /\ ans[h] = {params[Path(h)][i] : i \in 1..cursor[h]}
          BY <3>1 DEF Collected
        <4>2. params[Path(h)] \in Seq(Nat)
          BY <1>2
        <4>3. \A i \in 1..cursor[h] : params'[Path(h)][i] = params[Path(h)][i]
          BY <1>2, <3>3, <4>1, <4>2
        <4>4. Len(params'[Path(h)]) \in Int
          <5>1. params'[Path(h)] \in Seq(Nat)
            BY <1>2, TypeKept DEF ServiceOK, TypeOK
          <5> QED BY <5>1
        <4>5. {params[Path(h)][i] : i \in 1..cursor[h]} = {params'[Path(h)][i] : i \in 1..cursor[h]}
          BY <4>3
        <4>6. Len(params[Path(h)]) \in Int /\ cursor[h] \in Int
          BY <1>2, <4>2
        <4>7. cursor[h] <= Len(params'[Path(h)])
          BY <3>3, <4>1, <4>4, <4>6
        <4> QED BY <4>1, <4>5, <4>7
      <3> QED BY <3>2, <3>4
    <2> QED BY <1>1, <1>4, <2>1, <2>2, <2>3, CallerStep DEF HistoryInv
  <1> QED BY <1>3, <1>4 DEF Next

\* What a listing of versions relies on holds throughout.
LEMMA HistoryHolds == Spec => []HistoryInv
<1>1. Init => HistoryInv
  BY PSAssumption DEF Init, HistoryInv, VersionsOrdered, Ordered, MenuKept, Fresh, Collected, NoCall
<1>2. TypeOK /\ LockInv /\ HistoryInv /\ [Next]_vars => HistoryInv'
  BY HistoryKept
<1> QED BY <1>1, <1>2, TypeCorrect, LockCorrect, PTL DEF Spec

\* ListVersions marks the version that is the newest when it answers, however
\* many pages it read and whoever set the parameter in the meantime.
THEOREM MarksTheNewest == Spec => CurrentIsNewest
<1> DEFINE Right == \A g \in Goroutines :
              (at[g] = "history" /\ at'[g] = "done" /\ res'[g] = "ok" /\ Undisturbed(g))
              => current'[g] = {Last(params[Path(g)])}
<1>1. TypeOK /\ HistoryInv /\ [Next]_vars => [Right]_vars
  <2> SUFFICES ASSUME TypeOK, HistoryInv, [Next]_vars, NEW g \in Goroutines,
                      at[g] = "history", at'[g] = "done", res'[g] = "ok", Undisturbed(g)
               PROVE  current'[g] = {Last(params[Path(g)])}
    OBVIOUS
  <2>1. HistoryPage(g)
    <3>1. PICK k \in Goroutines : Invoke(k) \/ Progress(k)
      BY DEF Next, vars, callers
    <3>2. k = g
      BY <3>1, CallerStep DEF HistoryInv
    <3> QED BY <3>1, <3>2
            DEF Progress, Request, Invoke, AnnounceWriter, EnterWrite, EnterRead, PutParameter,
                DeleteParameter, GetParameter, GetVersion, Exists, Read, ListPage, Return
  <2>2. /\ Found(Path(g)) /\ Upto(g) = Len(params[Path(g)])
        /\ current' = [current EXCEPT ![g] = Marked(ans[g] \cup Seen(g))]
    BY <2>1 DEF HistoryPage, ReturnRead, Answer, TypeOK, CallersOK
  <2>3. /\ params[Path(g)] \in Seq(Nat) /\ params[Path(g)] # <<>> /\ nextId \in Nat
        /\ Ordered(params[Path(g)], nextId)
    BY <2>2 DEF Found, TypeOK, ServiceOK, CallersOK, Path, HistoryInv, VersionsOrdered
  <2>4. ans[g] \cup Seen(g) = {params[Path(g)][i] : i \in 1..Len(params[Path(g)])}
    BY <2>2, PageCollects DEF HistoryInv
  <2>5. Marked(ans[g] \cup Seen(g)) = {Last(params[Path(g)])}
    BY <2>3, <2>4, LastIsMarked
  <2> QED BY <2>2, <2>5 DEF TypeOK, CallersOK
<1> QED BY <1>1, HistoryHolds, TypeCorrect, PTL DEF Spec, CurrentIsNewest
-----------------------------------------------------------------------------
(* The refinement of VaultSpec.                                            *)

\* Only a listing has collected something before it answers; List, names.
Reporting ==
  \A g \in Goroutines :
    /\ at[g] = "page" => ans[g] \subseteq Paths
    /\ at[g] \notin {"page", "history", "done"} => ans[g] = {}

RInv == TypeOK /\ ClosedQuiet /\ HistoryInv /\ Reporting

\* The versions of a parameter as a set.
LEMMA RangeFacts ==
  /\ Range(<<>>) = {}
  /\ \A s \in Seq(Nat) : Range(s) = {s[i] : i \in 1..Len(s)}
  /\ \A s \in Seq(Nat), n \in Nat : Range(Append(s, n)) = Range(s) \cup {n}
  /\ \A s \in Seq(Nat) : s # <<>> <=> Range(s) # {}
<1>1. Range(<<>>) = {}
  BY DEF Range
<1>2. ASSUME NEW s \in Seq(Nat) PROVE Range(s) = {s[i] : i \in 1..Len(s)}
  BY DEF Range
<1>3. ASSUME NEW s \in Seq(Nat), NEW n \in Nat PROVE Range(Append(s, n)) = Range(s) \cup {n}
  <2> DEFINE t == Append(s, n)
  <2>1. /\ DOMAIN t = 1..(Len(s) + 1) /\ DOMAIN s = 1..Len(s) /\ Len(s) \in Nat
        /\ \A i \in 1..Len(s) : t[i] = s[i]
        /\ t[Len(s) + 1] = n
    OBVIOUS
  <2> HIDE DEF t
  <2>2. 1..(Len(s) + 1) = (1..Len(s)) \cup {Len(s) + 1}
    BY <2>1
  <2>3. Range(t) = Range(s) \cup {n}
    BY <2>1, <2>2 DEF Range
  <2> QED BY <2>3 DEF t
<1>4. ASSUME NEW s \in Seq(Nat) PROVE s # <<>> <=> Range(s) # {}
  <2>1. s # <<>> => 1 \in DOMAIN s
    OBVIOUS
  <2> QED BY <1>1, <2>1 DEF Range
<1> QED BY <1>1, <1>2, <1>3, <1>4

\* Stored with one entry changed.
LEMMA StoredAt ==
  ASSUME NEW p \in Paths, NEW s, Stored'[p] = s,
         \A q \in Paths \ {p} : Stored'[q] = Stored[q]
  PROVE  Stored' = [Stored EXCEPT ![p] = s]
<1> DEFINE f == Stored
           h == Stored'
<1>1. f = [q \in Paths |-> f[q]] /\ h = [q \in Paths |-> h[q]]
  BY Zenon DEF Stored
<1>2. h[p] = s /\ \A q \in Paths \ {p} : h[q] = f[q]
  OBVIOUS
<1> HIDE DEF f, h
<1>3. h = [f EXCEPT ![p] = s]
  BY <1>1, <1>2
<1> QED BY <1>3 DEF f, h

\* Stored and one entry of it.
LEMMA StoredIs ==
  ASSUME NEW q \in Paths
  PROVE  Stored[q] = Range(params[q]) /\ Stored'[q] = Range(params'[q])
<1>1. Stored[q] = Range(params[q])
  BY Zenon DEF Stored
<1>2. Stored' = [r \in Paths |-> Range(params'[r])]
  BY DEF Stored
<1>3. Stored'[q] = Range(params'[q])
  BY <1>2, Zenon
<1> QED BY <1>1, <1>3

LEMMA StoreGrows ==
  ASSUME TypeOK, VersionsOrdered, NEW p \in Paths,
         params' = [params EXCEPT ![p] = Append(@, nextId)]
  PROVE  Vault!Grow(p)
<1>1. params \in [Paths -> Seq(Nat)] /\ nextId \in Nat
  BY DEF TypeOK, ServiceOK
<1>2. params'[p] = Append(params[p], nextId) /\ \A q \in Paths \ {p} : params'[q] = params[q]
  BY <1>1, Zenon
<1>3. Range(params'[p]) = Range(params[p]) \cup {nextId}
  BY <1>1, <1>2, RangeFacts
<1>4. Stored' = [Stored EXCEPT ![p] = @ \cup {nextId}]
  <2>1. Stored'[p] = Stored[p] \cup {nextId} /\ \A q \in Paths \ {p} : Stored'[q] = Stored[q]
    BY <1>2, <1>3, StoredIs
  <2> QED BY <2>1, StoredAt
<1>5. \A q \in Paths : \A j \in Stored[q] : j < nextId
  <2> SUFFICES ASSUME NEW q \in Paths, NEW j \in Stored[q] PROVE j < nextId
    OBVIOUS
  <2>1. params[q] \in Seq(Nat) /\ j \in Range(params[q])
    BY <1>1 DEF Stored
  <2>2. PICK i \in 1..Len(params[q]) : j = params[q][i]
    BY <2>1, RangeFacts
  <2> QED BY <2>2 DEF VersionsOrdered, Ordered
<1>6. nextId \in UNION {Stored'[q] : q \in Paths}
  <2>1. nextId \in Stored'[p]
    BY <1>3 DEF Stored
  <2> QED BY <2>1
<1> QED BY <1>4, <1>5, <1>6 DEF Vault!Grow

LEMMA StoreEmptied ==
  ASSUME TypeOK, NEW p \in Paths, params' = [params EXCEPT ![p] = <<>>]
  PROVE  Stored' = [Stored EXCEPT ![p] = {}]
<1>1. params \in [Paths -> Seq(Nat)]
  BY DEF TypeOK, ServiceOK
<1>2. params'[p] = <<>> /\ \A q \in Paths \ {p} : params'[q] = params[q]
  BY <1>1, Zenon
<1>3. Range(params'[p]) = {}
  BY <1>2, RangeFacts
<1>4. Stored'[p] = {} /\ \A q \in Paths \ {p} : Stored'[q] = Stored[q]
  BY <1>2, <1>3, StoredIs
<1> QED BY <1>4, StoredAt

\* The last version of a parameter is the newest of them.
LEMMA LastIsNewest ==
  ASSUME TypeOK, VersionsOrdered, NEW p \in Paths, Found(p)
  PROVE  Vault!Newest(p, Last(params[p]))
<1>1. params[p] \in Seq(Nat) /\ params[p] # <<>>
  BY DEF TypeOK, ServiceOK, Found
<1>2. Len(params[p]) \in Nat \ {0} /\ \A i \in 1..Len(params[p]) : params[p][i] \in Nat
  BY <1>1
<1>3. \A i \in 1..Len(params[p]) : params[p][i] <= params[p][Len(params[p])]
  <2> SUFFICES ASSUME NEW i \in 1..Len(params[p]) PROVE params[p][i] <= params[p][Len(params[p])]
    OBVIOUS
  <2>1. i < Len(params[p]) => params[p][i] < params[p][Len(params[p])]
    BY <1>2 DEF VersionsOrdered, Ordered
  <2>2. params[p][i] \in Nat /\ params[p][Len(params[p])] \in Nat
    BY <1>2
  <2> QED BY <1>2, <2>1, <2>2
<1>4. Stored[p] = {params[p][i] : i \in 1..Len(params[p])}
  BY <1>1, RangeFacts DEF Stored
<1> QED BY <1>2, <1>3, <1>4 DEF Vault!Newest, Last

\* A method answers.
LEMMA AnswersVault ==
  ASSUME TypeOK, Reporting, NEW g \in Goroutines, at[g] \notin {"idle", "done"},
         NEW r, NEW a, ReturnRead(g, r, a) \/ ReturnWrite(g, r, a)
  PROVE  /\ Vault!Answer(g, r, a) /\ Reporting' /\ Reported'[g] = a
         /\ Phase[g] = "pending"
<1>1. /\ at' = [at EXCEPT ![g] = "done"] /\ res' = [res EXCEPT ![g] = r]
      /\ ans' = [ans EXCEPT ![g] = a] /\ call' = call
  BY DEF ReturnRead, ReturnWrite, Answer, Goto
<1>2. at \in [Goroutines -> Steps] /\ ans = [h \in Goroutines |-> ans[h]]
  BY DEF TypeOK, CallersOK
<1>3. /\ at'[g] = "done" /\ ans'[g] = a
      /\ \A h \in Goroutines \ {g} : at'[h] = at[h] /\ ans'[h] = ans[h]
  BY <1>1, <1>2
<1>4. Phase[g] = "pending" /\ Phase' = [Phase EXCEPT ![g] = "done"]
  BY <1>3 DEF Phase
<1>5. Reported' = [Reported EXCEPT ![g] = a] /\ Reported'[g] = a
  BY <1>3 DEF Reported
<1>6. Reporting'
  BY <1>3 DEF Reporting
<1> QED BY <1>1, <1>4, <1>5, <1>6 DEF Vault!Answer

\* A method goes on: nothing that its caller could see.
LEMMA GoesOn ==
  ASSUME TypeOK, Reporting, NEW g \in Goroutines, at[g] \in {"lock", "rlock"},
         NEW s, s \notin {"idle", "done"}, Goto(g, s), UNCHANGED <<params, closed, call, res, ans>>
  PROVE  UNCHANGED Vault!vars /\ Reporting'
<1>1. at'[g] = s /\ \A h \in Goroutines \ {g} : at'[h] = at[h]
  BY DEF Goto, TypeOK, CallersOK
<1>2. Phase' = Phase /\ Stored' = Stored
  BY <1>1 DEF Phase, Stored
<1>3. ans[g] = {}
  BY DEF Reporting
<1>4. Reported' = Reported
  BY <1>1, <1>3 DEF Reported
<1>5. Reporting'
  BY <1>1, <1>3 DEF Reporting
<1> QED BY <1>2, <1>4, <1>5 DEF Vault!vars

LEMMA InvokeCalls ==
  ASSUME RInv, NEW g \in Goroutines, Invoke(g)
  PROVE  Vault!Call(g) /\ Reporting'
<1>1. PICK s \in {"lock", "rlock"} : Goto(g, s)
  BY DEF Invoke
<1>2. /\ at[g] = "idle" /\ UNCHANGED <<params, closed, res, ans>>
      /\ \A h \in Goroutines \ {g} : call'[h] = call[h]
  BY DEF Invoke, service, RInv, TypeOK, CallersOK
<1>3. at'[g] = s /\ \A h \in Goroutines \ {g} : at'[h] = at[h]
  BY <1>1 DEF Goto, RInv, TypeOK, CallersOK
<1>4. Phase[g] = "idle" /\ Phase' = [Phase EXCEPT ![g] = "pending"] /\ Stored' = Stored
  BY <1>2, <1>3 DEF Phase, Stored
<1>5. ans[g] = {}
  BY <1>2 DEF RInv, Reporting
<1>6. Reported' = Reported
  BY <1>2, <1>3, <1>5 DEF Reported
<1>7. Reporting'
  BY <1>2, <1>3, <1>5 DEF RInv, Reporting
<1> QED BY <1>2, <1>4, <1>6, <1>7 DEF Vault!Call

LEMMA ReturnReturns ==
  ASSUME RInv, NEW g \in Goroutines, Return(g)
  PROVE  Vault!Return(g) /\ Reporting'
<1>1. /\ at[g] = "done" /\ UNCHANGED <<params, closed>>
      /\ res' = [res EXCEPT ![g] = "none"]
      /\ \A h \in Goroutines \ {g} : call'[h] = call[h] /\ at'[h] = at[h] /\ ans'[h] = ans[h]
      /\ at'[g] = "idle" /\ ans'[g] = {}
  BY DEF Return, Goto, service, RInv, TypeOK, CallersOK
<1>2. Phase[g] = "done" /\ Phase' = [Phase EXCEPT ![g] = "idle"] /\ Stored' = Stored
  BY <1>1 DEF Phase, Stored
<1>3. Reported' = [Reported EXCEPT ![g] = {}]
  BY <1>1 DEF Reported
<1>4. Reporting'
  BY <1>1 DEF RInv, Reporting
<1> QED BY <1>1, <1>2, <1>3, <1>4 DEF Vault!Return

VaultStep(g) ==
  \/ UNCHANGED Vault!vars
  \/ Vault!Write(g) \/ Vault!LostWrite(g) \/ Vault!Read(g) \/ Vault!Missing(g)
  \/ Vault!Fail(g) \/ Vault!Refuse(g) \/ Vault!Close(g)

LEMMA EnterSteps ==
  ASSUME RInv, NEW g \in Goroutines, AnnounceWriter(g) \/ EnterWrite(g) \/ EnterRead(g)
  PROVE  VaultStep(g) /\ Reporting'
<1>1. UNCHANGED <<params, Stored>> /\ at[g] \in {"lock", "rlock"}
  BY DEF AnnounceWriter, EnterWrite, EnterRead, service, Stored
<1>2. CASE /\ closed' = [closed EXCEPT ![Home[g]] = TRUE]
           /\ call[g].op = "Close" /\ ReturnWrite(g, "ok", {})
  BY <1>1, <1>2, AnswersVault DEF RInv, VaultStep, Vault!Close
<1>3. CASE /\ closed[Home[g]] /\ closed' = closed
           /\ ReturnRead(g, "closed", {}) \/ ReturnWrite(g, "closed", {})
  BY <1>1, <1>3, AnswersVault DEF RInv, VaultStep, Vault!Refuse
<1>4. ASSUME Proceed(g), closed' = closed, call[g].op # "Close", call[g].op # "none"
      PROVE  VaultStep(g) /\ Reporting'
  <2>1. FirstRequest(call[g].op) \notin {"idle", "done"}
    BY DEF FirstRequest
  <2>2. Goto(g, FirstRequest(call[g].op)) /\ UNCHANGED <<params, closed, call, res, ans>>
    BY <1>1, <1>4 DEF Proceed
  <2> HIDE DEF FirstRequest
  <2>3. UNCHANGED Vault!vars /\ Reporting'
    BY <1>1, <2>1, <2>2, GoesOn DEF RInv
  <2> QED BY <2>3 DEF VaultStep
<1>5. call[g].op # "none"
  BY <1>1 DEF RInv, TypeOK, ControlOK, OpsAt, WriteOps, ReadOps
<1>6. CASE AnnounceWriter(g)
  BY <1>6 DEF AnnounceWriter, service, callers, VaultStep, Vault!vars, Phase, Reported, Stored,
              RInv, Reporting
<1>7. CASE EnterWrite(g)
  BY <1>2, <1>3, <1>4, <1>5, <1>7 DEF EnterWrite
<1>8. CASE EnterRead(g)
  <2>1. call[g].op # "Close"
    BY <1>8 DEF EnterRead, RInv, TypeOK, ControlOK, OpsAt, ReadOps
  <2> QED BY <1>3, <1>4, <1>5, <1>8, <2>1 DEF EnterRead
<1> QED BY <1>6, <1>7, <1>8

LEMMA WritingSteps ==
  ASSUME RInv, NEW g \in Goroutines, PutParameter(g) \/ DeleteParameter(g)
  PROVE  VaultStep(g) /\ Reporting'
<1>1. /\ at[g] \in WriteSteps /\ at[g] \notin {"idle", "done", "page", "history"}
      /\ UNCHANGED closed /\ ~closed[Home[g]] /\ Path(g) \in Paths
  BY DEF PutParameter, DeleteParameter, WriteSteps, RInv, ClosedQuiet, TypeOK, CallersOK, Path
<1>2. CASE UNCHANGED params /\ ReturnWrite(g, "fault", {})
  <2>1. Vault!Answer(g, "fault", {}) /\ Reporting' /\ UNCHANGED Stored
    BY <1>1, <1>2, AnswersVault DEF RInv, Stored
  <2> QED BY <1>1, <2>1 DEF VaultStep, Vault!Fail
<1>3. ASSUME NEW r \in {"ok", "fault"}, ReturnWrite(g, r, {}), Vault!Effect(g)
      PROVE  VaultStep(g) /\ Reporting'
  <2>1. Vault!Answer(g, r, {}) /\ Reporting'
    BY <1>1, <1>3, AnswersVault DEF RInv
  <2> QED BY <1>1, <1>3, <2>1 DEF VaultStep, Vault!Fail, Vault!Write
<1>4. ASSUME TryAgain(g), Vault!Effect(g)
      PROVE  VaultStep(g) /\ Reporting'
  <2>1. Phase[g] = "pending" /\ UNCHANGED <<closed, Phase, call, res, Reported>>
    BY <1>1, <1>4 DEF TryAgain, Phase, Reported
  <2>2. Reporting'
    BY <1>4 DEF TryAgain, RInv, Reporting
  <2> QED BY <1>1, <1>4, <2>1, <2>2 DEF VaultStep, Vault!LostWrite
<1>5. CASE PutParameter(g)
  <2>1. call[g].op = "Set"
    BY <1>5 DEF PutParameter, RInv, TypeOK, ControlOK, OpsAt
  <2>2. params' = [params EXCEPT ![Path(g)] = Append(@, nextId)] => Vault!Effect(g)
    BY <1>1, <2>1, StoreGrows DEF RInv, HistoryInv, Vault!Effect, Vault!Path, Path
  <2> QED BY <1>2, <1>3, <1>4, <1>5, <2>2 DEF PutParameter, service
<1>6. CASE DeleteParameter(g)
  <2>1. call[g].op = "Delete"
    BY <1>6 DEF DeleteParameter, RInv, TypeOK, ControlOK, OpsAt
  <2>2. params' = [params EXCEPT ![Path(g)] = <<>>] => Vault!Effect(g)
    BY <1>1, <2>1, StoreEmptied DEF RInv, Vault!Effect, Vault!Path, Path
  <2> QED BY <1>2, <1>3, <1>4, <1>6, <2>2 DEF DeleteParameter
<1> QED BY <1>5, <1>6

\* A method that fails to read, or finds nothing, changes nothing.
LEMMA FailedReads ==
  ASSUME RInv, NEW g \in Goroutines, at[g] \in ReadSteps, UNCHANGED <<closed, params>>,
         ReturnRead(g, "fault", {})
  PROVE  VaultStep(g) /\ Reporting'
<1>1. at[g] \notin {"idle", "done"} /\ ~closed[Home[g]] /\ UNCHANGED Stored
  BY DEF ReadSteps, RInv, ClosedQuiet, Stored
<1>2. Vault!Answer(g, "fault", {}) /\ Reporting'
  BY <1>1, AnswersVault DEF RInv
<1> QED BY <1>1, <1>2 DEF VaultStep, Vault!Fail

LEMMA ReadingSteps ==
  ASSUME RInv, NEW g \in Goroutines, GetParameter(g) \/ GetVersion(g) \/ Exists(g)
  PROVE  VaultStep(g) /\ Reporting'
<1>1. /\ at[g] \in ReadSteps /\ at[g] \notin {"idle", "done"}
      /\ UNCHANGED <<closed, params, Stored>> /\ ~closed[Home[g]]
  BY DEF GetParameter, GetVersion, Exists, Read, ReadSteps, service, RInv, ClosedQuiet, Stored
<1>2. /\ Path(g) \in Paths /\ Vault!Path(g) = Path(g) /\ params[Path(g)] \in Seq(Nat)
      /\ Stored[Path(g)] = Range(params[Path(g)])
  BY DEF RInv, TypeOK, CallersOK, ServiceOK, Path, Vault!Path, Stored
<1>3. Found(Path(g)) <=> Stored[Path(g)] # {}
  BY <1>2, RangeFacts DEF Found
<1>4. ReturnRead(g, "fault", {}) => VaultStep(g) /\ Reporting'
  BY <1>1, FailedReads
<1>5. ASSUME NEW a, ReturnRead(g, "ok", a)
      PROVE  /\ Vault!Answer(g, "ok", a) /\ Reporting' /\ Reported'[g] = a
             /\ Phase[g] = "pending"
  BY <1>1, <1>5, AnswersVault DEF RInv
<1>6. ReturnRead(g, "notfound", {}) => Vault!Answer(g, "notfound", {}) /\ Reporting'
  BY <1>1, AnswersVault DEF RInv
<1>7. CASE GetParameter(g)
  <2>1. call[g].op = "Get"
    BY <1>7 DEF GetParameter, Read, RInv, TypeOK, ControlOK, OpsAt
  <2> DEFINE i == Last(params[Path(g)])
  <2>2. CASE Found(Path(g)) /\ ReturnRead(g, "ok", {i})
    <3>1. Vault!Newest(Path(g), i)
      BY <1>2, <2>2, LastIsNewest DEF RInv, HistoryInv
    <3> HIDE DEF i
    <3> QED BY <1>1, <1>2, <1>5, <2>1, <2>2, <3>1 DEF VaultStep, Vault!Read
  <2>3. CASE ~Found(Path(g)) /\ ReturnRead(g, "notfound", {})
    BY <1>1, <1>2, <1>3, <1>6, <2>1, <2>3 DEF VaultStep, Vault!Missing
  <2> QED BY <1>4, <1>7, <2>2, <2>3 DEF GetParameter, Read
<1>8. CASE GetVersion(g)
  <2> DEFINE s == params[Path(g)]
             n == call[g].id
  <2>1. call[g].op = "GetVersion"
    BY <1>8 DEF GetVersion, Read, RInv, TypeOK, ControlOK, OpsAt
  <2>2. CASE n \in DOMAIN s /\ ReturnRead(g, "ok", {s[n]})
    <3>1. Named[g] = {s[n]} /\ s[n] \in Range(s)
      BY <2>2 DEF Named, Range
    <3> HIDE DEF s, n
    <3>2. /\ Vault!Answer(g, "ok", {s[n]}) /\ Reporting' /\ Reported'[g] = {s[n]}
          /\ Phase[g] = "pending"
      BY <1>5, <2>2
    <3>3. {s[n]} \subseteq Stored[Path(g)]
      BY <1>2, <3>1 DEF s
    <3> QED BY <1>1, <1>2, <2>1, <3>1, <3>2, <3>3 DEF VaultStep, Vault!Read
  <2>3. CASE n \notin DOMAIN s /\ ReturnRead(g, "notfound", {})
    <3>1. Named[g] = {}
      BY <2>3 DEF Named
    <3> QED BY <1>1, <1>2, <1>6, <2>1, <2>3, <3>1 DEF VaultStep, Vault!Missing
  <2> QED BY <1>4, <1>8, <2>2, <2>3 DEF GetVersion, Read
<1>9. CASE Exists(g)
  <2>1. call[g].op = "Exists"
    BY <1>9 DEF Exists, Read, RInv, TypeOK, ControlOK, OpsAt
  <2> DEFINE a == {p \in {Path(g)} : Found(p)}
  <2>2. a = {p \in {Path(g)} : Stored[p] # {}}
    BY <1>3
  <2>3. CASE ReturnRead(g, "ok", a)
    <3> HIDE DEF a
    <3>1. /\ Vault!Answer(g, "ok", a) /\ Reporting' /\ Reported'[g] = a
          /\ Phase[g] = "pending"
      BY <1>5, <2>3
    <3> QED BY <1>1, <1>2, <2>1, <2>2, <3>1 DEF VaultStep, Vault!Read
  <2> QED BY <1>4, <1>9, <2>3 DEF Exists, Read
<1> QED BY <1>7, <1>8, <1>9

\* A page of a listing, the last one or not.
LEMMA PageSteps ==
  ASSUME RInv, NEW g \in Goroutines, at[g] \in {"page", "history"}, UNCHANGED <<closed, params>>,
         NEW a, ans' = [ans EXCEPT ![g] = a], UNCHANGED <<at, call, res>>,
         at[g] = "page" => a \subseteq Paths
  PROVE  VaultStep(g) /\ Reporting'
<1>1. ans'[g] = a /\ \A h \in Goroutines \ {g} : ans'[h] = ans[h]
  BY DEF RInv, TypeOK, CallersOK
<1>2. Reported' = Reported /\ Phase' = Phase /\ Stored' = Stored
  BY <1>1 DEF Reported, Phase, Stored
<1>3. Reporting'
  BY <1>1 DEF RInv, Reporting
<1> QED BY <1>2, <1>3 DEF VaultStep, Vault!vars

LEMMA ListingSteps ==
  ASSUME RInv, DeletesApart, NEW g \in Goroutines, ListPage(g) \/ HistoryPage(g)
  PROVE  VaultStep(g) /\ Reporting'
<1>1. /\ at[g] \in {"page", "history"} /\ at[g] \in ReadSteps
      /\ UNCHANGED <<closed, params, Stored>> /\ ~closed[Home[g]]
  BY DEF ListPage, HistoryPage, ReadSteps, service, RInv, ClosedQuiet, Stored
<1>2. Path(g) \in Paths /\ Vault!Path(g) = Path(g)
  BY DEF RInv, TypeOK, CallersOK, Path, Vault!Path
<1>3. ReturnRead(g, "fault", {}) => VaultStep(g) /\ Reporting'
  BY <1>1, FailedReads
<1>4. ASSUME NEW a, ReturnRead(g, "ok", a)
      PROVE  /\ Vault!Answer(g, "ok", a) /\ Reporting' /\ Reported'[g] = a
             /\ Phase[g] = "pending"
  BY <1>1, <1>4, AnswersVault DEF RInv
<1>5. CASE ListPage(g)
  <2> DEFINE names == ans[g] \cup Page(g)
  <2>1. call[g].op = "List" /\ at[g] = "page"
    BY <1>5 DEF ListPage, RInv, TypeOK, ControlOK, OpsAt
  <2>2. Under[Path(g)] \subseteq Paths
    BY <1>2, PSAssumption
  <2>3. names \subseteq Paths
    BY <2>1, <2>2 DEF Page, Rest, RInv, Reporting
  <2>4. CASE ans' = [ans EXCEPT ![g] = names] /\ UNCHANGED <<at, call, res>>
    <3> HIDE DEF names
    <3> QED BY <1>1, <2>3, <2>4, PageSteps
  <2>5. CASE ReturnRead(g, "ok", names)
    <3> HIDE DEF names
    <3>1. /\ Vault!Answer(g, "ok", names) /\ Reporting' /\ Reported'[g] = names
          /\ Phase[g] = "pending"
      BY <1>4, <2>5
    <3> QED BY <1>1, <2>1, <2>3, <3>1 DEF VaultStep, Vault!Read
  <2> QED BY <1>3, <1>5, <2>4, <2>5 DEF ListPage
<1>6. CASE HistoryPage(g)
  <2> DEFINE versions == ans[g] \cup Seen(g)
  <2>1. call[g].op = "ListVersions" /\ at[g] = "history"
    BY <1>6 DEF HistoryPage, RInv, TypeOK, ControlOK, OpsAt
  <2>2. CASE ans' = [ans EXCEPT ![g] = versions] /\ UNCHANGED <<at, call, res>>
    <3> HIDE DEF versions
    <3> QED BY <1>1, <2>1, <2>2, PageSteps
  <2>3. CASE /\ Found(Path(g)) /\ Upto(g) = Len(params[Path(g)])
             /\ ReturnRead(g, "ok", versions)
    <3>1. Undisturbed(g)
      BY <1>2, <2>1 DEF RInv, HistoryInv, MenuKept, DeletesApart, Undisturbed
    <3>2. versions = {params[Path(g)][i] : i \in 1..Len(params[Path(g)])}
      BY <2>1, <2>3, <3>1, PageCollects DEF RInv, HistoryInv
    <3>3. params[Path(g)] \in Seq(Nat)
      BY <1>2 DEF RInv, TypeOK, ServiceOK
    <3>4. versions = Stored[Path(g)]
      BY <1>2, <3>2, <3>3, RangeFacts DEF Stored
    <3>5. Vault!Newest(Path(g), Last(params[Path(g)]))
      BY <1>2, <2>3, LastIsNewest DEF RInv, HistoryInv
    <3> HIDE DEF versions
    <3>6. /\ Vault!Answer(g, "ok", versions) /\ Reporting' /\ Reported'[g] = versions
          /\ Phase[g] = "pending"
      BY <1>4, <2>3
    <3>7. \E i \in versions : Vault!Newest(Path(g), i)
      BY <3>4, <3>5 DEF Vault!Newest
    <3> QED BY <1>1, <1>2, <2>1, <3>4, <3>6, <3>7 DEF VaultStep, Vault!Read
  <2> QED BY <1>3, <1>6, <2>2, <2>3 DEF HistoryPage
<1> QED BY <1>5, <1>6

\* Every step of the provider is one of the vault, or one the vault does not see.
LEMMA StepsImplement ==
  ASSUME RInv, DeletesApart, [Next]_vars
  PROVE  [Vault!Next]_(Vault!vars) /\ Reporting'
<1>1. ASSUME NEW g \in Goroutines, Invoke(g) \/ Progress(g)
      PROVE  [Vault!Next]_(Vault!vars) /\ Reporting'
  <2>1. CASE Invoke(g)
    BY <2>1, InvokeCalls DEF Vault!Next
  <2>2. CASE Return(g)
    BY <2>2, ReturnReturns DEF Vault!Next
  <2>3. VaultStep(g) => [Vault!Next]_(Vault!vars)
    BY DEF VaultStep, Vault!Next
  <2>4. CASE AnnounceWriter(g) \/ EnterWrite(g) \/ EnterRead(g) \/ Request(g)
    BY <2>3, <2>4, EnterSteps, WritingSteps, ReadingSteps, ListingSteps DEF Request
  <2> QED BY <1>1, <2>1, <2>2, <2>4 DEF Progress
<1>2. CASE UNCHANGED vars
  BY <1>2 DEF vars, service, callers, Vault!vars, Phase, Reported, Stored, RInv, Reporting
<1> QED BY <1>1, <1>2 DEF Next

\* For any number of callers, pages, versions and tries the provider implements a
\* vault whose lost writes may be carried out again, as long as no provider
\* deletes a parameter whose versions another one lists.
THEOREM ProviderImplementsVault == DeletesApart => (Spec => VaultSafety)
<1> SUFFICES ASSUME DeletesApart PROVE Spec => VaultSafety
  OBVIOUS
<1>1. Init => Vault!Init /\ Reporting
  BY RangeFacts DEF Init, Vault!Init, Phase, Reported, Stored, Reporting
<1>2. TypeOK /\ ClosedQuiet /\ HistoryInv /\ Reporting /\ [Next]_vars
        => [Vault!Next]_(Vault!vars) /\ Reporting'
  BY StepsImplement DEF RInv
<1> QED BY <1>1, <1>2, TypeCorrect, CloseIsQuiet, HistoryHolds, PTL DEF Spec, VaultSafety, Vault!Spec

-----------------------------------------------------------------------------
(* List while parameters come and go.                                      *)

\* There are finitely many parameters, and before its first page nothing is listed.
FiniteStore == IsFiniteSet(Live)

NothingListed ==
  \A g \in Goroutines :
    at[g] \notin {"page", "history", "done"} => ans[g] = {} /\ cursor[g] = 0

\* Of a List in progress: the names that were there all the time still are, and
\* it has listed those of them that it is past; whatever it has listed was there.
Listed(g) ==
  Listing(g) =>
    /\ must[g] \subseteq Live
    /\ Live \subseteq may[g]
    /\ ans[g] \subseteq may[g] \cap Under[Path(g)]
    /\ \A p \in must[g] \cap Under[Path(g)] : Rank[p] <= cursor[g] => p \in ans[g]

ListInv == FiniteStore /\ NothingListed /\ \A g \in Goroutines : Listed(g)

\* Of finitely many names, a page has all that come before one it has.
LEMMA PageIsFirst ==
  ASSUME TypeOK, FiniteStore, NEW g \in Goroutines, NEW p \in Rest(g), NEW q \in Page(g),
         Rank[p] <= Rank[q]
  PROVE  p \in Page(g)
<1> DEFINE before(x) == {y \in Rest(g) : Rank[y] < Rank[x]}
<1>1. Rest(g) \subseteq Live /\ \A x \in Rest(g) : Rank[x] \in Nat
  BY PSAssumption DEF Rest, Live, TypeOK, CallersOK, Path
<1>2. q \in Rest(g) /\ Cardinality(before(q)) < PageSize
  BY DEF Page
<1>3. before(p) \subseteq before(q)
  BY <1>1, <1>2
<1>4. IsFiniteSet(before(q))
  <2>1. before(q) \subseteq Live
    BY <1>1
  <2> QED BY <2>1, FS_Subset DEF FiniteStore
<1>5. Cardinality(before(p)) <= Cardinality(before(q))
  BY <1>3, <1>4, FS_Subset
<1>6. Cardinality(before(p)) \in Nat /\ Cardinality(before(q)) \in Nat
  BY <1>3, <1>4, FS_Subset, FS_CardinalityType
<1>7. Cardinality(before(p)) < PageSize
  <2> HIDE DEF before
  <2> QED BY <1>2, <1>5, <1>6, PSAssumption
<1> QED BY <1>7 DEF Page

\* A step adds one parameter at most.
LEMMA StoreStaysFinite ==
  ASSUME TypeOK, FiniteStore, [Next]_vars PROVE FiniteStore'
<1>1. ASSUME NEW p \in Paths, NEW S, params' = [params EXCEPT ![p] = S]
      PROVE  FiniteStore'
  <2>1. Live' \subseteq Live \cup {p}
    BY <1>1 DEF Live, Found, TypeOK, ServiceOK
  <2>2. IsFiniteSet(Live \cup {p})
    BY FS_AddElement DEF FiniteStore
  <2> QED BY <2>1, <2>2, FS_Subset DEF FiniteStore
<1>2. CASE UNCHANGED service
  BY <1>2 DEF FiniteStore, Live, Found, service
<1>3. ASSUME NEW g \in Goroutines, params' = [params EXCEPT ![Path(g)] = Append(@, nextId)]
      PROVE  FiniteStore'
  <2>1. Path(g) \in Paths
    BY DEF TypeOK, CallersOK, Path
  <2> QED BY <1>1, <1>3, <2>1
<1>4. ASSUME NEW g \in Goroutines, params' = [params EXCEPT ![Path(g)] = <<>>]
      PROVE  FiniteStore'
  <2>1. Path(g) \in Paths
    BY DEF TypeOK, CallersOK, Path
  <2> QED BY <1>1, <1>4, <2>1
<1> QED BY <1>2, <1>3, <1>4, ParamsStep

\* A step of one goroutine leaves what the others have listed alone, and lists
\* something itself only if it is a page.
LEMMA ListsAlone ==
  ASSUME TypeOK, NothingListed, NEW g \in Goroutines, Invoke(g) \/ Progress(g)
  PROVE  /\ \A h \in Goroutines \ {g} :
              /\ at'[h] = at[h] /\ call'[h] = call[h] /\ res'[h] = res[h]
              /\ ans'[h] = ans[h] /\ cursor'[h] = cursor[h]
         /\ at'[g] \notin {"page", "history", "done"} => ans'[g] = {} /\ cursor'[g] = 0
         /\ Listing(g)' =>
              \/ Invoke(g) /\ ~Listing(g)
              \/ EnterRead(g) /\ UNCHANGED <<call, ans, cursor>>
              \/ ListPage(g)
  <1> USE DEF Goto, Answer, ReturnRead, ReturnWrite, TypeOK, CallersOK, NothingListed,
              Listing
  <1>1. call[g].op \in OpsAt(at[g])
    BY DEF ControlOK
  <1>2. CASE Invoke(g)
    <2>1. PICK o \in Ops, p \in Paths, i \in Numbers \cup {0} :
            /\ call' = [call EXCEPT ![g] = [op |-> o, path |-> p, id |-> i]]
            /\ Goto(g, IF o \in ReadOps THEN "rlock" ELSE "lock")
            /\ UNCHANGED <<res, ans, cursor>>
            /\ at[g] = "idle"
      BY <1>2 DEF Invoke
    <2> QED BY <1>2, <2>1
  <1>3. CASE AnnounceWriter(g)
    BY <1>1, <1>3 DEF AnnounceWriter, OpsAt, WriteOps, callers
  <1>4. CASE EnterWrite(g)
    BY <1>1, <1>4 DEF EnterWrite, Proceed, OpsAt, WriteOps
  <1>5. CASE EnterRead(g)
    BY <1>5 DEF EnterRead, Proceed
  <1>6. CASE PutParameter(g) \/ DeleteParameter(g)
    BY <1>1, <1>6 DEF PutParameter, DeleteParameter, TryAgain, OpsAt
  <1>7. CASE GetParameter(g) \/ GetVersion(g) \/ Exists(g)
    BY <1>7 DEF GetParameter, GetVersion, Exists, Read
  <1>8. CASE ListPage(g)
    BY <1>8 DEF ListPage
  <1>9. CASE HistoryPage(g)
    BY <1>1, <1>9 DEF HistoryPage, OpsAt
  <1>10. CASE Return(g)
    BY <1>10 DEF Return
  <1> QED BY <1>2, <1>3, <1>4, <1>5, <1>6, <1>7, <1>8, <1>9, <1>10
          DEF Progress, Request

\* What the history variables become for one goroutine that is listing.
LEMMA HistorySteps ==
  ASSUME HNext, NEW g \in Goroutines, Listing(g)'
  PROVE  /\ Listing(g) => must'[g] = must[g] \cap Live' /\ may'[g] = may[g] \cup Live'
         /\ ~Listing(g) => must'[g] = Live' /\ may'[g] = Live'
  BY DEF HNext

\* A List that stands still while parameters come and go.
LEMMA ListedWhileOthersWork ==
  ASSUME HNext, NEW h \in Goroutines, Listed(h),
         at'[h] = at[h], call'[h] = call[h], ans'[h] = ans[h], cursor'[h] = cursor[h]
  PROVE  Listed(h)'
  <1> SUFFICES ASSUME Listing(h)'
               PROVE  /\ must'[h] \subseteq Live'
                      /\ Live' \subseteq may'[h]
                      /\ ans'[h] \subseteq may'[h] \cap Under[Path(h)']
                      /\ \A p \in must'[h] \cap Under[Path(h)'] :
                           Rank[p] <= cursor'[h] => p \in ans'[h]
    BY DEF Listed
  <1>1. Listing(h) /\ Path(h)' = Path(h)
    BY DEF Listing, Path
  <1>2. must'[h] = must[h] \cap Live' /\ may'[h] = may[h] \cup Live'
    BY <1>1, HistorySteps
  <1> QED BY <1>1, <1>2 DEF Listed

\* The List that makes the step.
LEMMA ListedAtWork ==
  ASSUME TypeOK, ListInv, HNext, NEW g \in Goroutines, Invoke(g) \/ Progress(g)
  PROVE  Listed(g)'
  <1> SUFFICES ASSUME Listing(g)'
               PROVE  /\ must'[g] \subseteq Live'
                      /\ Live' \subseteq may'[g]
                      /\ ans'[g] \subseteq may'[g] \cap Under[Path(g)']
                      /\ \A p \in must'[g] \cap Under[Path(g)'] :
                           Rank[p] <= cursor'[g] => p \in ans'[g]
    BY DEF Listed
  <1>1. CASE Invoke(g) /\ ~Listing(g)
    <2>1. ans'[g] = {} /\ cursor'[g] = 0
      BY <1>1 DEF Invoke, ListInv, NothingListed
    <2>2. must'[g] = Live' /\ may'[g] = Live'
      BY <1>1, HistorySteps
    <2>3. \A p \in Live' : ~(Rank[p] <= 0)
      BY PSAssumption DEF Live
    <2> QED BY <2>1, <2>2, <2>3
  <1>2. CASE EnterRead(g) /\ UNCHANGED <<call, ans, cursor>>
    <2>1. Listing(g) /\ Path(g)' = Path(g) /\ Live' = Live
      BY <1>2 DEF EnterRead, Listing, Path, Live, Found, service
    <2>2. must'[g] = must[g] \cap Live /\ may'[g] = may[g] \cup Live
      BY <2>1, HistorySteps
    <2>3. Listed(g)
      BY DEF ListInv
    <2> QED BY <1>2, <2>1, <2>2, <2>3 DEF Listed
  <1>3. CASE ListPage(g)
    <2>1. at'[g] # "done" /\ cursor[g] \in Nat
      BY DEF Listing, TypeOK, CallersOK
    <2>2. PICK last \in Page(g) :
            /\ cursor' = [cursor EXCEPT ![g] = Rank[last]]
            /\ ans' = [ans EXCEPT ![g] = @ \cup Page(g)]
            /\ UNCHANGED <<at, call, params>>
      BY <1>3, <2>1 DEF ListPage, ReturnRead, Answer, Goto, TypeOK, CallersOK, service
    <2>3. cursor'[g] = Rank[last] /\ ans'[g] = ans[g] \cup Page(g)
      BY <2>2 DEF TypeOK, CallersOK
    <2>4. Listing(g) /\ Path(g)' = Path(g) /\ Live' = Live
      BY <2>2 DEF Listing, Path, Live, Found
    <2>5. must'[g] = must[g] \cap Live /\ may'[g] = may[g] \cup Live
      BY <2>4, HistorySteps
    <2>6. /\ must[g] \subseteq Live
          /\ Live \subseteq may[g]
          /\ ans[g] \subseteq may[g] \cap Under[Path(g)]
          /\ \A p \in must[g] \cap Under[Path(g)] : Rank[p] <= cursor[g] => p \in ans[g]
      BY <2>4 DEF ListInv, Listed
    <2>7. Page(g) \subseteq Live \cap Under[Path(g)]
      BY PSAssumption DEF Page, Rest, Live, TypeOK, CallersOK, Path
    <2>8. ASSUME NEW p \in must[g] \cap Under[Path(g)], Rank[p] <= Rank[last]
          PROVE  p \in ans'[g]
      <3>1. CASE Rank[p] <= cursor[g]
        BY <2>3, <2>6, <3>1
      <3>2. CASE ~(Rank[p] <= cursor[g])
        <4>1. p \in Rest(g)
          BY <2>1, <2>6, <3>2, PSAssumption DEF Live, Rest
        <4>2. p \in Page(g)
          BY <2>8, <4>1, PageIsFirst DEF ListInv
        <4> QED BY <2>3, <4>2
      <3> QED BY <3>1, <3>2
    <2> QED BY <2>3, <2>4, <2>5, <2>6, <2>7, <2>8
  <1> QED BY <1>1, <1>2, <1>3, ListsAlone DEF ListInv

LEMMA ListInvHolds == HSpec => [](TypeOK /\ ListInv)
<1>1. HInit => Init /\ ListInv
  <2> SUFFICES ASSUME HInit PROVE Init /\ ListInv
    OBVIOUS
  <2>1. Live = {}
    BY DEF HInit, Init, Live, Found
  <2>2. FiniteStore
    BY <2>1, FS_EmptySet DEF FiniteStore
  <2> QED BY <2>2 DEF HInit, Init, ListInv, NothingListed, Listed, Listing
<1>2. TypeOK /\ ListInv /\ [HNext]_hvars => ListInv'
  <2> SUFFICES ASSUME TypeOK, ListInv, [HNext]_hvars PROVE ListInv'
    OBVIOUS
  <2>1. FiniteStore'
    BY StoreStaysFinite DEF HNext, hvars, ListInv
  <2>2. ASSUME HNext, NEW g \in Goroutines, Invoke(g) \/ Progress(g)
        PROVE  ListInv'
    <3>1. \A h \in Goroutines \ {g} :
            at'[h] = at[h] /\ call'[h] = call[h] /\ ans'[h] = ans[h] /\ cursor'[h] = cursor[h]
      BY <2>2, ListsAlone DEF ListInv
    <3>2. NothingListed'
      BY <2>2, <3>1, ListsAlone DEF ListInv, NothingListed
    <3>3. \A h \in Goroutines \ {g} : Listed(h)'
      BY <2>2, <3>1, ListedWhileOthersWork DEF ListInv
    <3>4. Listed(g)'
      BY <2>2, ListedAtWork
    <3> QED BY <2>1, <3>2, <3>3, <3>4 DEF ListInv
  <2>3. CASE UNCHANGED hvars
    BY <2>1, <2>3 DEF hvars, vars, callers, service, ListInv, NothingListed, Listed,
                      Listing, Live, Found, Path
  <2> QED BY <2>2, <2>3 DEF HNext, Next
<1>3. [HNext]_hvars => [Next]_vars
  BY DEF HNext, hvars
<1> QED BY <1>1, <1>2, <1>3, TypeCorrect, PTL DEF HSpec, Spec

\* List reports every name below the path that was there from the call to the
\* answer, and none that never was, on however many pages.
THEOREM ListIsComplete == HSpec => ListComplete
<1>1. TypeOK /\ ListInv /\ [HNext]_hvars =>
        [\A g \in Goroutines :
           (Listing(g) /\ at'[g] = "done" /\ res'[g] = "ok") =>
              /\ must[g] \cap Under[Path(g)] \subseteq ans'[g]
              /\ ans'[g] \subseteq may[g] \cap Under[Path(g)]]_hvars
  <2> SUFFICES ASSUME TypeOK, ListInv, HNext, NEW g \in Goroutines, Listing(g),
                      at'[g] = "done", res'[g] = "ok"
               PROVE  /\ must[g] \cap Under[Path(g)] \subseteq ans'[g]
                      /\ ans'[g] \subseteq may[g] \cap Under[Path(g)]
    OBVIOUS
  <2>a. at[g] \notin {"idle", "done"} /\ call[g].op = "List" /\ call[g].op \in OpsAt(at[g])
    BY DEF Listing, TypeOK, ControlOK
  <2>1. ListPage(g)
    <3>1. PICK h \in Goroutines : Invoke(h) \/ Progress(h)
      BY DEF HNext, Next
    <3>2. h = g
      BY <2>a, <3>1, ListsAlone DEF ListInv
    <3>3. at[g] \in {"rlock", "page"}
      BY <2>a DEF OpsAt, TypeOK, CallersOK, Steps, WriteSteps, ReadSteps, WriteOps
    <3>4. ~EnterRead(g)
      <4> SUFFICES ASSUME EnterRead(g) PROVE FALSE
        OBVIOUS
      <4>1. at'[g] = FirstRequest(call[g].op)
        BY <2>a DEF EnterRead, Proceed, ReturnRead, Answer, Goto, TypeOK, CallersOK
      <4> QED BY <2>a, <4>1 DEF FirstRequest
    <3> QED BY <3>1, <3>2, <3>3, <3>4
            DEF Progress, Request, Invoke, AnnounceWriter, EnterWrite, PutParameter,
                DeleteParameter, GetParameter, GetVersion, Exists, Read, HistoryPage, Return
  <2>2. ans'[g] = ans[g] \cup Rest(g)
    BY <2>1, <2>a DEF ListPage, ReturnRead, Answer, Goto, TypeOK, CallersOK
  <2>3. /\ must[g] \subseteq Live
        /\ Live \subseteq may[g]
        /\ ans[g] \subseteq may[g] \cap Under[Path(g)]
        /\ \A p \in must[g] \cap Under[Path(g)] : Rank[p] <= cursor[g] => p \in ans[g]
    BY DEF ListInv, Listed
  <2>4. Rest(g) \subseteq Live \cap Under[Path(g)]
    BY PSAssumption DEF Rest, Live, TypeOK, CallersOK, Path
  <2>5. ASSUME NEW p \in must[g] \cap Under[Path(g)] PROVE p \in ans'[g]
    <3>1. CASE Rank[p] <= cursor[g]
      BY <2>2, <2>3, <3>1
    <3>2. CASE ~(Rank[p] <= cursor[g])
      <4>1. cursor[g] \in Nat
        BY DEF TypeOK, CallersOK
      <4>2. p \in Rest(g)
        BY <2>3, <3>2, <4>1, PSAssumption DEF Live, Rest
      <4> QED BY <2>2, <4>2
    <3> QED BY <3>1, <3>2
  <2> QED BY <2>2, <2>3, <2>4, <2>5
<1> QED BY <1>1, ListInvHolds, PTL DEF HSpec, ListComplete
-----------------------------------------------------------------------------
(* Names.                                                                  *)

\* What is put before a sequence is found there, and taken off again.
LEMMA PutBeforeTakenOff ==
  ASSUME NEW C, NEW s \in Seq(C), NEW t \in Seq(C)
  PROVE  IsPrefix(s, s \o t) /\ SubSeq(s \o t, Len(s) + 1, Len(s \o t)) = t
<1> DEFINE u == s \o t
<1>1. /\ Len(s) \in Nat /\ Len(t) \in Nat /\ Len(u) = Len(s) + Len(t)
      /\ \A i \in 1..Len(s) : u[i] = s[i]
      /\ \A i \in 1..Len(t) : u[Len(s) + i] = t[i]
  OBVIOUS
<1> HIDE DEF u
<1>2. SubSeq(u, 1, Len(s)) = SubSeq(s, 1, Len(s))
  BY <1>1
<1>3. SubSeq(u, Len(s) + 1, Len(u)) = t
  BY <1>1
<1> QED BY <1>1, <1>2, <1>3 DEF IsPrefix, u

\* A rooted path is one, and stays as it is.
LEMMA RootedIsRooted ==
  ASSUME NEW C, Slash \in C, NEW p \in Seq(C)
  PROVE  Rooted(p) \in Seq(C) /\ Rooted(Rooted(p)) = Rooted(p)
<1>1. <<Slash>> \in Seq(C)
  OBVIOUS
<1>2. <<Slash>> \o p \in Seq(C)
  BY <1>1
<1>3. IsPrefix(<<Slash>>, <<Slash>> \o p)
  BY <1>1, PutBeforeTakenOff, Zenon
<1> QED BY <1>2, <1>3 DEF Rooted

\* The name under which a parameter is reported leads back to it.
LEMMA NameLeadsBack ==
  ASSUME NEW C, Slash \in C, NEW prefix \in Seq(C), NEW p \in Seq(C)
  PROVE  fullPath(prefix, stripPrefix(prefix, fullPath(prefix, p))) = fullPath(prefix, p)
<1> DEFINE t == TrimSlash(prefix)
<1>1. t \in Seq(C)
  BY DEF TrimSlash, Front
<1>2. CASE prefix = <<>>
  BY <1>2 DEF fullPath, stripPrefix
<1>3. CASE prefix # <<>>
  <2>1. fullPath(prefix, p) = t \o Rooted(p)
    BY <1>3 DEF fullPath
  <2>2. Rooted(p) \in Seq(C) /\ Rooted(Rooted(p)) = Rooted(p)
    BY RootedIsRooted
  <2> HIDE DEF t
  <2>3. /\ IsPrefix(t, t \o Rooted(p))
        /\ SubSeq(t \o Rooted(p), Len(t) + 1, Len(t \o Rooted(p))) = Rooted(p)
    BY <1>1, <2>2, PutBeforeTakenOff
  <2>4. stripPrefix(prefix, fullPath(prefix, p)) = Rooted(p)
    BY <1>3, <2>1, <2>3 DEF stripPrefix, t
  <2> QED BY <1>3, <2>1, <2>2, <2>4 DEF fullPath, t
<1> QED BY <1>2, <1>3

\* Whatever prefix is configured and whatever paths callers use, the names that
\* List reports are those that lead back to the parameters (fullPath, stripPrefix).
THEOREM NamesLeadBack ==
  ASSUME NEW C, Slash \in C, PathPrefixes \cup CallerPaths \subseteq Seq(C)
  PROVE  HSpec => []NamesResolve
<1>1. ReportedNamesResolve
  BY NameLeadsBack DEF ReportedNamesResolve
<1>2. NamesResolve
  BY <1>1 DEF NamesResolve
<1> QED BY <1>2, PTL
=============================================================================
