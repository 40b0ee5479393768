------------------------ MODULE SecretsManagerProofs ------------------------
(***************************************************************************)
(* Proofs about SecretsManager, for any number of goroutines, providers,   *)
(* secrets, versions and tries: types, locking, closing, Set, that the     *)
(* provider implements VaultSpec, and what List reports.                   *)
(***************************************************************************)
EXTENDS SecretsListHistory, FiniteSetTheorems, WellFoundedInduction, TLAPS

\* An operation on a lock gives a lock.
LEMMA LockTypes ==
  ASSUME NEW l \in Locks(Goroutines), NEW g \in Goroutines
  PROVE  /\ RLock(l, g) \in Locks(Goroutines)
         /\ RUnlock(l, g) \in Locks(Goroutines)
         /\ Lock(l, g) \in Locks(Goroutines)
         /\ Unlock(l, g) \in Locks(Goroutines)
  BY DEF Locks, RLock, RUnlock, Lock, Unlock

\* Sending a goroutine to a step of the method it is in keeps the control part.
LEMMA GotoTypes ==
  ASSUME TypeOK, NEW g \in Goroutines, NEW s \in Steps,
         Goto(g, s), call' = call, call[g].op \in OpsAt(s)
  PROVE  at' \in [Goroutines -> Steps] /\ ControlOK'
  <1>1. at' \in [Goroutines -> Steps]
    BY DEF Goto, TypeOK, CallersOK
  <1>2. ASSUME NEW h \in Goroutines PROVE call'[h].op \in OpsAt(at'[h])
    <2>1. CASE h = g BY <2>1 DEF Goto, TypeOK, CallersOK
    <2>2. CASE h # g
      <3>1. at'[h] = at[h] BY <2>2 DEF Goto, TypeOK, CallersOK
      <3> QED BY <3>1 DEF TypeOK, ControlOK
    <2> QED BY <2>1, <2>2
  <1>3. ControlOK' BY <1>2 DEF ControlOK
  <1> QED BY <1>1, <1>3

\* Returning from a method keeps the types of what belongs to the callers.
LEMMA ReturnTypes ==
  ASSUME TypeOK, NEW g \in Goroutines, call[g].op # "none",
         NEW r \in Outcomes, NEW a \in SUBSET (Paths \cup Nat),
         ReturnRead(g, r, a) \/ ReturnWrite(g, r, a)
  PROVE  CallersOK' /\ ControlOK'
  <1>1. rw' \in [Providers -> Locks(Goroutines)]
    <2>1. Home[g] \in Providers /\ rw[Home[g]] \in Locks(Goroutines)
      BY SMAssumption DEF TypeOK, CallersOK
    <2>2. \E l \in Locks(Goroutines) : rw' = [rw EXCEPT ![Home[g]] = l]
      BY <2>1, LockTypes DEF ReturnRead, ReturnWrite
    <2> QED BY <2>1, <2>2 DEF TypeOK, CallersOK
  <1>2. Answer(g, r, a) BY DEF ReturnRead, ReturnWrite
  <1>3. call[g].op \in OpsAt("done") BY DEF OpsAt, TypeOK, CallersOK
  <1>4. at' \in [Goroutines -> Steps] /\ ControlOK'
    BY <1>2, <1>3, GotoTypes DEF Answer, Steps
  <1>5. /\ res' \in [Goroutines -> Outcomes]
        /\ ans' \in [Goroutines -> SUBSET (Paths \cup Nat)]
        /\ UNCHANGED <<call, cursor, tries, token, issued>>
    BY <1>2 DEF Answer, TypeOK, CallersOK
  <1> QED BY <1>1, <1>4, <1>5 DEF TypeOK, CallersOK

\* So does trying again.
LEMMA TryAgainTypes ==
  ASSUME TypeOK, NEW g \in Goroutines, TryAgain(g),
         UNCHANGED token \/ token' = [token EXCEPT ![g] = {nextId}]
  PROVE  CallersOK' /\ ControlOK'
  <1>1. tries' \in [Goroutines -> Nat]
    BY DEF TryAgain, TypeOK, CallersOK
  <1>2. token' \in [Goroutines -> SUBSET Nat]
    BY DEF TypeOK, CallersOK, ServiceOK
  <1>3. CallersOK'
    BY <1>1, <1>2 DEF TryAgain, TypeOK, CallersOK
  <1>4. ControlOK'
    BY DEF TryAgain, TypeOK, ControlOK
  <1> QED BY <1>3, <1>4

\* What the service does to its own state keeps its types.
LEMMA ServiceTypes ==
  ASSUME TypeOK, NEW p \in Paths, AddVersion(p) \/ RemoveSecret(p) \/ UNCHANGED service
  PROVE  ServiceOK'
  <1> USE DEF TypeOK, ServiceOK
  <1>1. CASE AddVersion(p)
    <2>1. secrets[p] \cup {nextId} \in SUBSET Nat
      OBVIOUS
    <2>2. secrets' \in [Paths -> SUBSET Nat]
      BY <1>1, <2>1 DEF AddVersion
    <2> QED BY <1>1, <2>2 DEF AddVersion
  <1>2. CASE RemoveSecret(p)
    <2>1. secrets' \in [Paths -> SUBSET Nat] /\ rotating' \in [Paths -> Nat]
      BY <1>2 DEF RemoveSecret
    <2> QED BY <1>2, <2>1 DEF RemoveSecret
  <1>3. CASE UNCHANGED service
    BY <1>3 DEF service
  <1> QED BY <1>1, <1>2, <1>3

\* Every variable has its type and every goroutine is at a step of the method
\* it called.
THEOREM TypeCorrect == Spec => []TypeOK
<1>1. Init => TypeOK
  <2> SUFFICES ASSUME Init PROVE TypeOK
    OBVIOUS
  <2>1. NoCall \in [op : Ops \cup {"none"}, path : Paths, id : Nat]
    BY SMAssumption DEF NoCall
  <2>2. Unlocked \in Locks(Goroutines)
    BY DEF Unlocked, Locks
  <2>3. CallersOK
    BY <2>1, <2>2, SMAssumption DEF Init, CallersOK, Steps, Outcomes
  <2>4. ControlOK
    BY DEF Init, ControlOK, NoCall, OpsAt
  <2> QED BY <2>3, <2>4 DEF Init, TypeOK, ServiceOK
<1>2. TypeOK /\ [Next]_vars => TypeOK'
  <2> SUFFICES ASSUME TypeOK, [Next]_vars PROVE TypeOK'
    OBVIOUS
  <2>a. ASSUME NEW g \in Goroutines
        PROVE  Path(g) \in Paths
    BY DEF TypeOK, CallersOK, Path
  <2>b. ASSUME NEW g \in Goroutines, at[g] # "idle" PROVE call[g].op # "none"
    BY <2>b DEF TypeOK, CallersOK, ControlOK, OpsAt, Steps, WriteSteps, ReadSteps,
             Ops, WriteOps, ReadOps
  <2>c. ASSUME NEW g \in Goroutines, NEW s \in Steps, Goto(g, s),
               UNCHANGED <<rw, call, res, ans, cursor, tries, token, issued>>,
               call[g].op \in OpsAt(s)
        PROVE  CallersOK' /\ ControlOK'
    BY <2>c, GotoTypes DEF TypeOK, CallersOK
  <2>d. ASSUME NEW g \in Goroutines, at[g] # "idle", NEW r \in Outcomes,
               NEW a \in SUBSET (Paths \cup Nat),
               ReturnRead(g, r, a) \/ ReturnWrite(g, r, a)
        PROVE  CallersOK' /\ ControlOK'
    BY <2>b, <2>d, ReturnTypes
  <2>1. ASSUME NEW g \in Goroutines, Invoke(g) PROVE TypeOK'
    <3>1. PICK o \in Menu[g], p \in Paths, i \in Ids \cup {0} :
            /\ issued' = IF CreatesVersion(o) THEN issued + 1 ELSE issued
            /\ CreatesVersion(o) => issued < MaxVersions
            /\ call' = [call EXCEPT ![g] = [op |-> o, path |-> p, id |-> i]]
            /\ IF o \in ReadOps
               THEN Goto(g, "rlock") /\ rw' = [rw EXCEPT ![Home[g]] = RLock(@, g)]
               ELSE Goto(g, "lock") /\ UNCHANGED rw
      BY <2>1 DEF Invoke
    <3>2. o \in Ops /\ [op |-> o, path |-> p, id |-> i]
                         \in [op : Ops \cup {"none"}, path : Paths, id : Nat]
      BY SMAssumption DEF Ids
    <3>3. rw' \in [Providers -> Locks(Goroutines)]
      <4>1. Home[g] \in Providers /\ rw[Home[g]] \in Locks(Goroutines)
        BY SMAssumption DEF TypeOK, CallersOK
      <4>2. \E l \in Locks(Goroutines) : rw' = [rw EXCEPT ![Home[g]] = l] \/ UNCHANGED rw
        BY <3>1, <4>1, LockTypes
      <4> QED BY <4>1, <4>2 DEF TypeOK, CallersOK
    <3>4. /\ at' \in [Goroutines -> Steps]
          /\ at'[g] = IF o \in ReadOps THEN "rlock" ELSE "lock"
          /\ \A h \in Goroutines \ {g} : at'[h] = at[h] /\ call'[h] = call[h]
          /\ call' \in [Goroutines -> [op : Ops \cup {"none"}, path : Paths, id : Nat]]
          /\ call'[g].op = o
      BY <3>1, <3>2 DEF Goto, TypeOK, CallersOK, Steps
    <3>5. o \in OpsAt(at'[g])
      BY <3>2, <3>4 DEF OpsAt, Ops
    <3>6. ControlOK'
      BY <3>4, <3>5 DEF TypeOK, ControlOK
    <3>7. issued' \in 0..MaxVersions
      BY <3>1, SMAssumption DEF TypeOK, CallersOK, CreatesVersion
    <3> QED BY <2>1, <3>3, <3>4, <3>6, <3>7
            DEF Invoke, TypeOK, CallersOK, ServiceOK, service
  <2>2. ASSUME NEW g \in Goroutines, AnnounceWriter(g) PROVE TypeOK'
    <3>1. rw' \in [Providers -> Locks(Goroutines)]
      BY <2>2, LockTypes, SMAssumption DEF AnnounceWriter, TypeOK, CallersOK
    <3> QED BY <2>2, <3>1
            DEF AnnounceWriter, TypeOK, CallersOK, ServiceOK, ControlOK, service
  <2>3. ASSUME NEW g \in Goroutines, EnterWrite(g) PROVE TypeOK'
    <3>1. call[g].op \in WriteOps
      BY <2>3 DEF EnterWrite, TypeOK, ControlOK, OpsAt
    <3>2. call[g].op # "Close" =>
            /\ FirstRequest(call[g].op) \in Steps
            /\ call[g].op \in OpsAt(FirstRequest(call[g].op))
      BY <3>1 DEF WriteOps, FirstRequest, OpsAt, Steps, WriteSteps
    <3>3. CallersOK' /\ ControlOK'
      BY <2>3, <2>c, <2>d, <3>2 DEF EnterWrite, Outcomes
    <3>4. closed' \in [Providers -> BOOLEAN]
      BY <2>3, SMAssumption DEF EnterWrite, TypeOK
    <3> QED BY <2>3, <3>3, <3>4 DEF EnterWrite, TypeOK, ServiceOK, service
  <2>4. ASSUME NEW g \in Goroutines, EnterRead(g) PROVE TypeOK'
    <3>1. call[g].op \in ReadOps \cup {"Rotate"}
      BY <2>4 DEF EnterRead, TypeOK, ControlOK, OpsAt
    <3> DEFINE s == IF call[g].op = "Rotate" THEN "get" ELSE FirstRequest(call[g].op)
    <3>2. s \in Steps /\ call[g].op \in OpsAt(s)
      BY <3>1 DEF ReadOps, FirstRequest, OpsAt, Steps, ReadSteps
    <3>3. CallersOK' /\ ControlOK'
      BY <2>4, <2>c, <2>d, <3>2 DEF EnterRead, Outcomes
    <3> QED BY <2>4, <3>3 DEF EnterRead, TypeOK, ServiceOK, service
  <2>5. ASSUME NEW g \in Goroutines, DescribeSecret(g) PROVE TypeOK'
    <3>1. call[g].op \in OpsAt("put") /\ call[g].op \in OpsAt("create")
      BY <2>5 DEF DescribeSecret, TypeOK, ControlOK, OpsAt
    <3>2. CallersOK' /\ ControlOK'
      BY <2>5, <2>c, <2>d, <3>1 DEF DescribeSecret, Outcomes, Steps, WriteSteps
    <3> QED BY <2>5, <3>2 DEF DescribeSecret, TypeOK, ServiceOK, service
  <2>6. ASSUME NEW g \in Goroutines, PutSecretValue(g) \/ CreateSecret(g) \/ DeleteSecret(g)
        PROVE  TypeOK'
    <3>1. CallersOK' /\ ControlOK'
      <4>1. \/ \E q \in {"ok", "fault", "conflict"} : ReturnWrite(g, q, {})
            \/ /\ TryAgain(g)
               /\ UNCHANGED token \/ token' = [token EXCEPT ![g] = {nextId}]
        BY <2>6 DEF PutSecretValue, CreateSecret, DeleteSecret, StoreVersion
      <4>2. at[g] # "idle"
        BY <2>6 DEF PutSecretValue, CreateSecret, DeleteSecret
      <4> QED BY <4>1, <4>2, <2>d, TryAgainTypes DEF Outcomes
    <3>2. ServiceOK'
      <4>1. AddVersion(Path(g)) \/ RemoveSecret(Path(g)) \/ UNCHANGED service
        BY <2>6 DEF PutSecretValue, CreateSecret, DeleteSecret, StoreVersion
      <4> QED BY <4>1, <2>a, ServiceTypes
    <3> QED BY <2>6, <3>1, <3>2 DEF PutSecretValue, CreateSecret, DeleteSecret, TypeOK
  <2>7. ASSUME NEW g \in Goroutines,
               GetSecretValue(g) \/ GetVersion(g) \/ Exists(g) \/ ListVersions(g)
        PROVE  TypeOK'
    <3>1. /\ secrets[Path(g)] \in SUBSET Nat
          /\ Labelled(Path(g)) \in SUBSET Nat
          /\ IF secrets[Path(g)] # {} THEN {Path(g)} \in SUBSET Paths ELSE TRUE
      BY <2>a DEF TypeOK, ServiceOK, Labelled
    <3>2. at[g] # "idle"
      BY <2>7 DEF GetSecretValue, GetVersion, Exists, ListVersions
    <3>3. \E r \in Outcomes, a \in SUBSET (Paths \cup Nat) : ReturnRead(g, r, a)
      <4>1. CASE GetSecretValue(g)
        BY <4>1, <3>1 DEF GetSecretValue, Outcomes
      <4>2. CASE GetVersion(g)
        BY <4>2, <3>1 DEF GetVersion, Outcomes
      <4>3. CASE Exists(g)
        BY <4>3, <3>1 DEF Exists, Outcomes
      <4>4. CASE ListVersions(g)
        BY <4>4, <3>1 DEF ListVersions, Outcomes
      <4> QED BY <2>7, <4>1, <4>2, <4>3, <4>4
    <3>4. CallersOK' /\ ControlOK'
      BY <3>2, <3>3, <2>d
    <3> QED BY <2>7, <3>4 DEF GetSecretValue, GetVersion, Exists, ListVersions,
                                TypeOK, ServiceOK, service
  <2>8. ASSUME NEW g \in Goroutines, ListPage(g) PROVE TypeOK'
    <3> DEFINE page  == Page(cursor[g])
               names == ans[g] \cup (page \cap Matches[Path(g)])
    <3>1. page \in SUBSET Paths /\ names \in SUBSET (Paths \cup Nat)
      BY <2>a, SMAssumption DEF Page, Rest, TypeOK, CallersOK
    <3>2. \/ /\ \E last \in page : cursor' = [cursor EXCEPT ![g] = Rank[last]]
             /\ ans' = [ans EXCEPT ![g] = names]
             /\ UNCHANGED <<rw, at, call, res, tries, token, issued>>
          \/ \E r \in Outcomes, a \in SUBSET (Paths \cup Nat) : ReturnRead(g, r, a)
      BY <2>8, <3>1 DEF ListPage, Outcomes
    <3>3. CASE \E r \in Outcomes, a \in SUBSET (Paths \cup Nat) : ReturnRead(g, r, a)
      <4>1. CallersOK' /\ ControlOK'
        BY <2>8, <2>d, <3>3 DEF ListPage
      <4> QED BY <2>8, <4>1 DEF ListPage, TypeOK, ServiceOK, service
    <3>4. CASE /\ \E last \in page : cursor' = [cursor EXCEPT ![g] = Rank[last]]
               /\ ans' = [ans EXCEPT ![g] = names]
               /\ UNCHANGED <<rw, at, call, res, tries, token, issued>>
      <4>1. cursor' \in [Goroutines -> Nat]
        BY <3>1, <3>4, SMAssumption DEF TypeOK, CallersOK
      <4>2. ans' \in [Goroutines -> SUBSET (Paths \cup Nat)]
        BY <3>1, <3>4 DEF TypeOK, CallersOK
      <4> QED BY <2>8, <3>4, <4>1, <4>2
              DEF ListPage, TypeOK, ServiceOK, CallersOK, ControlOK, service
    <3> QED BY <3>2, <3>3, <3>4
  <2>9. ASSUME NEW g \in Goroutines, RotateSecret(g) PROVE TypeOK'
    <3>1. rotating' \in [Paths -> Nat]
      BY <2>9, <2>a DEF RotateSecret, TypeOK, ServiceOK
    <3>2. call[g].op \in OpsAt("relock")
      BY <2>9 DEF RotateSecret, TypeOK, ControlOK, OpsAt
    <3>3. CallersOK' /\ ControlOK'
      <4>1. CASE ReturnWrite(g, "fault", {})
        BY <4>1, <2>9, <2>d DEF RotateSecret, Outcomes
      <4>2. CASE /\ rw' = [rw EXCEPT ![Home[g]] = Unlock(@, g)]
                 /\ Goto(g, "relock")
                 /\ UNCHANGED <<call, res, ans, cursor, tries, token, issued>>
        <5>1. rw' \in [Providers -> Locks(Goroutines)]
          BY <4>2, LockTypes, SMAssumption DEF TypeOK, CallersOK
        <5>2. at' \in [Goroutines -> Steps] /\ ControlOK'
          BY <4>2, <3>2, GotoTypes DEF Steps
        <5> QED BY <4>2, <5>1, <5>2 DEF TypeOK, CallersOK
      <4>3. CASE TryAgain(g) /\ UNCHANGED token
        BY <4>3, TryAgainTypes
      <4> QED BY <2>9, <4>1, <4>2, <4>3 DEF RotateSecret
    <3> QED BY <2>9, <3>1, <3>3 DEF RotateSecret, TypeOK, ServiceOK
  <2>10. ASSUME NEW g \in Goroutines, GetAfterRotate(g) PROVE TypeOK'
    <3>1. rw' \in [Providers -> Locks(Goroutines)]
      BY <2>10, LockTypes, SMAssumption DEF GetAfterRotate, TypeOK, CallersOK
    <3>2. call[g].op \in OpsAt("rlock")
      BY <2>10 DEF GetAfterRotate, TypeOK, ControlOK, OpsAt
    <3>3. at' \in [Goroutines -> Steps] /\ ControlOK'
      BY <2>10, <3>2, GotoTypes DEF GetAfterRotate, Steps
    <3> QED BY <2>10, <3>1, <3>3 DEF GetAfterRotate, TypeOK, ServiceOK, CallersOK, service
  <2>11. ASSUME NEW g \in Goroutines, Return(g) PROVE TypeOK'
    <3>1. NoCall \in [op : Ops \cup {"none"}, path : Paths, id : Nat] /\ NoCall.op = "none"
      BY SMAssumption DEF NoCall
    <3>2. CallersOK'
      BY <2>11, <3>1 DEF Return, Goto, TypeOK, CallersOK, Steps, Outcomes
    <3>3. ControlOK'
      BY <2>11, <3>1, ZenonT(30) DEF Return, Goto, TypeOK, CallersOK, ControlOK, OpsAt
    <3> QED BY <2>11, <3>2, <3>3 DEF Return, TypeOK, ServiceOK, service
  <2>12. ASSUME NEW p \in Paths, FinishRotation(p) PROVE TypeOK'
    <3>1. secrets' \in [Paths -> SUBSET Nat]
      BY <2>12 DEF FinishRotation, TypeOK, ServiceOK
    <3>2. rotating' \in [Paths -> Nat]
      BY <2>12 DEF FinishRotation, TypeOK, ServiceOK
    <3>3. nextId' \in Nat
      BY <2>12 DEF FinishRotation, TypeOK, ServiceOK
    <3> QED BY <2>12, <3>1, <3>2, <3>3
            DEF FinishRotation, TypeOK, ServiceOK, CallersOK, ControlOK
  <2>13. CASE UNCHANGED vars
    BY <2>13 DEF vars, TypeOK, ServiceOK, CallersOK, ControlOK
  <2> QED
    BY <2>1, <2>2, <2>3, <2>4, <2>5, <2>6, <2>7, <2>8, <2>9, <2>10, <2>11, <2>12, <2>13
    DEF Next, Progress, Request
<1> QED BY <1>1, <1>2, PTL DEF Spec

-----------------------------------------------------------------------------
(* Locking.                                                                *)

\* What each step does to the lock and to the program counter.
LockStep(g) ==
  LET l == rw[Home[g]]
      Set(m, s) == rw' = [rw EXCEPT ![Home[g]] = m] /\ Goto(g, s) IN
  \/ at[g] = "idle" /\ (Set(RLock(l, g), "rlock") \/ Set(l, "lock"))
  \/ at[g] = "lock" /\ CanLock(l) /\ Set(Lock(l, g), "lock")
  \/ /\ at[g] = "lock" /\ HoldsWrite(l, g)
     /\ \/ Set(Unlock(l, g), "done")
        \/ ~closed[Home[g]] /\ \E s \in WriteSteps : Set(l, s)
  \/ /\ at[g] = "rlock" /\ HoldsRead(l, g)
     /\ \/ Set(RUnlock(l, g), "done")
        \/ ~closed[Home[g]] /\ \E s \in ReadSteps : Set(l, s)
  \/ /\ at[g] \in WriteSteps
     /\ \/ \E s \in {"done", "relock"} : Set(Unlock(l, g), s)
        \/ \E s \in WriteSteps : Set(l, s)
  \/ at[g] \in ReadSteps /\ (Set(RUnlock(l, g), "done") \/ Set(l, at[g]))
  \/ at[g] = "relock" /\ Set(RLock(l, g), "rlock")
  \/ at[g] = "done" /\ Set(l, "idle")

\* Every step of the specification is one of those, or leaves them alone.
LEMMA StepsLock ==
  ASSUME TypeOK, [Next]_vars
  PROVE  \/ UNCHANGED <<rw, at, closed>>
         \/ \E g \in Goroutines :
              /\ LockStep(g)
              /\ \/ UNCHANGED closed
                 \/ /\ at[g] = "lock" /\ HoldsWrite(rw[Home[g]], g) /\ at'[g] = "done"
                    /\ closed' = [closed EXCEPT ![Home[g]] = TRUE]
  <1> USE DEF Goto
  <1>1. ASSUME NEW g \in Goroutines
        PROVE  /\ rw = [rw EXCEPT ![Home[g]] = rw[Home[g]]]
               /\ at = [at EXCEPT ![g] = at[g]]
    BY SMAssumption DEF TypeOK, CallersOK
  <1>2. ASSUME NEW g \in Goroutines, Invoke(g) PROVE LockStep(g) /\ UNCHANGED closed
    BY <1>1, <1>2 DEF Invoke, LockStep
  <1>3. ASSUME NEW g \in Goroutines, AnnounceWriter(g) PROVE LockStep(g) /\ UNCHANGED closed
    BY <1>1, <1>3 DEF AnnounceWriter, LockStep
  <1>4. ASSUME NEW g \in Goroutines, EnterWrite(g)
        PROVE  /\ LockStep(g)
               /\ \/ UNCHANGED closed
                  \/ /\ at[g] = "lock" /\ HoldsWrite(rw[Home[g]], g) /\ at'[g] = "done"
                     /\ closed' = [closed EXCEPT ![Home[g]] = TRUE]
    <2>1. call[g].op \in WriteOps
      BY <1>4 DEF EnterWrite, TypeOK, ControlOK, OpsAt
    <2>2. call[g].op # "Close" => FirstRequest(call[g].op) \in WriteSteps
      BY <2>1 DEF WriteOps, FirstRequest, WriteSteps
    <2> QED BY <1>1, <1>4, <2>2
            DEF EnterWrite, ReturnWrite, Answer, LockStep, TypeOK, CallersOK
  <1>5. ASSUME NEW g \in Goroutines, EnterRead(g) PROVE LockStep(g) /\ UNCHANGED closed
    <2>1. call[g].op \in ReadOps \cup {"Rotate"}
      BY <1>5 DEF EnterRead, TypeOK, ControlOK, OpsAt
    <2>2. /\ "get" \in ReadSteps
          /\ call[g].op # "Rotate" => FirstRequest(call[g].op) \in ReadSteps
      BY <2>1 DEF ReadOps, FirstRequest, ReadSteps
    <2> QED BY <1>1, <1>5, <2>2 DEF EnterRead, ReturnRead, Answer, LockStep
  <1>6. ASSUME NEW g \in Goroutines,
               DescribeSecret(g) \/ PutSecretValue(g) \/ CreateSecret(g)
                 \/ DeleteSecret(g) \/ RotateSecret(g)
        PROVE  LockStep(g) /\ UNCHANGED closed
    BY <1>1, <1>6 DEF DescribeSecret, PutSecretValue, CreateSecret, DeleteSecret,
         RotateSecret, StoreVersion, TryAgain, ReturnWrite, Answer, LockStep, WriteSteps
  <1>7. ASSUME NEW g \in Goroutines,
               GetSecretValue(g) \/ GetVersion(g) \/ Exists(g) \/ ListPage(g) \/ ListVersions(g)
        PROVE  LockStep(g) /\ UNCHANGED closed
    BY <1>1, <1>7 DEF GetSecretValue, GetVersion, Exists, ListPage, ListVersions,
         ReturnRead, Answer, LockStep, ReadSteps
  <1>8. ASSUME NEW g \in Goroutines, GetAfterRotate(g) \/ Return(g)
        PROVE  LockStep(g) /\ UNCHANGED closed
    BY <1>1, <1>8 DEF GetAfterRotate, Return, LockStep
  <1>9. ASSUME NEW p \in Paths, FinishRotation(p) PROVE UNCHANGED <<rw, at, closed>>
    BY <1>9 DEF FinishRotation
  <1> QED BY <1>2, <1>3, <1>4, <1>5, <1>6, <1>7, <1>8, <1>9
          DEF Next, Progress, Request, vars

\* A lock step keeps the lock invariant.  Within one provider, a writer at work
\* has the lock to itself, so what another goroutine does to the lock leaves it
\* (and any reader at work) in possession.
LEMMA LockStepKeeps ==
  ASSUME TypeOK, LockInv, NEW g \in Goroutines, LockStep(g)
  PROVE  LockInv'
  <1> DEFINE l == rw[Home[g]]
             m == rw'[Home[g]]
  <1>1. /\ Home[g] \in Providers /\ l \in Locks(Goroutines)
        /\ \A r \in Providers \ {Home[g]} : rw'[r] = rw[r]
        /\ \A h \in Goroutines \ {g} : at'[h] = at[h]
        /\ g # NoWriter
    BY SMAssumption DEF LockStep, Goto, TypeOK, CallersOK
  <1>2. LET Set(k, s) == m = k /\ at'[g] = s IN
        \/ at[g] = "idle" /\ (Set(RLock(l, g), "rlock") \/ Set(l, "lock"))
        \/ at[g] = "lock" /\ CanLock(l) /\ Set(Lock(l, g), "lock")
        \/ /\ at[g] = "lock" /\ HoldsWrite(l, g)
           /\ (Set(Unlock(l, g), "done") \/ \E s \in WriteSteps : Set(l, s))
        \/ /\ at[g] = "rlock" /\ HoldsRead(l, g)
           /\ (Set(RUnlock(l, g), "done") \/ \E s \in ReadSteps : Set(l, s))
        \/ /\ at[g] \in WriteSteps
           /\ \/ \E s \in {"done", "relock"} : Set(Unlock(l, g), s)
              \/ \E s \in WriteSteps : Set(l, s)
        \/ at[g] \in ReadSteps /\ (Set(RUnlock(l, g), "done") \/ Set(l, at[g]))
        \/ at[g] = "relock" /\ Set(RLock(l, g), "rlock")
        \/ at[g] = "done" /\ Set(l, "idle")
    BY <1>1 DEF LockStep, Goto, TypeOK, CallersOK
  <1> USE DEF Locks, RLock, RUnlock, Lock, Unlock, CanLock, HoldsRead, HoldsWrite,
              WriteSteps, ReadSteps
  <1>3. ASSUME NEW h \in Goroutines, h # g, Home[h] = Home[g]
        PROVE  /\ at'[h] \in WriteSteps => HoldsWrite(m, h)
               /\ at'[h] \in ReadSteps => HoldsRead(m, h)
               /\ at'[h] = "rlock" => h \in m.readers \cup m.parked
    <2>1. /\ at[h] \in WriteSteps => HoldsWrite(l, h)
          /\ at[h] \in ReadSteps => HoldsRead(l, h)
          /\ at[h] = "rlock" => h \in l.readers \cup l.parked
          /\ at[g] \in WriteSteps => HoldsWrite(l, g)
          /\ at[g] \in ReadSteps => HoldsRead(l, g)
          /\ at'[h] = at[h]
      BY <1>1, <1>3 DEF LockInv
    <2>2. h # NoWriter
      BY SMAssumption
    <2> QED BY <1>1, <1>2, <1>3, <2>1, <2>2
  <1>4. /\ at'[g] \in WriteSteps => HoldsWrite(m, g)
        /\ at'[g] \in ReadSteps => HoldsRead(m, g)
        /\ at'[g] = "rlock" => g \in m.readers \cup m.parked
    <2>1. /\ at[g] \in WriteSteps => HoldsWrite(l, g)
          /\ at[g] \in ReadSteps => HoldsRead(l, g)
      BY DEF LockInv
    <2> QED BY <1>1, <1>2, <2>1
  <1>5. ASSUME NEW h \in Goroutines, Home[h] # Home[g]
        PROVE  rw'[Home[h]] = rw[Home[h]] /\ at'[h] = at[h]
    BY <1>1, <1>5, SMAssumption
  <1> QED BY <1>3, <1>4, <1>5 DEF LockInv

\* Whoever makes a request holds its provider's lock as its method needs it.
THEOREM LockCorrect == Spec => []LockInv
<1>1. Init => LockInv
  BY DEF Init, LockInv, WriteSteps, ReadSteps
<1>2. TypeOK /\ LockInv /\ [Next]_vars => LockInv'
  <2> SUFFICES ASSUME TypeOK, LockInv, [Next]_vars PROVE LockInv'
    OBVIOUS
  <2>1. CASE UNCHANGED <<rw, at, closed>>
    BY <2>1 DEF LockInv
  <2>2. CASE \E g \in Goroutines : LockStep(g)
    BY <2>2, LockStepKeeps
  <2> QED BY <2>1, <2>2, StepsLock
<1> QED BY <1>1, <1>2, TypeCorrect, PTL DEF Spec

-----------------------------------------------------------------------------
(* Closing.                                                                *)

\* Once a provider is closed none of its callers is at a request, the p.Get at
\* the end of Rotate included.  Close has the lock to itself when it sets the
\* flag, and a goroutine gets to its first request only past the closed test.
THEOREM CloseIsQuiet == Spec => []ClosedQuiet
<1>1. Init => ClosedQuiet
  BY SMAssumption DEF Init, ClosedQuiet
<1>2. TypeOK /\ LockInv /\ ClosedQuiet /\ [Next]_vars => ClosedQuiet'
  <2> SUFFICES ASSUME TypeOK, LockInv, ClosedQuiet, [Next]_vars,
                      NEW h \in Goroutines, closed'[Home[h]],
                      at'[h] \in WriteSteps \cup ReadSteps
               PROVE  FALSE
    BY DEF ClosedQuiet
  <2> USE DEF WriteSteps, ReadSteps
  <2>1. CASE UNCHANGED <<rw, at, closed>>
    BY <2>1 DEF ClosedQuiet
  <2>2. ASSUME NEW g \in Goroutines, LockStep(g),
               \/ UNCHANGED closed
               \/ /\ at[g] = "lock" /\ HoldsWrite(rw[Home[g]], g) /\ at'[g] = "done"
                  /\ closed' = [closed EXCEPT ![Home[g]] = TRUE]
        PROVE  FALSE
    <3>1. /\ \A k \in Goroutines \ {g} : at'[k] = at[k]
          /\ \E s \in Steps : at'[g] = s
          /\ Home[h] \in Providers /\ Home[g] \in Providers
      BY <2>2, SMAssumption DEF LockStep, Goto, TypeOK, CallersOK, Steps
    <3>2. CASE UNCHANGED closed
      <4>1. CASE h # g
        BY <3>1, <3>2, <4>1 DEF ClosedQuiet
      <4>2. CASE h = g
        <5>1. at[g] \in WriteSteps \cup ReadSteps \/ ~closed[Home[g]]
          BY <2>2, <4>2 DEF LockStep, Goto, TypeOK, CallersOK
        <5> QED BY <3>2, <4>2, <5>1 DEF ClosedQuiet
      <4> QED BY <4>1, <4>2
    <3>3. CASE /\ at[g] = "lock" /\ HoldsWrite(rw[Home[g]], g) /\ at'[g] = "done"
               /\ closed' = [closed EXCEPT ![Home[g]] = TRUE]
      <4>1. h # g /\ at'[h] = at[h]
        BY <3>1, <3>3
      <4>2. CASE Home[h] # Home[g]
        BY <3>1, <3>3, <4>1, <4>2 DEF ClosedQuiet, TypeOK
      <4>3. CASE Home[h] = Home[g]
        BY <3>3, <4>1, <4>3, SMAssumption DEF LockInv, HoldsWrite, HoldsRead
      <4> QED BY <4>2, <4>3
    <3> QED BY <2>2, <3>2, <3>3
  <2> QED BY <2>1, <2>2, StepsLock
<1> QED BY <1>1, <1>2, TypeCorrect, LockCorrect, PTL DEF Spec

-----------------------------------------------------------------------------
(* Set.                                                                    *)

\* Two goroutines of one provider are never both at a request of a writer.
LEMMA WritersExclude ==
  ASSUME LockInv, NEW g \in Goroutines, NEW h \in Goroutines,
         Home[g] = Home[h], at[g] \in WriteSteps, at[h] \in WriteSteps
  PROVE  g = h
  BY DEF LockInv, HoldsWrite

Alone(g) == \A h \in Goroutines : Home[h] = Home[g]

\* What SetInv and SetNeverConflicts say of goroutine g.
SetKnows(g) ==
  /\ at[g] = "put" => secrets[Path(g)] # {}
  /\ at[g] = "create" => secrets[Path(g)] = {} \/ Stored(g)
  /\ res[g] # "conflict"

RotatesExisting == \A p \in Paths : rotating[p] > 0 => secrets[p] # {}

\* A step of goroutine g, by what it does to the secrets: nothing, or what a
\* request of a writer does to the secret the goroutine named.
LEMMA GoroutineStep ==
  ASSUME TypeOK, NEW g \in Goroutines, Invoke(g) \/ Progress(g)
  PROVE  /\ \A h \in Goroutines \ {g} :
              /\ at'[h] = at[h] /\ call'[h] = call[h] /\ res'[h] = res[h]
              /\ token'[h] = token[h]
         /\ \/ UNCHANGED <<secrets, rotating>>
            \/ at[g] \in WriteSteps /\ AddVersion(Path(g))
            \/ at[g] \in WriteSteps /\ RemoveSecret(Path(g))
            \/ /\ at[g] \in WriteSteps /\ secrets[Path(g)] # {}
               /\ secrets' = secrets
               /\ rotating' = [rotating EXCEPT ![Path(g)] = @ + 1]
         /\ \/ at'[g] \in {"put", "create"} /\ DescribeSecret(g)
            \/ TryAgain(g) /\ (PutSecretValue(g) \/ CreateSecret(g))
            \/ at'[g] \notin {"put", "create"}
         /\ \/ res'[g] = "conflict" /\ res[g] = "conflict"
            \/ res'[g] = "conflict" /\ (PutSecretValue(g) \/ CreateSecret(g))
            \/ res'[g] # "conflict"
         /\ nextId' = nextId \/ AddVersion(Path(g))
  <1> USE DEF Goto, Answer, ReturnRead, ReturnWrite, TryAgain, TypeOK, CallersOK, service,
              WriteSteps
  <1>1. CASE Invoke(g)
    BY <1>1 DEF Invoke
  <1>2. CASE AnnounceWriter(g)
    BY <1>2 DEF AnnounceWriter
  <1>3. CASE EnterWrite(g)
    <2>1. call[g].op \in WriteOps
      BY <1>3 DEF EnterWrite, ControlOK, OpsAt
    <2>2. call[g].op # "Close" => FirstRequest(call[g].op) \in {"describe", "delete", "rotate"}
      BY <2>1 DEF WriteOps, FirstRequest
    <2> QED BY <1>3, <2>2 DEF EnterWrite
  <1>4. CASE EnterRead(g)
    <2>1. call[g].op \in ReadOps \cup {"Rotate"}
      BY <1>4 DEF EnterRead, ControlOK, OpsAt
    <2>2. call[g].op # "Rotate" => FirstRequest(call[g].op) \in ReadSteps
      BY <2>1 DEF ReadOps, FirstRequest, ReadSteps
    <2> QED BY <1>4, <2>2 DEF EnterRead, ReadSteps
  <1>5. CASE DescribeSecret(g)
    BY <1>5 DEF DescribeSecret
  <1>6. CASE PutSecretValue(g) \/ CreateSecret(g)
    BY <1>6 DEF PutSecretValue, CreateSecret, StoreVersion
  <1>7. CASE DeleteSecret(g)
    BY <1>7 DEF DeleteSecret, RemoveSecret
  <1>8. CASE RotateSecret(g)
    BY <1>8 DEF RotateSecret
  <1>9. CASE GetSecretValue(g) \/ GetVersion(g) \/ Exists(g) \/ ListVersions(g)
    BY <1>9 DEF GetSecretValue, GetVersion, Exists, ListVersions
  <1>10. CASE ListPage(g)
    BY <1>10 DEF ListPage
  <1>11. CASE GetAfterRotate(g) \/ Return(g)
    BY <1>11 DEF GetAfterRotate, Return
  <1> QED BY <1>1, <1>2, <1>3, <1>4, <1>5, <1>6, <1>7, <1>8, <1>9, <1>10, <1>11
          DEF Progress, Request

\* As long as a secret is created, updated and deleted by requests that exclude
\* each other, a rotation is only pending on a secret that exists.
LEMMA RotatesExistingKept ==
  ASSUME TypeOK, RotatesExisting, NEW g \in Goroutines, Invoke(g) \/ Progress(g)
  PROVE  RotatesExisting'
  <1>1. Path(g) \in Paths /\ secrets \in [Paths -> SUBSET Nat] /\ rotating \in [Paths -> Nat]
    BY DEF TypeOK, ServiceOK, CallersOK, Path
  <1>2. CASE UNCHANGED <<secrets, rotating>>
    BY <1>2 DEF RotatesExisting
  <1>3. CASE AddVersion(Path(g))
    BY <1>1, <1>3 DEF RotatesExisting, AddVersion
  <1>4. CASE RemoveSecret(Path(g))
    BY <1>1, <1>4 DEF RotatesExisting, RemoveSecret
  <1>5. CASE /\ secrets[Path(g)] # {} /\ secrets' = secrets
             /\ rotating' = [rotating EXCEPT ![Path(g)] = @ + 1]
    BY <1>1, <1>5 DEF RotatesExisting
  <1> QED BY <1>2, <1>3, <1>4, <1>5, GoroutineStep

\* Through one provider, Set's second request is never refused because of what
\* its first one saw: the lock keeps every other writer out in between, and a
\* rotation only ever adds to a secret that exists.
THEOREM SetAtomic == Spec => []SetNeverConflicts
<1> DEFINE Known == \A g \in Goroutines : Alone(g) => SetKnows(g)
           IInv  == RotatesExisting /\ Known
<1>1. Init => IInv
  BY DEF Init, RotatesExisting, SetKnows
<1>2. TypeOK /\ LockInv /\ IInv /\ [Next]_vars => IInv'
  <2> SUFFICES ASSUME TypeOK, LockInv, IInv, [Next]_vars PROVE IInv'
    OBVIOUS
  <2>1. /\ secrets \in [Paths -> SUBSET Nat] /\ rotating \in [Paths -> Nat]
        /\ \A g \in Goroutines : Path(g) \in Paths
    BY DEF TypeOK, ServiceOK, CallersOK, Path
  <2>2. ASSUME NEW g \in Goroutines, Invoke(g) \/ Progress(g) PROVE IInv'
    <3>1. ASSUME Alone(g) PROVE SetKnows(g)'
      <4>. SetKnows(g)
        BY <3>1
      <4>1. CASE DescribeSecret(g)
        BY <4>1 DEF DescribeSecret, ReturnWrite, Answer, Goto, SetKnows, Path,
             service, TypeOK, CallersOK
      <4>3. CASE TryAgain(g) /\ (PutSecretValue(g) \/ CreateSecret(g))
        <5>1. at'[g] = at[g] /\ res'[g] = res[g] /\ Path(g)' = Path(g)
          BY <4>3 DEF TryAgain, Path
        <5>2. CASE AddVersion(Path(g)) /\ token' = [token EXCEPT ![g] = {nextId}]
          <6>1. nextId \in secrets'[Path(g)] /\ token'[g] = {nextId}
            BY <2>1, <5>2 DEF AddVersion, TypeOK, CallersOK
          <6>2. secrets'[Path(g)] # {} /\ Stored(g)'
            BY <5>1, <6>1 DEF Stored
          <6> QED BY <5>1, <6>2 DEF SetKnows
        <5>3. CASE UNCHANGED <<secrets, token>>
          BY <5>1, <5>3 DEF SetKnows, Stored
        <5> QED
          BY <4>3, <5>2, <5>3, <2>1 DEF PutSecretValue, CreateSecret, StoreVersion, service,
             ReturnWrite, Answer, Goto, TryAgain, TypeOK, CallersOK
      <4>2. CASE at'[g] \notin {"put", "create"}
        <5>. res \in [Goroutines -> Outcomes]
          BY DEF TypeOK, CallersOK
        <5>1. ~(PutSecretValue(g) /\ res'[g] = "conflict")
          BY DEF SetKnows, PutSecretValue, StoreVersion, TryAgain, ReturnWrite, Answer
        <5>2. ~(CreateSecret(g) /\ res'[g] = "conflict")
          BY DEF SetKnows, CreateSecret, StoreVersion, TryAgain, ReturnWrite, Answer
        <5>3. res'[g] # "conflict"
          <6>1. res[g] # "conflict"
            BY DEF SetKnows
          <6> QED BY <2>2, <5>1, <5>2, <6>1, GoroutineStep
        <5> QED BY <4>2, <5>3 DEF SetKnows
      <4> QED BY <2>2, <4>1, <4>2, <4>3, GoroutineStep
    <3>2. ASSUME NEW h \in Goroutines, h # g, Alone(h) PROVE SetKnows(h)'
      <4>1. /\ at'[h] = at[h] /\ Path(h)' = Path(h) /\ res'[h] = res[h]
            /\ token'[h] = token[h]
        BY <2>2, <3>2, GoroutineStep DEF Path
      <4>2. CASE UNCHANGED secrets
        BY <3>2, <4>1, <4>2 DEF SetKnows, Stored
      <4>3. CASE at[g] \in WriteSteps
        <5>1. at[h] \notin WriteSteps
          BY <3>2, <4>3, WritersExclude DEF Alone
        <5> QED BY <3>2, <4>1, <5>1 DEF SetKnows, WriteSteps
      <4> QED BY <2>2, <4>2, <4>3, GoroutineStep
    <3>3. Known'
      BY <3>1, <3>2 DEF Alone
    <3> QED BY <2>2, <3>3, RotatesExistingKept
  <2>3. ASSUME NEW p \in Paths, FinishRotation(p) PROVE IInv'
    <3>1. secrets[p] # {} /\ secrets'[p] # {} /\ \A q \in Paths \ {p} : secrets'[q] = secrets[q]
      BY <2>1, <2>3 DEF FinishRotation, RotatesExisting
    <3>2. RotatesExisting'
      BY <2>1, <2>3, <3>1 DEF FinishRotation, RotatesExisting
    <3>3. ASSUME NEW g \in Goroutines, SetKnows(g) PROVE SetKnows(g)'
      <4>1. secrets[Path(g)] \subseteq secrets'[Path(g)] /\ Path(g) \in Paths
        BY <2>1, <2>3 DEF FinishRotation
      <4>2. /\ Path(g)' = Path(g) /\ UNCHANGED <<at, res, token>>
            /\ secrets[Path(g)] = {} => secrets'[Path(g)] = {}
        BY <2>3, <3>1, <4>1 DEF FinishRotation, Path
      <4>3. Stored(g) => Stored(g)'
        BY <4>1, <4>2 DEF Stored
      <4> QED BY <3>3, <4>1, <4>2, <4>3 DEF SetKnows
    <3> QED BY <3>2, <3>3 DEF Alone
  <2>4. CASE UNCHANGED vars
    BY <2>4 DEF vars, RotatesExisting, SetKnows, Stored, Alone, Path
  <2> QED BY <2>2, <2>3, <2>4 DEF Next
<1>3. IInv => SetNeverConflicts
  BY DEF SetNeverConflicts, SetKnows, Alone
<1> QED BY <1>1, <1>2, <1>3, TypeCorrect, LockCorrect, PTL DEF Spec

-----------------------------------------------------------------------------
(* The refinement of VaultSpec.                                            *)

\* A set of numbers with a bound has a largest.
LEMMA HasNewest ==
  ASSUME NEW S \in SUBSET Nat, S # {}, NEW n \in Nat, \A i \in S : i < n
  PROVE  \E i \in S : \A j \in S : j <= i
<1> DEFINE T == {n - i : i \in S}
<1>1. T \subseteq Nat /\ T # {}
  <2>1. \A i \in S : i \in Nat /\ n - i \in Nat
    OBVIOUS
  <2> QED BY <2>1
<1>2. \E t \in T : \A u \in T : ~(<<u, t>> \in OpToRel(<, Nat))
  <2> HIDE DEF T
  <2> QED BY <1>1, NatLessThanWellFounded, WFMin
<1>3. PICK t \in T : \A u \in T : ~(u < t)
  BY <1>1, <1>2 DEF OpToRel
<1>4. PICK i \in S : t = n - i
  BY <1>3
<1>5. ASSUME NEW j \in S PROVE j <= i
  <2>1. ~(n - j < n - i)
    BY <1>3, <1>4
  <2>2. i \in Nat /\ j \in Nat
    OBVIOUS
  <2> QED BY <2>1, <2>2
<1> QED BY <1>5

\* No version is as new as the next one will be.
Fresh == \A p \in Paths : \A i \in secrets[p] : i < nextId

\* Only List has collected something before it answers, and that are names.
Reporting ==
  \A g \in Goroutines :
    /\ at[g] = "page" => ans[g] \subseteq Paths
    /\ at[g] \notin {"page", "done"} => ans[g] = {}

RInv == TypeOK /\ ClosedQuiet /\ RotatesExisting /\ Fresh /\ Reporting

\* A version is added: in the vault too it is newer than all the others.
LEMMA VersionGrows ==
  ASSUME TypeOK, Fresh, NEW p \in Paths,
         secrets' = [secrets EXCEPT ![p] = @ \cup {nextId}], nextId' = nextId + 1
  PROVE  Vault!Grow(p) /\ Fresh'
<1>1. secrets \in [Paths -> SUBSET Nat] /\ nextId \in Nat
  BY DEF TypeOK, ServiceOK
<1>2. secrets'[p] = secrets[p] \cup {nextId}
  BY <1>1
<1>3. nextId \in UNION {secrets'[q] : q \in Paths}
  BY <1>2
<1>4. \A q \in Paths : \A j \in secrets[q] : j < nextId
  BY DEF Fresh
<1>5. Fresh'
  <2> SUFFICES ASSUME NEW q \in Paths, NEW i \in secrets'[q] PROVE i < nextId'
    BY DEF Fresh
  <2>1. i \in secrets[q] \/ i = nextId
    BY <1>1
  <2>2. i \in secrets[q] => i \in Nat /\ i < nextId
    BY <1>1, <1>4
  <2> QED BY <1>1, <2>1, <2>2
<1> QED BY <1>3, <1>4, <1>5 DEF Vault!Grow

LEMMA FreshKept ==
  ASSUME TypeOK, Fresh, NEW g \in Goroutines, Invoke(g) \/ Progress(g)
  PROVE  Fresh'
<1>1. Path(g) \in Paths /\ secrets \in [Paths -> SUBSET Nat]
  BY DEF TypeOK, ServiceOK, CallersOK, Path
<1>2. CASE AddVersion(Path(g))
  BY <1>1, <1>2, VersionGrows DEF AddVersion
<1>3. CASE RemoveSecret(Path(g))
  BY <1>1, <1>3 DEF RemoveSecret, Fresh
<1>4. CASE nextId' = nextId /\ secrets' = secrets
  BY <1>4 DEF Fresh
<1> QED BY <1>2, <1>3, <1>4, GoroutineStep

\* A method answers.
LEMMA AnswersVault ==
  ASSUME TypeOK, Reporting, NEW g \in Goroutines, at[g] \notin {"idle", "done"},
         NEW r, NEW a, ReturnRead(g, r, a) \/ ReturnWrite(g, r, a)
  PROVE  Vault!Answer(g, r, a) /\ Reporting' /\ Reported'[g] = a
<1>1. /\ at' = [at EXCEPT ![g] = "done"] /\ res' = [res EXCEPT ![g] = r]
      /\ ans' = [ans EXCEPT ![g] = a] /\ call' = call /\ token' = token
  BY DEF ReturnRead, ReturnWrite, Answer, Goto
<1>2. /\ at \in [Goroutines -> Steps] /\ DOMAIN ans = Goroutines
      /\ ans = [h \in Goroutines |-> ans[h]]
  BY DEF TypeOK, CallersOK
<1>3. /\ at'[g] = "done" /\ ans'[g] = a
      /\ \A h \in Goroutines \ {g} : at'[h] = at[h] /\ ans'[h] = ans[h]
  BY <1>1, <1>2
<1>4. Phase[g] = "pending" /\ Phase' = [Phase EXCEPT ![g] = "done"]
  BY <1>3 DEF Phase
<1>5. Reported' = [Reported EXCEPT ![g] = a] /\ Reported'[g] = a
  BY <1>3 DEF Reported
<1>6. Reporting'
  BY <1>3 DEF Reporting
<1> QED BY <1>1, <1>4, <1>5, <1>6 DEF Vault!Answer

\* A method goes on: nothing that its caller could see.
LEMMA GoesOn ==
  ASSUME TypeOK, Reporting, NEW g \in Goroutines, at[g] \notin {"idle", "done", "page"},
         NEW s, s \notin {"idle", "done"}, Goto(g, s),
         UNCHANGED <<secrets, closed, call, res, ans, token>>
  PROVE  UNCHANGED Vault!vars /\ Reporting'
<1>1. at'[g] = s /\ \A h \in Goroutines \ {g} : at'[h] = at[h]
  BY DEF Goto, TypeOK, CallersOK
<1>2. Phase' = Phase
  BY <1>1 DEF Phase
<1>3. ans[g] = {}
  BY DEF Reporting
<1>4. Reported' = Reported
  BY <1>1, <1>3 DEF Reported
<1>5. Reporting'
  BY <1>1, <1>3 DEF Reporting
<1> QED BY <1>2, <1>4, <1>5 DEF Vault!vars

LEMMA InvokeCalls ==
  ASSUME RInv, NEW g \in Goroutines, Invoke(g)
  PROVE  Vault!Call(g) /\ Reporting'
<1>1. PICK s \in {"lock", "rlock"} : Goto(g, s)
  BY DEF Invoke
<1>2. /\ at[g] = "idle" /\ UNCHANGED <<secrets, closed, res, ans, token>>
      /\ \A h \in Goroutines \ {g} : call'[h] = call[h]
  BY DEF Invoke, service, RInv, TypeOK, CallersOK
<1>3. at'[g] = s /\ \A h \in Goroutines \ {g} : at'[h] = at[h]
  BY <1>1 DEF Goto, RInv, TypeOK, CallersOK
<1>4. Phase[g] = "idle" /\ Phase' = [Phase EXCEPT ![g] = "pending"]
  BY <1>2, <1>3 DEF Phase
<1>5. ans[g] = {}
  BY <1>2 DEF RInv, Reporting
<1>6. Reported' = Reported
  BY <1>2, <1>3, <1>5 DEF Reported
<1>7. Reporting'
  BY <1>2, <1>3, <1>5 DEF RInv, Reporting
<1> QED BY <1>2, <1>4, <1>6, <1>7 DEF Vault!Call

LEMMA ReturnReturns ==
  ASSUME RInv, NEW g \in Goroutines, Return(g)
  PROVE  Vault!Return(g) /\ Reporting'
<1>1. /\ at[g] = "done" /\ UNCHANGED <<secrets, closed>>
      /\ res' = [res EXCEPT ![g] = "none"] /\ token' = [token EXCEPT ![g] = {}]
      /\ \A h \in Goroutines \ {g} : call'[h] = call[h] /\ at'[h] = at[h] /\ ans'[h] = ans[h]
      /\ at'[g] = "idle" /\ ans'[g] = {}
  BY DEF Return, Goto, service, RInv, TypeOK, CallersOK
<1>2. Phase[g] = "done" /\ Phase' = [Phase EXCEPT ![g] = "idle"]
  BY <1>1 DEF Phase
<1>3. Reported' = [Reported EXCEPT ![g] = {}]
  BY <1>1 DEF Reported
<1>4. Reporting'
  BY <1>1 DEF RInv, Reporting
<1> QED BY <1>1, <1>2, <1>3, <1>4 DEF Vault!Return

VaultStep(g) ==
  \/ UNCHANGED Vault!vars
  \/ Vault!Write(g) \/ Vault!LostWrite(g) \/ Vault!Confirm(g) \/ Vault!Read(g)
  \/ Vault!Missing(g) \/ Vault!Fail(g) \/ Vault!Refuse(g) \/ Vault!Close(g)

LEMMA EnterSteps ==
  ASSUME RInv, NEW g \in Goroutines, EnterWrite(g) \/ EnterRead(g)
  PROVE  VaultStep(g) /\ Reporting'
<1>1. UNCHANGED secrets /\ at[g] \in {"lock", "rlock"}
  BY DEF EnterWrite, EnterRead, service
<1>2. CASE /\ closed' = [closed EXCEPT ![Home[g]] = TRUE]
           /\ call[g].op = "Close" /\ ReturnWrite(g, "ok", {})
  BY <1>1, <1>2, AnswersVault DEF RInv, VaultStep, Vault!Close
<1>3. CASE /\ closed[Home[g]] /\ closed' = closed
           /\ ReturnRead(g, "closed", {}) \/ ReturnWrite(g, "closed", {})
  BY <1>1, <1>3, AnswersVault DEF RInv, VaultStep, Vault!Refuse
<1>4. ASSUME NEW s \in {"describe", "delete", "rotate", "get"} \cup ReadSteps, Goto(g, s),
             UNCHANGED <<closed, call, res, ans, token>>
      PROVE  VaultStep(g) /\ Reporting'
  <2>1. s \notin {"idle", "done"}
    BY <1>4 DEF ReadSteps
  <2> QED BY <1>1, <1>4, <2>1, GoesOn DEF RInv, VaultStep
<1>5. CASE EnterWrite(g)
  <2>1. call[g].op \in WriteOps
    BY <1>5 DEF EnterWrite, RInv, TypeOK, ControlOK, OpsAt
  <2>2. call[g].op # "Close" => FirstRequest(call[g].op) \in {"describe", "delete", "rotate"}
    BY <2>1 DEF WriteOps, FirstRequest
  <2> QED BY <1>2, <1>3, <1>4, <1>5, <2>2 DEF EnterWrite
<1>6. CASE EnterRead(g)
  <2>1. call[g].op \in ReadOps \cup {"Rotate"}
    BY <1>6 DEF EnterRead, RInv, TypeOK, ControlOK, OpsAt
  <2>2. call[g].op # "Rotate" => FirstRequest(call[g].op) \in ReadSteps
    BY <2>1 DEF ReadOps, FirstRequest, ReadSteps
  <2> QED BY <1>3, <1>4, <1>6, <2>2 DEF EnterRead
<1> QED BY <1>5, <1>6

LEMMA WritingSteps ==
  ASSUME RInv, NEW g \in Goroutines,
         DescribeSecret(g) \/ PutSecretValue(g) \/ CreateSecret(g) \/ DeleteSecret(g)
           \/ RotateSecret(g)
  PROVE  VaultStep(g) /\ Reporting'
<1>1. /\ at[g] \in WriteSteps /\ at[g] \notin {"idle", "done", "page"}
      /\ UNCHANGED closed /\ ~closed[Home[g]] /\ Path(g) \in Paths
  BY DEF DescribeSecret, PutSecretValue, CreateSecret, DeleteSecret, RotateSecret, WriteSteps,
         RInv, ClosedQuiet, TypeOK, CallersOK, Path
<1>2. CASE /\ UNCHANGED secrets /\ \E r \in {"conflict", "fault"} : ReturnWrite(g, r, {})
  <2>1. PICK r \in {"conflict", "fault"} : Vault!Answer(g, r, {}) /\ Reporting'
    BY <1>1, <1>2, AnswersVault DEF RInv
  <2> QED BY <1>1, <1>2, <2>1 DEF VaultStep, Vault!Fail
<1>3. ASSUME NEW s \in {"put", "create", "relock"}, Goto(g, s),
             UNCHANGED <<secrets, call, res, ans, token>>
      PROVE  VaultStep(g) /\ Reporting'
  <2>1. s \notin {"idle", "done"}
    BY <1>3
  <2> QED BY <1>1, <1>3, <2>1, GoesOn DEF RInv, VaultStep
<1>4. ASSUME NEW r \in {"ok", "fault"}, ReturnWrite(g, r, {}), Vault!Effect(g)
      PROVE  VaultStep(g) /\ Reporting'
  <2>1. Vault!Answer(g, r, {}) /\ Reporting'
    BY <1>1, <1>4, AnswersVault DEF RInv
  <2> QED BY <1>1, <1>4, <2>1 DEF VaultStep, Vault!Fail, Vault!Write
<1>5. ASSUME TryAgain(g), UNCHANGED <<secrets, token>>
      PROVE  VaultStep(g) /\ Reporting'
  <2>1. UNCHANGED <<at, call, res, ans>>
    BY <1>5 DEF TryAgain
  <2> QED BY <1>1, <1>5, <2>1 DEF VaultStep, Vault!vars, Phase, Reported, RInv, Reporting
<1>6. ASSUME TryAgain(g), Vault!Effect(g),
             token' = IF call[g].op = "Set"
                      THEN [token EXCEPT ![g] = secrets'[Path(g)] \ secrets[Path(g)]]
                      ELSE token
      PROVE  VaultStep(g) /\ Reporting'
  <2>1. UNCHANGED <<at, call, res, ans>>
    BY <1>6 DEF TryAgain
  <2>2. UNCHANGED <<Phase, Reported>> /\ Phase[g] = "pending" /\ Reporting'
    BY <1>1, <2>1 DEF Phase, Reported, RInv, Reporting
  <2> QED BY <1>1, <1>6, <2>1, <2>2 DEF VaultStep, Vault!LostWrite, Vault!Path, Path
<1>7. CASE DescribeSecret(g)
  BY <1>2, <1>3, <1>7 DEF DescribeSecret, service
<1>8. CASE PutSecretValue(g) \/ CreateSecret(g)
  <2>1. call[g].op = "Set"
    BY <1>8 DEF PutSecretValue, CreateSecret, RInv, TypeOK, ControlOK, OpsAt
  <2>2. AddVersion(Path(g)) /\ ~Stored(g) => Vault!Effect(g)
    BY <1>1, <2>1, VersionGrows DEF AddVersion, RInv, Vault!Effect, Vault!Path, Path,
       Vault!Stored, Stored
  <2>3. AddVersion(Path(g)) => secrets'[Path(g)] \ secrets[Path(g)] = {nextId}
    <3>1. secrets[Path(g)] \in SUBSET Nat /\ nextId \notin secrets[Path(g)]
      BY <1>1 DEF RInv, Fresh, TypeOK, ServiceOK
    <3>2. AddVersion(Path(g)) => secrets'[Path(g)] = secrets[Path(g)] \cup {nextId}
      BY <1>1 DEF AddVersion, RInv, TypeOK, ServiceOK
    <3> QED BY <3>1, <3>2
  <2>4. ASSUME Stored(g), ReturnWrite(g, "ok", {}), UNCHANGED secrets
        PROVE  VaultStep(g) /\ Reporting'
    <3>1. Vault!Answer(g, "ok", {}) /\ Reporting'
      BY <1>1, <2>4, AnswersVault DEF RInv
    <3> QED BY <1>1, <2>1, <2>4, <3>1
            DEF VaultStep, Vault!Confirm, Vault!Stored, Stored, Vault!Path, Path
  <2>5. PICK allowed \in BOOLEAN : StoreVersion(g, allowed)
    BY <1>8 DEF PutSecretValue, CreateSecret
  <2>6. CASE /\ ~Stored(g) /\ AddVersion(Path(g))
             /\ \/ \E r \in {"ok", "fault"} : ReturnWrite(g, r, {})
                \/ TryAgain(g) /\ token' = [token EXCEPT ![g] = {nextId}]
    BY <1>4, <1>6, <2>1, <2>2, <2>3, <2>6
  <2>7. CASE /\ Stored(g) /\ UNCHANGED service
             /\ \/ \E r \in {"ok", "fault"} : ReturnWrite(g, r, {})
                \/ TryAgain(g) /\ UNCHANGED token
    BY <1>2, <1>5, <2>4, <2>7 DEF service
  <2>8. CASE (ReturnWrite(g, "conflict", {}) \/ ReturnWrite(g, "fault", {})) /\ UNCHANGED service
    BY <1>2, <2>8 DEF service
  <2> QED BY <2>5, <2>6, <2>7, <2>8 DEF StoreVersion
<1>9. CASE DeleteSecret(g)
  <2>1. call[g].op = "Delete"
    BY <1>9 DEF DeleteSecret, RInv, TypeOK, ControlOK, OpsAt
  <2>2. RemoveSecret(Path(g)) => Vault!Effect(g)
    BY <2>1 DEF RemoveSecret, Vault!Effect, Vault!Path, Path
  <2> QED BY <1>2, <1>4, <1>9, <1>6, <2>1, <2>2 DEF DeleteSecret, service
<1>10. CASE RotateSecret(g)
  BY <1>2, <1>3, <1>10, <1>5 DEF RotateSecret
<1> QED BY <1>7, <1>8, <1>9, <1>10

LEMMA ReadingSteps ==
  ASSUME RInv, NEW g \in Goroutines,
         GetSecretValue(g) \/ GetVersion(g) \/ Exists(g) \/ ListVersions(g)
  PROVE  VaultStep(g) /\ Reporting'
<1>1. /\ at[g] \in ReadSteps /\ at[g] \notin {"idle", "done"}
      /\ UNCHANGED <<closed, secrets>> /\ ~closed[Home[g]]
  BY DEF GetSecretValue, GetVersion, Exists, ListVersions, ReadSteps, service,
         RInv, ClosedQuiet
<1>2. /\ Path(g) \in Paths /\ Vault!Path(g) = Path(g)
      /\ secrets[Path(g)] \in SUBSET Nat /\ nextId \in Nat
  BY DEF RInv, TypeOK, CallersOK, ServiceOK, Path, Vault!Path
<1>3. CASE ReturnRead(g, "fault", {})
  <2>1. Vault!Answer(g, "fault", {}) /\ Reporting'
    BY <1>1, <1>3, AnswersVault DEF RInv
  <2> QED BY <1>1, <2>1 DEF VaultStep, Vault!Fail
<1>4. ASSUME NEW a, ReturnRead(g, "ok", a)
      PROVE  /\ Vault!Answer(g, "ok", a) /\ Reporting' /\ Reported'[g] = a
             /\ Phase[g] = "pending"
  <2>1. Vault!Answer(g, "ok", a) /\ Reporting' /\ Reported'[g] = a
    BY <1>1, <1>4, AnswersVault DEF RInv
  <2> QED BY <2>1 DEF Vault!Answer
<1>5. ReturnRead(g, "notfound", {}) => Vault!Answer(g, "notfound", {}) /\ Reporting'
  BY <1>1, AnswersVault DEF RInv
<1>6. CASE GetSecretValue(g)
  <2>1. call[g].op \in {"Get", "Rotate"}
    BY <1>6 DEF GetSecretValue, RInv, TypeOK, ControlOK, OpsAt
  <2>2. ASSUME NEW i \in secrets[Path(g)], Current(Path(g), i), ReturnRead(g, "ok", {i})
        PROVE  VaultStep(g) /\ Reporting'
    <3>1. Vault!Newest(Path(g), i)
      BY <2>2 DEF Current, Vault!Newest
    <3> QED BY <1>1, <1>2, <1>4, <2>1, <2>2, <3>1 DEF VaultStep, Vault!Read
  <2>3. CASE secrets[Path(g)] = {} /\ ReturnRead(g, "notfound", {})
    BY <1>1, <1>2, <1>5, <2>1, <2>3 DEF VaultStep, Vault!Missing
  <2> QED BY <1>3, <1>6, <2>2, <2>3 DEF GetSecretValue
<1>7. CASE GetVersion(g)
  <2>1. call[g].op = "GetVersion"
    BY <1>7 DEF GetVersion, RInv, TypeOK, ControlOK, OpsAt
  <2>2. CASE call[g].id \in secrets[Path(g)] /\ ReturnRead(g, "ok", {call[g].id})
    BY <1>1, <1>2, <1>4, <2>1, <2>2 DEF VaultStep, Vault!Read
  <2>3. CASE call[g].id \notin secrets[Path(g)] /\ ReturnRead(g, "notfound", {})
    BY <1>1, <1>2, <1>5, <2>1, <2>3 DEF VaultStep, Vault!Missing
  <2> QED BY <1>3, <1>7, <2>2, <2>3 DEF GetVersion
<1>8. CASE Exists(g)
  <2>1. call[g].op = "Exists"
    BY <1>8 DEF Exists, RInv, TypeOK, ControlOK, OpsAt
  <2> DEFINE a == IF secrets[Path(g)] # {} THEN {Path(g)} ELSE {}
  <2>2. a = {p \in {Path(g)} : secrets[p] # {}}
    OBVIOUS
  <2>3. CASE ReturnRead(g, "ok", a)
    <3> HIDE DEF a
    <3>1. /\ Vault!Answer(g, "ok", a) /\ Reporting' /\ Reported'[g] = a
          /\ Phase[g] = "pending"
      BY <1>4, <2>3
    <3> QED BY <1>1, <1>2, <2>1, <2>2, <3>1 DEF VaultStep, Vault!Read
  <2> QED BY <1>3, <1>8, <2>3 DEF Exists
<1>9. CASE ListVersions(g)
  <2>1. call[g].op = "ListVersions"
    BY <1>9 DEF ListVersions, RInv, TypeOK, ControlOK, OpsAt
  <2>2. CASE secrets[Path(g)] # {} /\ ReturnRead(g, "ok", Labelled(Path(g)))
    <3>1. \A i \in secrets[Path(g)] : i < nextId
      BY <1>2 DEF RInv, Fresh
    <3>2. PICK i \in secrets[Path(g)] : \A j \in secrets[Path(g)] : j <= i
      BY <1>2, <2>2, <3>1, HasNewest
    <3>3. {j \in secrets[Path(g)] : j > i} = {}
      BY <1>2, <3>2
    <3>4. i \in Labelled(Path(g))
      BY <3>2, <3>3, FS_EmptySet DEF Labelled
    <3>5. Vault!Newest(Path(g), i)
      BY <3>2 DEF Vault!Newest
    <3>6. Labelled(Path(g)) \subseteq secrets[Path(g)]
      BY DEF Labelled
    <3> QED BY <1>1, <1>2, <1>4, <2>1, <2>2, <3>4, <3>5, <3>6 DEF VaultStep, Vault!Read
  <2> QED BY <1>3, <1>9, <2>2 DEF ListVersions
<1> QED BY <1>6, <1>7, <1>8, <1>9

LEMMA ListingSteps ==
  ASSUME RInv, NEW g \in Goroutines, ListPage(g)
  PROVE  VaultStep(g) /\ Reporting'
<1> DEFINE names == ans[g] \cup (Page(cursor[g]) \cap Matches[Path(g)])
<1>1. /\ at[g] = "page" /\ UNCHANGED <<closed, secrets>> /\ ~closed[Home[g]]
      /\ call[g].op = "List"
  BY DEF ListPage, service, RInv, ClosedQuiet, ReadSteps, TypeOK, ControlOK, OpsAt
<1>2. names \subseteq Paths
  BY <1>1 DEF Page, Rest, RInv, Reporting
<1>3. CASE ReturnRead(g, "fault", {})
  <2>1. Vault!Answer(g, "fault", {}) /\ Reporting'
    BY <1>1, <1>3, AnswersVault DEF RInv
  <2> QED BY <1>1, <2>1 DEF VaultStep, Vault!Fail
<1>4. CASE ReturnRead(g, "ok", names)
  <2> HIDE DEF names
  <2>1. Vault!Answer(g, "ok", names) /\ Reporting' /\ Reported'[g] = names
    BY <1>1, <1>4, AnswersVault DEF RInv
  <2>2. Phase[g] = "pending"
    BY <2>1 DEF Vault!Answer
  <2> QED BY <1>1, <1>2, <2>1, <2>2 DEF VaultStep, Vault!Read
<1>5. CASE ans' = [ans EXCEPT ![g] = names] /\ UNCHANGED <<at, call, res, token>>
  <2> HIDE DEF names
  <2>1. ans'[g] = names /\ \A h \in Goroutines \ {g} : ans'[h] = ans[h]
    BY <1>5 DEF RInv, TypeOK, CallersOK
  <2>2. Reported' = Reported /\ Phase' = Phase
    BY <1>1, <1>5, <2>1 DEF Reported, Phase
  <2>3. Reporting'
    BY <1>1, <1>2, <1>5, <2>1 DEF RInv, Reporting
  <2> QED BY <1>1, <1>5, <2>2, <2>3 DEF VaultStep, Vault!vars
<1> QED BY <1>3, <1>4, <1>5 DEF ListPage

LEMMA LockingSteps ==
  ASSUME RInv, NEW g \in Goroutines, AnnounceWriter(g) \/ GetAfterRotate(g)
  PROVE  VaultStep(g) /\ Reporting'
<1>1. CASE AnnounceWriter(g)
  BY <1>1 DEF AnnounceWriter, service, VaultStep, Vault!vars, Phase, Reported, RInv, Reporting
<1>2. CASE GetAfterRotate(g)
  BY <1>2, GoesOn DEF GetAfterRotate, service, VaultStep, RInv
<1> QED BY <1>1, <1>2

LEMMA RotationRotates ==
  ASSUME RInv, NEW p \in Paths, FinishRotation(p)
  PROVE  Vault!Rotation(p) /\ Reporting' /\ Fresh' /\ RotatesExisting'
<1>1. /\ UNCHANGED <<closed, at, call, res, ans, token>>
      /\ secrets' = [secrets EXCEPT ![p] = @ \cup {nextId}] /\ nextId' = nextId + 1
      /\ rotating' = [rotating EXCEPT ![p] = @ - 1] /\ rotating[p] > 0
  BY DEF FinishRotation
<1>2. secrets[p] # {}
  BY <1>1 DEF RInv, RotatesExisting
<1>3. Vault!Grow(p) /\ Fresh'
  BY <1>1, VersionGrows DEF RInv
<1>4. Phase' = Phase /\ Reported' = Reported /\ Reporting'
  BY <1>1 DEF Phase, Reported, RInv, Reporting
<1>5. RotatesExisting'
  <2>1. secrets \in [Paths -> SUBSET Nat] /\ rotating \in [Paths -> Nat]
    BY DEF RInv, TypeOK, ServiceOK
  <2>2. secrets'[p] # {} /\ \A q \in Paths \ {p} : secrets'[q] = secrets[q] /\ rotating'[q] = rotating[q]
    BY <1>1, <1>2, <2>1
  <2> QED BY <2>2 DEF RInv, RotatesExisting
<1> QED BY <1>1, <1>2, <1>3, <1>4, <1>5 DEF Vault!Rotation

\* Every step of the provider is one of the vault, or one the vault does not see.
LEMMA StepsImplement ==
  ASSUME RInv, [Next]_vars
  PROVE  [Vault!Next]_(Vault!vars) /\ RotatesExisting' /\ Fresh' /\ Reporting'
<1>1. ASSUME NEW g \in Goroutines, Invoke(g) \/ Progress(g)
      PROVE  [Vault!Next]_(Vault!vars) /\ RotatesExisting' /\ Fresh' /\ Reporting'
  <2>1. RotatesExisting' /\ Fresh'
    BY <1>1, RotatesExistingKept, FreshKept DEF RInv
  <2>2. CASE Invoke(g)
    BY <2>1, <2>2, InvokeCalls DEF Vault!Next
  <2>3. CASE Return(g)
    BY <2>1, <2>3, ReturnReturns DEF Vault!Next
  <2>4. VaultStep(g) => [Vault!Next]_(Vault!vars)
    BY DEF VaultStep, Vault!Next
  <2>5. CASE AnnounceWriter(g) \/ EnterWrite(g) \/ EnterRead(g) \/ Request(g) \/ GetAfterRotate(g)
    BY <2>1, <2>4, <2>5, EnterSteps, WritingSteps, ReadingSteps, ListingSteps, LockingSteps
       DEF Request
  <2> QED BY <1>1, <2>2, <2>3, <2>5 DEF Progress
<1>2. ASSUME NEW p \in Paths, FinishRotation(p)
      PROVE  [Vault!Next]_(Vault!vars) /\ RotatesExisting' /\ Fresh' /\ Reporting'
  BY <1>2, RotationRotates DEF Vault!Next
<1>3. CASE UNCHANGED vars
  BY <1>3 DEF vars, Vault!vars, Phase, Reported, RInv, RotatesExisting, Fresh, Reporting
<1> QED BY <1>1, <1>2, <1>3 DEF Next

\* For any number of goroutines, providers, secrets, versions and tries the
\* provider implements the vault: a method that makes several requests takes
\* effect at one moment all the same, unless a response is lost; then a Delete
\* may delete again, and a Set stores again only what has been deleted since.
THEOREM ProviderImplementsVault == Spec => VaultSafety
<1>1. Init => Vault!Init /\ RotatesExisting /\ Fresh /\ Reporting
  BY DEF Init, Vault!Init, Phase, Reported, RotatesExisting, Fresh, Reporting
<1>2. TypeOK /\ ClosedQuiet /\ (RotatesExisting /\ Fresh /\ Reporting) /\ [Next]_vars
        => [Vault!Next]_(Vault!vars) /\ (RotatesExisting /\ Fresh /\ Reporting)'
  BY StepsImplement DEF RInv
<1> QED BY <1>1, <1>2, TypeCorrect, CloseIsQuiet, PTL DEF Spec, VaultSafety, Vault!Spec

-----------------------------------------------------------------------------
(* List while secrets come and go.                                         *)

\* There are finitely many secrets, and before its first page nothing is listed.
FiniteVault == IsFiniteSet(Live)

NothingListed ==
  \A g \in Goroutines :
    at[g] \notin {"page", "done"} => ans[g] = {} /\ cursor[g] = 0

\* Of a List in progress: the names that were there all the time still are, and
\* it has listed those of them that it is past; whatever it has listed was there.
Listed(g) ==
  Listing(g) =>
    /\ must[g] \subseteq Live
    /\ Live \subseteq may[g]
    /\ ans[g] \subseteq may[g] \cap Matches[Path(g)]
    /\ \A p \in must[g] \cap Matches[Path(g)] : Rank[p] <= cursor[g] => p \in ans[g]

ListInv == FiniteVault /\ NothingListed /\ \A g \in Goroutines : Listed(g)

\* Of finitely many names, a page has all that come before one it has.
LEMMA PageIsFirst ==
  ASSUME FiniteVault, NEW c \in Nat, NEW p \in Rest(c), NEW q \in Page(c),
         Rank[p] <= Rank[q]
  PROVE  p \in Page(c)
<1> DEFINE before(x) == {y \in Rest(c) : Rank[y] < Rank[x]}
<1>1. \A x \in Rest(c) : Rank[x] \in Nat
  BY SMAssumption DEF Rest
<1>2. q \in Rest(c) /\ Cardinality(before(q)) < PageSize
  BY DEF Page
<1>3. before(p) \subseteq before(q)
  BY <1>1, <1>2
<1>4. IsFiniteSet(before(q))
  <2>1. before(q) \subseteq Live
    BY DEF Rest, Live
  <2> QED BY <2>1, FS_Subset DEF FiniteVault
<1>5. Cardinality(before(p)) <= Cardinality(before(q))
  BY <1>3, <1>4, FS_Subset
<1>6. Cardinality(before(p)) \in Nat /\ Cardinality(before(q)) \in Nat
  BY <1>3, <1>4, FS_Subset, FS_CardinalityType
<1>7. Cardinality(before(p)) < PageSize
  <2> HIDE DEF before
  <2> QED BY <1>2, <1>5, <1>6, SMAssumption
<1> QED BY <1>7 DEF Page

\* A step adds one secret at most.
LEMMA VaultStaysFinite ==
  ASSUME TypeOK, FiniteVault, [Next]_vars PROVE FiniteVault'
<1>1. ASSUME NEW p \in Paths, NEW S, secrets' = [secrets EXCEPT ![p] = S]
      PROVE  FiniteVault'
  <2>1. Live' \subseteq Live \cup {p}
    BY <1>1 DEF Live, TypeOK, ServiceOK
  <2>2. IsFiniteSet(Live \cup {p})
    BY FS_AddElement DEF FiniteVault
  <2> QED BY <2>1, <2>2, FS_Subset DEF FiniteVault
<1>2. CASE secrets' = secrets
  BY <1>2 DEF FiniteVault, Live
<1>3. ASSUME NEW g \in Goroutines, Invoke(g) \/ Progress(g) PROVE FiniteVault'
  <2>1. Path(g) \in Paths
    BY DEF TypeOK, CallersOK, Path
  <2> QED BY <1>1, <1>2, <1>3, <2>1, GoroutineStep DEF AddVersion, RemoveSecret
<1>4. ASSUME NEW p \in Paths, FinishRotation(p) PROVE FiniteVault'
  BY <1>1, <1>4 DEF FinishRotation
<1> QED BY <1>2, <1>3, <1>4 DEF Next, vars

\* A step of one goroutine leaves what the others have listed alone, and lists
\* something itself only if it is a page.
LEMMA ListsAlone ==
  ASSUME TypeOK, NothingListed, NEW g \in Goroutines, Invoke(g) \/ Progress(g)
  PROVE  /\ \A h \in Goroutines \ {g} : ans'[h] = ans[h] /\ cursor'[h] = cursor[h]
         /\ at'[g] \notin {"page", "done"} => ans'[g] = {} /\ cursor'[g] = 0
         /\ Listing(g)' =>
              \/ Invoke(g) /\ ~Listing(g)
              \/ EnterRead(g) /\ UNCHANGED <<call, ans, cursor>>
              \/ ListPage(g)
  <1> USE DEF Goto, Answer, ReturnRead, ReturnWrite, TryAgain, TypeOK, CallersOK,
              NothingListed, Listing
  <1>1. call[g].op \in OpsAt(at[g])
    BY DEF ControlOK
  <1>2. CASE Invoke(g)
    BY <1>2 DEF Invoke
  <1>3. CASE AnnounceWriter(g)
    BY <1>1, <1>3 DEF AnnounceWriter, OpsAt, WriteOps
  <1>4. CASE EnterWrite(g)
    BY <1>1, <1>4 DEF EnterWrite, OpsAt, WriteOps
  <1>5. CASE EnterRead(g)
    BY <1>5 DEF EnterRead
  <1>6. CASE DescribeSecret(g) \/ PutSecretValue(g) \/ CreateSecret(g)
    BY <1>1, <1>6 DEF DescribeSecret, PutSecretValue, CreateSecret, StoreVersion, OpsAt
  <1>7. CASE DeleteSecret(g) \/ RotateSecret(g) \/ GetAfterRotate(g)
    BY <1>1, <1>7 DEF DeleteSecret, RotateSecret, GetAfterRotate, OpsAt
  <1>8. CASE GetSecretValue(g) \/ GetVersion(g) \/ Exists(g) \/ ListVersions(g)
    BY <1>8 DEF GetSecretValue, GetVersion, Exists, ListVersions
  <1>9. CASE ListPage(g)
    BY <1>9 DEF ListPage
  <1>10. CASE Return(g)
    BY <1>10 DEF Return
  <1> QED BY <1>2, <1>3, <1>4, <1>5, <1>6, <1>7, <1>8, <1>9, <1>10
          DEF Progress, Request

\* What the history variables become for one goroutine.
LEMMA HistorySteps ==
  ASSUME HNext, NEW g \in Goroutines
  PROVE  /\ Listing(g) => must'[g] = must[g] \cap Live' /\ may'[g] = may[g] \cup Live'
         /\ ~Listing(g) /\ Listing(g)' => must'[g] = Live' /\ may'[g] = Live'
  BY DEF HNext

\* A List that stands still while secrets come and go.
LEMMA ListedWhileOthersWork ==
  ASSUME HNext, NEW h \in Goroutines, Listed(h),
         at'[h] = at[h], call'[h] = call[h], ans'[h] = ans[h], cursor'[h] = cursor[h]
  PROVE  Listed(h)'
  <1> SUFFICES ASSUME Listing(h)'
               PROVE  /\ must'[h] \subseteq Live'
                      /\ Live' \subseteq may'[h]
                      /\ ans'[h] \subseteq may'[h] \cap Matches[Path(h)']
                      /\ \A p \in must'[h] \cap Matches[Path(h)'] :
                           Rank[p] <= cursor'[h] => p \in ans'[h]
    BY DEF Listed
  <1>1. Listing(h) /\ Path(h)' = Path(h)
    BY DEF Listing, Path
  <1>2. must'[h] = must[h] \cap Live' /\ may'[h] = may[h] \cup Live'
    BY <1>1, HistorySteps
  <1> QED BY <1>1, <1>2 DEF Listed

\* The List that makes the step.
LEMMA ListedAtWork ==
  ASSUME TypeOK, ListInv, HNext, NEW g \in Goroutines, Invoke(g) \/ Progress(g)
  PROVE  Listed(g)'
  <1> SUFFICES ASSUME Listing(g)'
               PROVE  /\ must'[g] \subseteq Live'
                      /\ Live' \subseteq may'[g]
                      /\ ans'[g] \subseteq may'[g] \cap Matches[Path(g)']
                      /\ \A p \in must'[g] \cap Matches[Path(g)'] :
                           Rank[p] <= cursor'[g] => p \in ans'[g]
    BY DEF Listed
  <1>1. CASE Invoke(g) /\ ~Listing(g)
    <2>1. ans'[g] = {} /\ cursor'[g] = 0
      BY <1>1 DEF Invoke, ListInv, NothingListed
    <2>2. must'[g] = Live' /\ may'[g] = Live'
      BY <1>1, HistorySteps
    <2>3. \A p \in Live' : ~(Rank[p] <= 0)
      BY SMAssumption DEF Live
    <2> QED BY <2>1, <2>2, <2>3
  <1>2. CASE EnterRead(g) /\ UNCHANGED <<call, ans, cursor>>
    <2>1. Listing(g) /\ Path(g)' = Path(g) /\ Live' = Live
      BY <1>2 DEF EnterRead, Listing, Path, Live, service
    <2>2. must'[g] = must[g] \cap Live /\ may'[g] = may[g] \cup Live
      BY <2>1, HistorySteps
    <2>3. Listed(g)
      BY DEF ListInv
    <2> QED BY <1>2, <2>1, <2>2, <2>3 DEF Listed
  <1>3. CASE ListPage(g)
    <2>1. at'[g] # "done" /\ cursor[g] \in Nat
      BY DEF Listing, TypeOK, CallersOK
    <2>2. PICK last \in Page(cursor[g]) :
            /\ cursor' = [cursor EXCEPT ![g] = Rank[last]]
            /\ ans' = [ans EXCEPT ![g] = ans[g] \cup (Page(cursor[g]) \cap Matches[Path(g)])]
            /\ UNCHANGED <<at, call, secrets>>
      BY <1>3, <2>1 DEF ListPage, ReturnRead, Answer, Goto, TypeOK, CallersOK, service
    <2>3. /\ cursor'[g] = Rank[last]
          /\ ans'[g] = ans[g] \cup (Page(cursor[g]) \cap Matches[Path(g)])
      BY <2>2 DEF TypeOK, CallersOK
    <2>4. Listing(g) /\ Path(g)' = Path(g) /\ Live' = Live
      BY <2>2 DEF Listing, Path, Live
    <2>5. must'[g] = must[g] \cap Live /\ may'[g] = may[g] \cup Live
      BY <2>4, HistorySteps
    <2>6. /\ must[g] \subseteq Live
          /\ Live \subseteq may[g]
          /\ ans[g] \subseteq may[g] \cap Matches[Path(g)]
          /\ \A p \in must[g] \cap Matches[Path(g)] : Rank[p] <= cursor[g] => p \in ans[g]
      BY <2>4 DEF ListInv, Listed
    <2>7. Page(cursor[g]) \subseteq Live
      BY DEF Page, Rest, Live
    <2>8. ASSUME NEW p \in must[g] \cap Matches[Path(g)], Rank[p] <= Rank[last]
          PROVE  p \in ans'[g]
      <3>1. CASE Rank[p] <= cursor[g]
        BY <2>3, <2>6, <3>1
      <3>2. CASE ~(Rank[p] <= cursor[g])
        <4>1. p \in Rest(cursor[g])
          BY <2>1, <2>6, <3>2, SMAssumption DEF Live, Rest
        <4>2. p \in Page(cursor[g])
          BY <2>1, <2>8, <4>1, PageIsFirst DEF ListInv
        <4> QED BY <2>3, <4>2
      <3> QED BY <3>1, <3>2
    <2> QED BY <2>3, <2>4, <2>5, <2>6, <2>7, <2>8
  <1> QED BY <1>1, <1>2, <1>3, ListsAlone DEF ListInv

LEMMA ListInvHolds == HSpec => [](TypeOK /\ ListInv)
<1>1. HInit => Init /\ ListInv
  <2> SUFFICES ASSUME HInit PROVE Init /\ ListInv
    OBVIOUS
  <2>1. Live = {}
    BY DEF HInit, Init, Live
  <2>2. FiniteVault
    BY <2>1, FS_EmptySet DEF FiniteVault
  <2> QED BY <2>2 DEF HInit, Init, ListInv, NothingListed, Listed, Listing
<1>2. TypeOK /\ ListInv /\ [HNext]_hvars => ListInv'
  <2> SUFFICES ASSUME TypeOK, ListInv, [HNext]_hvars PROVE ListInv'
    OBVIOUS
  <2>1. FiniteVault'
    BY VaultStaysFinite DEF HNext, hvars, ListInv
  <2>2. ASSUME HNext, NEW g \in Goroutines, Invoke(g) \/ Progress(g)
        PROVE  ListInv'
    <3>1. \A h \in Goroutines \ {g} :
            at'[h] = at[h] /\ call'[h] = call[h] /\ ans'[h] = ans[h] /\ cursor'[h] = cursor[h]
      BY <2>2, GoroutineStep, ListsAlone DEF ListInv
    <3>2. NothingListed'
      BY <2>2, <3>1, ListsAlone DEF ListInv, NothingListed
    <3>3. \A h \in Goroutines \ {g} : Listed(h)'
      BY <2>2, <3>1, ListedWhileOthersWork DEF ListInv
    <3>4. Listed(g)'
      BY <2>2, ListedAtWork
    <3> QED BY <2>1, <3>2, <3>3, <3>4 DEF ListInv
  <2>3. ASSUME HNext, NEW p \in Paths, FinishRotation(p) PROVE ListInv'
    <3>1. UNCHANGED <<at, call, ans, cursor>>
      BY <2>3 DEF FinishRotation
    <3>2. \A h \in Goroutines : Listed(h)'
      BY <2>3, <3>1, ListedWhileOthersWork DEF ListInv
    <3> QED BY <2>1, <3>1, <3>2 DEF ListInv, NothingListed
  <2>4. CASE UNCHANGED hvars
    BY <2>1, <2>4 DEF hvars, vars, ListInv, NothingListed, Listed, Listing, Live, Path
  <2> QED BY <2>2, <2>3, <2>4 DEF HNext, Next
<1>3. [HNext]_hvars => [Next]_vars
  BY DEF HNext, hvars
<1> QED BY <1>1, <1>2, <1>3, TypeCorrect, PTL DEF HSpec, Spec

\* List reports every name with the prefix that was there from the call to the
\* answer, and none that never was, on however many pages.
THEOREM ListIsComplete == HSpec => ListComplete
<1>1. TypeOK /\ ListInv /\ [HNext]_hvars =>
        [\A g \in Goroutines :
           (Listing(g) /\ at'[g] = "done" /\ res'[g] = "ok") =>
              /\ must[g] \cap Matches[Path(g)] \subseteq ans'[g]
              /\ ans'[g] \subseteq may[g] \cap Matches[Path(g)]]_hvars
  <2> SUFFICES ASSUME TypeOK, ListInv, HNext, NEW g \in Goroutines, Listing(g),
                      at'[g] = "done", res'[g] = "ok"
               PROVE  /\ must[g] \cap Matches[Path(g)] \subseteq ans'[g]
                      /\ ans'[g] \subseteq may[g] \cap Matches[Path(g)]
    OBVIOUS
  <2>1. ListPage(g)
    <3>1. at[g] \notin {"idle", "done"} /\ call[g].op = "List" /\ call[g].op \in OpsAt(at[g])
      BY DEF Listing, TypeOK, ControlOK
    <3>2. ~(\E p \in Paths : FinishRotation(p))
      BY <3>1 DEF FinishRotation
    <3>3. PICK h \in Goroutines : Invoke(h) \/ Progress(h)
      BY <3>2 DEF HNext, Next
    <3>4. h = g
      BY <3>1, <3>3, GoroutineStep
    <3>5. at[g] \in {"rlock", "page"}
      BY <3>1 DEF OpsAt, TypeOK, CallersOK, Steps, WriteSteps, ReadSteps, WriteOps
    <3>6. ~EnterRead(g)
      <4> SUFFICES ASSUME EnterRead(g) PROVE FALSE
        OBVIOUS
      <4>1. at'[g] = FirstRequest(call[g].op)
        BY <3>1 DEF EnterRead, ReturnRead, Answer, Goto, TypeOK, CallersOK
      <4> QED BY <3>1, <4>1 DEF FirstRequest
    <3> QED BY <3>3, <3>4, <3>5, <3>6
            DEF Progress, Request, Invoke, AnnounceWriter, EnterWrite, DescribeSecret,
                PutSecretValue, CreateSecret, DeleteSecret, RotateSecret, GetSecretValue,
                GetVersion, Exists, ListVersions, GetAfterRotate, Return
  <2>2. ans'[g] = ans[g] \cup (Rest(cursor[g]) \cap Matches[Path(g)])
    <3>1. at[g] # "done"
      BY DEF Listing
    <3> QED BY <2>1, <3>1 DEF ListPage, ReturnRead, Answer, Goto, TypeOK, CallersOK
  <2>3. /\ must[g] \subseteq Live
        /\ Live \subseteq may[g]
        /\ ans[g] \subseteq may[g] \cap Matches[Path(g)]
        /\ \A p \in must[g] \cap Matches[Path(g)] : Rank[p] <= cursor[g] => p \in ans[g]
    BY DEF ListInv, Listed
  <2>4. Rest(cursor[g]) \subseteq Live
    BY DEF Rest, Live
  <2>5. ASSUME NEW p \in must[g] \cap Matches[Path(g)] PROVE p \in ans'[g]
    <3>1. CASE Rank[p] <= cursor[g]
      BY <2>2, <2>3, <3>1
    <3>2. CASE ~(Rank[p] <= cursor[g])
      <4>1. cursor[g] \in Nat
        BY DEF TypeOK, CallersOK
      <4>2. p \in Rest(cursor[g])
        BY <2>3, <3>2, <4>1, SMAssumption DEF Live, Rest
      <4> QED BY <2>2, <4>2
    <3> QED BY <3>1, <3>2
  <2> QED BY <2>2, <2>3, <2>4, <2>5
<1> QED BY <1>1, ListInvHolds, PTL DEF HSpec, ListComplete
=============================================================================
