-------------------------- MODULE S3BackendProofs ---------------------------
(***************************************************************************)
(* Proofs about S3Backend, for any number of goroutines, backends, keys    *)
(* and writers, and any number of calls of Write.                          *)
(***************************************************************************)
EXTENDS S3History, Folding, FiniteSetTheorems, SequenceTheorems

LEMMA NoCallType ==
  NoCall \in [op : Ops \cup {"none"}, src : Keys, dst : Keys, slot : Slots]
  BY S3Assumption DEF NoCall

LEMMA ArgumentTypes ==
  ASSUME NEW o, NEW m \in Arguments(o)
  PROVE  m[1] \in Keys /\ m[2] \in Keys
  <1>1. NoCall.src \in Keys /\ NoCall.dst \in Keys
    BY NoCallType
  <1>2. CASE o \in PairOps
    BY <1>2, S3Assumption DEF Arguments, Keys
  <1>3. CASE o \notin PairOps /\ o \in PathOps
    BY <1>3, S3Assumption DEF Arguments, Keys
  <1>4. CASE o \notin PairOps /\ o \notin PathOps /\ o \in DirOps
    BY <1>4 DEF Arguments, Keys
  <1>5. CASE o \notin PairOps /\ o \notin PathOps /\ o \notin DirOps
    BY <1>1, <1>5 DEF Arguments
  <1> QED BY <1>2, <1>3, <1>4, <1>5

-----------------------------------------------------------------------------
(* Types.                                                                  *)

\* Sending a goroutine to a step of the method it is in keeps the control part.
LEMMA GotoTypes ==
  ASSUME TypeOK, NEW g \in Goroutines, NEW s \in Steps, Goto(g, s),
         UNCHANGED <<call, res, ans, cursor, issued>>, call[g].op \in OpsAt(s)
  PROVE  CallersOK' /\ ControlOK'
  <1>1. at' \in [Goroutines -> Steps] /\ at'[g] = s
    BY DEF Goto, TypeOK, CallersOK
  <1>2. ASSUME NEW h \in Goroutines PROVE call'[h].op \in OpsAt(at'[h])
    <2>1. CASE h = g BY <1>1, <2>1
    <2>2. CASE h # g
      <3>1. at'[h] = at[h] BY <2>2 DEF Goto, TypeOK, CallersOK
      <3> QED BY <3>1 DEF TypeOK, ControlOK
    <2> QED BY <2>1, <2>2
  <1>3. ControlOK' BY <1>2 DEF ControlOK
  <1> QED BY <1>1, <1>3 DEF TypeOK, CallersOK

\* So does an answer.
LEMMA AnswerTypes ==
  ASSUME TypeOK, NEW g \in Goroutines, at[g] # "idle", NEW r \in Outcomes, Answer(g, r)
  PROVE  CallersOK' /\ ControlOK'
  <1>1. call[g].op \in Ops
    BY DEF TypeOK, ControlOK, CallersOK, OpsAt, Steps, EnterSteps, Requests,
           Ops, PathOps, DirOps, PairOps, WriterOps
  <1>2. at' \in [Goroutines -> Steps] /\ at'[g] = "done"
    BY DEF Answer, Goto, TypeOK, CallersOK, Steps
  <1>3. ASSUME NEW h \in Goroutines PROVE call'[h].op \in OpsAt(at'[h])
    <2>1. CASE h = g BY <1>1, <1>2, <2>1 DEF Answer, OpsAt
    <2>2. CASE h # g
      <3>1. at'[h] = at[h] /\ call' = call BY <2>2 DEF Answer, Goto, TypeOK, CallersOK
      <3> QED BY <3>1 DEF TypeOK, ControlOK
    <2> QED BY <2>1, <2>2
  <1>4. ControlOK' BY <1>3 DEF ControlOK
  <1> QED BY <1>2, <1>4 DEF Answer, TypeOK, CallersOK

\* What the service does to the bucket keeps its type.
LEMMA BucketTypes ==
  ASSUME BucketOK, NEW k \in Keys, NEW c \in Contents,
         PutObject(k, c) \/ RemoveObject(k) \/ UNCHANGED objects
  PROVE  BucketOK'
  BY DEF BucketOK, PutObject, RemoveObject

\* Every variable has its type and every goroutine is at a step of the method
\* it called.
THEOREM TypeCorrect == Spec => []TypeOK
<1>1. Init => TypeOK
  <2> SUFFICES ASSUME Init PROVE TypeOK
    OBVIOUS
  <2>1. BucketOK
    BY S3Assumption DEF Init, BucketOK, Contents, Chunks
  <2>2. WritersOK
    BY S3Assumption DEF Init, WritersOK, WriterStates, Contents
  <2>3. CallersOK
    BY NoCallType DEF Init, CallersOK, Steps, Outcomes
  <2>4. ControlOK
    BY DEF Init, ControlOK, NoCall, OpsAt
  <2> QED BY <2>1, <2>2, <2>3, <2>4 DEF Init, TypeOK
<1>2. TypeOK /\ [Next]_vars => TypeOK'
  <2> SUFFICES ASSUME TypeOK, [Next]_vars PROVE TypeOK'
    OBVIOUS
  <2>a. ASSUME NEW g \in Goroutines
        PROVE  Src(g) \in Keys /\ Dst(g) \in Keys /\ Slot(g) \in Slots
    BY DEF TypeOK, CallersOK, Src, Dst, Slot
  <2>b. <<>> \in Contents
    BY DEF Contents
  <2>1. ASSUME NEW g \in Goroutines, Invoke(g) PROVE TypeOK'
    <3>1. PICK o \in Menu[g], w \in Slots :
            /\ issued' = IF o = "Write" THEN issued + 1 ELSE issued
            /\ \E m \in Arguments(o) :
                 call' = [call EXCEPT ![g] = [op |-> o, src |-> m[1], dst |-> m[2], slot |-> w]]
            /\ Goto(g, FirstStep(o))
      BY <2>1 DEF Invoke
    <3>2. o \in Ops
      BY S3Assumption
    <3>3. PICK x \in Keys, y \in Keys :
            call' = [call EXCEPT ![g] = [op |-> o, src |-> x, dst |-> y, slot |-> w]]
      BY <3>1, ArgumentTypes
    <3>4. /\ call' \in [Goroutines -> [op : Ops \cup {"none"}, src : Keys, dst : Keys, slot : Slots]]
          /\ call'[g].op = o
          /\ \A h \in Goroutines \ {g} : call'[h] = call[h]
      BY <3>2, <3>3 DEF TypeOK, CallersOK
    <3>5. /\ at' \in [Goroutines -> Steps]
          /\ o \in OpsAt(at'[g])
          /\ \A h \in Goroutines \ {g} : at'[h] = at[h]
      <4>1. CASE o = "Write" \/ o = "CloseWriter" \/ o = "Close"
        BY <3>1, <4>1 DEF FirstStep, Goto, TypeOK, CallersOK, Steps, OpsAt
      <4>2. CASE ~(o = "Write" \/ o = "CloseWriter" \/ o = "Close")
        <5>1. o \in PathOps \cup DirOps \cup PairOps
          BY <3>2, <4>2 DEF Ops, WriterOps
        <5>2. Goto(g, "enter")
          BY <3>1, <4>2 DEF FirstStep
        <5> QED BY <5>1, <5>2 DEF Goto, TypeOK, CallersOK, Steps, EnterSteps, OpsAt
      <4> QED BY <4>1, <4>2
    <3>6. ControlOK'
      BY <3>4, <3>5 DEF TypeOK, ControlOK
    <3>7. issued' \in Nat
      BY <3>1 DEF TypeOK, CallersOK
    <3> QED BY <2>1, <3>4, <3>5, <3>6, <3>7
            DEF Invoke, TypeOK, CallersOK, BucketOK, WritersOK, writers
  <2>2. ASSUME NEW g \in Goroutines, Enter(g) PROVE TypeOK'
    <3>1. at[g] # "idle"
      BY <2>2 DEF Enter, EnterSteps
    <3>2. CallersOK' /\ ControlOK'
      <4>1. CASE \E r \in Outcomes : Answer(g, r)
        BY <3>1, <4>1, AnswerTypes
      <4>2. CASE /\ call[g].op # "NewWriter"
                 /\ Goto(g, CASE at[g] = "enterCopy" -> "copy"
                             [] at[g] = "enterDelete" -> "delete"
                             [] OTHER -> FirstRequest(call[g].op))
                 /\ UNCHANGED <<call, res, ans, cursor, issued>>
        <5>1. CASE at[g] = "enterCopy"
          BY <4>2, <5>1, GotoTypes DEF Steps, Requests, TypeOK, ControlOK, OpsAt, PairOps
        <5>2. CASE at[g] = "enterDelete"
          BY <4>2, <5>2, GotoTypes DEF Steps, Requests, TypeOK, ControlOK, OpsAt
        <5>3. CASE at[g] = "enter"
          <6>1. call[g].op \in PathOps \cup DirOps \cup PairOps
            BY <5>3 DEF TypeOK, ControlOK, OpsAt
          <6>2. /\ FirstRequest(call[g].op) \in Steps
                /\ call[g].op \in OpsAt(FirstRequest(call[g].op))
            BY <4>2, <6>1 DEF FirstRequest, OpsAt, PathOps, DirOps, PairOps, Steps,
                 Requests, EnterSteps
          <6> QED BY <4>2, <5>3, <6>2, GotoTypes
        <5> QED BY <2>2, <5>1, <5>2, <5>3 DEF Enter, EnterSteps
      <4> QED BY <2>2, <4>1, <4>2 DEF Enter, Outcomes
    <3>3. WritersOK'
      BY <2>2, <2>a DEF Enter, TypeOK, WritersOK, WriterStates, writers
    <3> QED BY <2>2, <3>2, <3>3 DEF Enter, TypeOK, BucketOK
  <2>3. ASSUME NEW g \in Goroutines, Close(g) PROVE TypeOK'
    <3>1. CallersOK' /\ ControlOK'
      BY <2>3, AnswerTypes DEF Close, Outcomes
    <3> QED BY <2>3, <3>1, S3Assumption DEF Close, TypeOK, BucketOK, WritersOK, writers
  <2>4. ASSUME NEW g \in Goroutines, GetObject(g) \/ Exists(g) \/ Stat(g) PROVE TypeOK'
    <3>1. at[g] # "idle" /\ \E r \in Outcomes : Answer(g, r)
      BY <2>4 DEF GetObject, Exists, Stat, Outcomes
    <3>2. CallersOK' /\ ControlOK'
      BY <3>1, AnswerTypes
    <3> QED BY <2>4, <3>2 DEF GetObject, Exists, Stat, TypeOK, BucketOK, WritersOK, writers
  <2>5. ASSUME NEW g \in Goroutines, DeleteObject(g) \/ PutMarker(g) \/ DeleteDir(g)
        PROVE  TypeOK'
    <3>1. at[g] # "idle" /\ \E r \in Outcomes : Answer(g, r)
      BY <2>5 DEF DeleteObject, PutMarker, DeleteDir, Outcomes
    <3>2. CallersOK' /\ ControlOK'
      BY <3>1, AnswerTypes
    <3>3. BucketOK'
      BY <2>5, <2>a, <2>b, BucketTypes DEF DeleteObject, PutMarker, DeleteDir, TypeOK
    <3> QED BY <2>5, <3>2, <3>3
            DEF DeleteObject, PutMarker, DeleteDir, TypeOK, WritersOK, writers
  <2>6. ASSUME NEW g \in Goroutines, CopyObject(g) PROVE TypeOK'
    <3>1. PICK r \in Outcomes : AfterCopy(g, r)
      BY <2>6 DEF CopyObject, Outcomes
    <3>2. CallersOK' /\ ControlOK'
      <4>1. CASE Answer(g, r)
        BY <2>6, <4>1, AnswerTypes DEF CopyObject
      <4>2. CASE /\ call[g].op = "Move" /\ Goto(g, "enterDelete")
                 /\ UNCHANGED <<call, res, ans, cursor, issued>>
        BY <4>2, GotoTypes DEF Steps, EnterSteps, OpsAt
      <4> QED BY <3>1, <4>1, <4>2 DEF AfterCopy
    <3>3. BucketOK'
      <4>1. CASE Src(g) \in DOMAIN objects /\ PutObject(Dst(g), objects[Src(g)])
        BY <2>a, <4>1, BucketTypes DEF TypeOK, BucketOK
      <4>2. CASE UNCHANGED objects
        BY <4>2 DEF TypeOK, BucketOK
      <4> QED BY <2>6, <4>1, <4>2 DEF CopyObject
    <3> QED BY <2>6, <3>2, <3>3 DEF CopyObject, TypeOK, WritersOK, writers
  <2>7. ASSUME NEW g \in Goroutines, ListPage(g) PROVE TypeOK'
    <3> DEFINE page == First(Below(Src(g)), cursor[g], PageSize)
    <3>1. page \subseteq Keys
      BY <2>a DEF First, Rest, TypeOK, BucketOK
    <3>2. CASE \E r \in Outcomes : Answer(g, r)
      <4>1. CallersOK' /\ ControlOK'
        BY <2>7, <3>2, AnswerTypes DEF ListPage
      <4> QED BY <2>7, <4>1 DEF ListPage, TypeOK, BucketOK, WritersOK, writers
    <3>3. CASE /\ ans' = [ans EXCEPT ![g] = @ \cup page]
               /\ Goto(g, "done") /\ res' = [res EXCEPT ![g] = "ok"]
               /\ UNCHANGED <<cursor, call, issued>>
      <4>1. CallersOK'
        BY <3>1, <3>3 DEF Goto, TypeOK, CallersOK, Steps, Outcomes
      <4>2. call[g].op \in Ops
        BY <2>7 DEF ListPage, TypeOK, ControlOK, OpsAt, Ops, DirOps
      <4>3. ControlOK'
        BY <3>3, <4>2 DEF Goto, TypeOK, CallersOK, ControlOK, OpsAt
      <4> QED BY <2>7, <4>1, <4>3 DEF ListPage, TypeOK, BucketOK, WritersOK, writers
    <3>4. CASE /\ ans' = [ans EXCEPT ![g] = @ \cup page]
               /\ \E last \in page : cursor' = [cursor EXCEPT ![g] = Rank[last]]
               /\ UNCHANGED <<at, res, call, issued>>
      <4>1. CallersOK'
        BY <3>1, <3>4, S3Assumption DEF TypeOK, CallersOK
      <4> QED BY <2>7, <3>4, <4>1
              DEF ListPage, TypeOK, BucketOK, WritersOK, ControlOK, writers
    <3> QED BY <2>7, <3>2, <3>3, <3>4 DEF ListPage, Outcomes
  <2>8. ASSUME NEW g \in Goroutines, ListDir(g) PROVE TypeOK'
    <3>1. CallersOK' /\ ControlOK'
      <4>1. CASE \E r \in Outcomes : Answer(g, r)
        BY <2>8, <4>1, AnswerTypes DEF ListDir
      <4>2. CASE Goto(g, "deleteDir") /\ UNCHANGED <<call, res, ans, cursor, issued>>
        BY <2>8, <4>2, GotoTypes, ZenonT(30) DEF ListDir, Steps, Requests, TypeOK, ControlOK, OpsAt
      <4> QED BY <2>8, <4>1, <4>2 DEF ListDir, Outcomes
    <3> QED BY <2>8, <3>1 DEF ListDir, TypeOK, BucketOK, WritersOK, writers
  <2>9. ASSUME NEW g \in Goroutines, Write(g) PROVE TypeOK'
    <3>1. CallersOK' /\ ControlOK'
      BY <2>9, AnswerTypes DEF Write, Outcomes
    <3>2. \A s \in Contents : Append(s, g) \in Contents
      BY DEF Contents, Chunks
    <3>3. WritersOK'
      BY <2>9, <2>a, <3>2 DEF Write, TypeOK, WritersOK
    <3> QED BY <2>9, <3>1, <3>3 DEF Write, TypeOK, BucketOK
  <2>10. ASSUME NEW g \in Goroutines, CloseWriter(g) PROVE TypeOK'
    <3>1. CallersOK' /\ ControlOK'
      <4>1. CASE Answer(g, "ok")
        BY <2>10, <4>1, AnswerTypes DEF CloseWriter, Outcomes
      <4>2. CASE Goto(g, "upload") /\ UNCHANGED <<call, res, ans, cursor, issued>>
        BY <2>10, <4>2, GotoTypes DEF CloseWriter, Steps, Requests, TypeOK, ControlOK, OpsAt
      <4> QED BY <2>10, <4>1, <4>2 DEF CloseWriter
    <3>2. WritersOK'
      BY <2>10, <2>a DEF CloseWriter, TypeOK, WritersOK, WriterStates
    <3> QED BY <2>10, <3>1, <3>2 DEF CloseWriter, TypeOK, BucketOK
  <2>11. ASSUME NEW g \in Goroutines, Upload(g) PROVE TypeOK'
    <3>1. CallersOK' /\ ControlOK'
      BY <2>11, AnswerTypes DEF Upload, Outcomes
    <3>2. WritersOK'
      BY <2>11, <2>a DEF Upload, TypeOK, WritersOK, WriterStates
    <3>3. BucketOK'
      BY <2>11, <2>a, BucketTypes DEF Upload, TypeOK, WritersOK
    <3> QED BY <2>11, <3>1, <3>2, <3>3 DEF Upload, TypeOK
  <2>12. ASSUME NEW g \in Goroutines, Return(g) PROVE TypeOK'
    <3>1. CallersOK'
      BY <2>12, NoCallType DEF Return, Goto, TypeOK, CallersOK, Steps, Outcomes
    <3>2. NoCall.op = "none"
      BY DEF NoCall
    <3>3. ControlOK'
      BY <2>12, <3>2, ZenonT(30) DEF Return, Goto, TypeOK, CallersOK, ControlOK, OpsAt
    <3> QED BY <2>12, <3>1, <3>3 DEF Return, TypeOK, BucketOK, WritersOK, writers
  <2>13. CASE UNCHANGED vars
    BY <2>13 DEF vars, writers, callers, TypeOK, BucketOK, WritersOK, CallersOK, ControlOK
  <2> QED
    BY <2>1, <2>2, <2>3, <2>4, <2>5, <2>6, <2>7, <2>8, <2>9, <2>10, <2>11, <2>12, <2>13
    DEF Next
<1> QED BY <1>1, <1>2, PTL DEF Spec

-----------------------------------------------------------------------------
(* Writers.                                                                *)

\* What makes OneUpload and AcceptedIsUploaded inductive: a writer that a call
\* of NewWriter is about to return has not been made, and no other call is
\* about to return it.
SlotsFresh ==
  \A g, h \in Goroutines :
    (call[g].op = "NewWriter" /\ at[g] = "enter") =>
      /\ wst[Slot(g)] = "none"
      /\ (call[h].op = "NewWriter" /\ Slot(h) = Slot(g)) => h = g

WriterInv == SlotsFresh /\ AcceptedIsUploaded /\ OneUpload

\* The steps that do not touch the writers, and what they do not do.
LEMMA OtherSteps ==
  ASSUME TypeOK, NEW g \in Goroutines,
         \/ Close(g) \/ GetObject(g) \/ Exists(g) \/ Stat(g)
         \/ DeleteObject(g) \/ PutMarker(g)
         \/ CopyObject(g) \/ ListPage(g) \/ ListDir(g) \/ DeleteDir(g) \/ Return(g)
         \/ Enter(g) /\ call[g].op # "NewWriter"
  PROVE  /\ UNCHANGED writers
         /\ \A h \in Goroutines \ {g} : at'[h] = at[h] /\ call'[h] = call[h]
         /\ at'[g] \notin {"enter", "upload"} \/ (at'[g] = at[g] /\ call'[g] = call[g])
         /\ call'[g] = call[g] \/ call'[g].op = "none"
  <1> USE DEF TypeOK, CallersOK, Answer, Goto
  <1>1. CASE \/ Close(g) \/ GetObject(g) \/ Exists(g) \/ Stat(g)
            \/ DeleteObject(g) \/ PutMarker(g)
    BY <1>1 DEF Close, GetObject, Exists, Stat, DeleteObject, PutMarker
  <1>2. CASE CopyObject(g)
    BY <1>2 DEF CopyObject, AfterCopy
  <1>3. CASE ListPage(g) \/ ListDir(g) \/ DeleteDir(g)
    BY <1>3 DEF ListPage, ListDir, DeleteDir
  <1>4. CASE Return(g)
    <2>1. NoCall.op = "none"
      BY DEF NoCall
    <2>2. /\ call' = [call EXCEPT ![g] = NoCall]
          /\ at' = [at EXCEPT ![g] = "idle"]
          /\ UNCHANGED writers
      BY <1>4 DEF Return
    <2>3. call'[g] = NoCall /\ at'[g] = "idle"
      BY <2>2
    <2> QED BY <2>1, <2>2, <2>3
  <1>5. CASE Enter(g) /\ call[g].op # "NewWriter"
    <2>1. call[g].op \in OpsAt(at[g])
      BY DEF ControlOK
    <2>2. at[g] = "enter" => FirstRequest(call[g].op) \notin {"enter", "upload"}
      BY <2>1 DEF FirstRequest, OpsAt, PathOps, DirOps, PairOps
    <2> QED BY <1>5, <2>2 DEF Enter, EnterSteps
  <1> QED BY <1>1, <1>2, <1>3, <1>4, <1>5

\* Every chunk that Write accepted is in what Close uploads, and one goroutine
\* uploads a writer once.
THEOREM WritersCorrect == Spec => []WritersSafe
<1>1. Init => WriterInv
  BY DEF Init, WriterInv, SlotsFresh, AcceptedIsUploaded, OneUpload
<1>2. TypeOK /\ WriterInv /\ [Next]_vars => WriterInv'
  <2> SUFFICES ASSUME TypeOK, WriterInv, [Next]_vars PROVE WriterInv'
    OBVIOUS
  <2> USE DEF WriterInv, Slot
  <2>a. \A g \in Goroutines : call[g].slot \in Slots
    BY DEF TypeOK, CallersOK
  <2>1. ASSUME NEW g \in Goroutines, Invoke(g) PROVE WriterInv'
    <3>1. /\ UNCHANGED writers
          /\ \A h \in Goroutines \ {g} : at'[h] = at[h] /\ call'[h] = call[h]
          /\ at[g] = "idle" /\ at'[g] # "upload"
          /\ call'[g].op = "NewWriter" =>
               /\ wst[call'[g].slot] = "none"
               /\ \A h \in Goroutines : call[h].op = "NewWriter" => call[h].slot # call'[g].slot
      BY <2>1 DEF Invoke, FirstStep, Goto, TypeOK, CallersOK
    <3>2. SlotsFresh'
      BY <3>1 DEF SlotsFresh, writers
    <3>3. OneUpload'
      BY <3>1 DEF OneUpload, writers
    <3>4. AcceptedIsUploaded'
      BY <3>1 DEF AcceptedIsUploaded, writers
    <3> QED BY <3>2, <3>3, <3>4
  <2>2. ASSUME NEW g \in Goroutines, Enter(g), call[g].op = "NewWriter" PROVE WriterInv'
    <3>1. at[g] = "enter"
      BY <2>2 DEF Enter, EnterSteps, TypeOK, ControlOK, OpsAt
    <3>2. /\ call' = call /\ \A h \in Goroutines \ {g} : at'[h] = at[h]
          /\ at'[g] = "done"
          /\ wbuf' = wbuf /\ body' = body
          /\ wst' = wst \/ wst' = [wst EXCEPT ![call[g].slot] = "open"]
      BY <2>2 DEF Enter, Answer, Goto, TypeOK, CallersOK, writers
    <3>3. /\ wst[call[g].slot] = "none"
          /\ \A h \in Goroutines :
               (call[h].op = "NewWriter" /\ call[h].slot = call[g].slot) => h = g
      BY <2>2, <3>1 DEF SlotsFresh
    <3>4. SlotsFresh'
      BY <2>a, <3>2, <3>3 DEF SlotsFresh, TypeOK, WritersOK
    <3>5. OneUpload'
      BY <2>a, <3>2, <3>3 DEF OneUpload, TypeOK, WritersOK
    <3>6. AcceptedIsUploaded'
      BY <2>a, <3>2, <3>3 DEF AcceptedIsUploaded, TypeOK, WritersOK
    <3> QED BY <3>4, <3>5, <3>6
  <2>3. ASSUME NEW g \in Goroutines, Write(g) PROVE WriterInv'
    <3>1. /\ call' = call /\ wst' = wst /\ body' = body
          /\ at'[g] = "done" /\ \A h \in Goroutines \ {g} : at'[h] = at[h]
          /\ wst[call[g].slot] # "uploading"
          /\ \/ wbuf' = wbuf
             \/ /\ wst[call[g].slot] = "open"
                /\ \A w \in Slots \ {call[g].slot} : wbuf'[w] = wbuf[w]
      BY <2>3 DEF Write, Answer, Goto, TypeOK, CallersOK, WritersOK
    <3>2. SlotsFresh'
      BY <3>1 DEF SlotsFresh
    <3>3. OneUpload'
      BY <3>1 DEF OneUpload
    <3>4. AcceptedIsUploaded'
      BY <3>1 DEF AcceptedIsUploaded
    <3> QED BY <3>2, <3>3, <3>4
  <2>4. ASSUME NEW g \in Goroutines, CloseWriter(g) PROVE WriterInv'
    <3>1. /\ call' = call /\ wbuf' = wbuf
          /\ at'[g] \in {"done", "upload"} /\ \A h \in Goroutines \ {g} : at'[h] = at[h]
      BY <2>4 DEF CloseWriter, Answer, Goto, TypeOK, CallersOK
    <3>2. CASE at'[g] = "done" /\ wst' = wst /\ body' = body
      BY <3>1, <3>2 DEF SlotsFresh, OneUpload, AcceptedIsUploaded
    <3>3. CASE /\ wst[call[g].slot] = "open"
               /\ wst' = [wst EXCEPT ![call[g].slot] = "uploading"]
               /\ body' = [body EXCEPT ![call[g].slot] = wbuf[call[g].slot]]
      <4>1. SlotsFresh'
        BY <2>a, <3>1, <3>3 DEF SlotsFresh, TypeOK, WritersOK
      <4>2. OneUpload'
        BY <2>a, <3>1, <3>3 DEF OneUpload, TypeOK, WritersOK
      <4>3. AcceptedIsUploaded'
        BY <2>a, <3>1, <3>3 DEF AcceptedIsUploaded, TypeOK, WritersOK
      <4> QED BY <4>1, <4>2, <4>3
    <3> QED BY <2>4, <3>2, <3>3 DEF CloseWriter, Answer, Goto, TypeOK, CallersOK
  <2>5. ASSUME NEW g \in Goroutines, Upload(g) PROVE WriterInv'
    <3>1. /\ call' = call /\ wbuf' = wbuf /\ body' = body
          /\ at[g] = "upload" /\ at'[g] = "done"
          /\ \A h \in Goroutines \ {g} : at'[h] = at[h]
          /\ \E s \in {"stored", "failed"} : wst' = [wst EXCEPT ![call[g].slot] = s]
      BY <2>5 DEF Upload, Answer, Goto, TypeOK, CallersOK
    <3>2. wst[call[g].slot] = "uploading"
      BY <3>1 DEF OneUpload
    <3>3. SlotsFresh'
      BY <2>a, <3>1, <3>2 DEF SlotsFresh, TypeOK, WritersOK
    <3>4. OneUpload'
      BY <2>a, <3>1, <3>2 DEF OneUpload, TypeOK, WritersOK
    <3>5. AcceptedIsUploaded'
      BY <2>a, <3>1, <3>2 DEF AcceptedIsUploaded, TypeOK, WritersOK
    <3> QED BY <3>3, <3>4, <3>5
  <2>6. ASSUME NEW g \in Goroutines,
               \/ Close(g) \/ GetObject(g) \/ Exists(g) \/ Stat(g)
               \/ DeleteObject(g) \/ PutMarker(g)
               \/ CopyObject(g) \/ ListPage(g) \/ ListDir(g) \/ DeleteDir(g) \/ Return(g)
               \/ Enter(g) /\ call[g].op # "NewWriter"
        PROVE  WriterInv'
    <3>1. /\ UNCHANGED writers
          /\ \A h \in Goroutines \ {g} : at'[h] = at[h] /\ call'[h] = call[h]
          /\ at'[g] \notin {"enter", "upload"} \/ (at'[g] = at[g] /\ call'[g] = call[g])
          /\ call'[g] = call[g] \/ call'[g].op = "none"
      BY <2>6, OtherSteps
    <3>2. SlotsFresh'
      BY <3>1 DEF SlotsFresh, writers
    <3>3. OneUpload'
      BY <3>1 DEF OneUpload, writers
    <3>4. AcceptedIsUploaded'
      BY <3>1 DEF AcceptedIsUploaded, writers
    <3> QED BY <3>2, <3>3, <3>4
  <2>7. CASE UNCHANGED vars
    BY <2>7 DEF vars, writers, callers, SlotsFresh, AcceptedIsUploaded, OneUpload
  <2> QED BY <2>1, <2>2, <2>3, <2>4, <2>5, <2>6, <2>7 DEF Next
<1>3. WriterInv => WritersSafe
  BY DEF WriterInv, WritersSafe
<1> QED BY <1>1, <1>2, <1>3, TypeCorrect, PTL DEF Spec

-----------------------------------------------------------------------------
(* Moves.                                                                  *)

\* The arguments a call was made with are still those of its method, and a
\* writer's key is one that NewWriter was given.
ArgsKept ==
  \A g \in Goroutines :
    /\ call[g].op \in PairOps => <<Src(g), Dst(g)>> \in Moves
    /\ call[g].op \in {"NewWriter", "Delete"} => Src(g) \in Targets[call[g].op]
    /\ call[g].op \in DirOps => Src(g) \in Dirs

WriterKeys == \A w \in Slots : wst[w] # "none" => wkey[w] \in Targets["NewWriter"]

\* A moved key holds what was under its origin at first.
Held(origin) ==
  \A x \in DOMAIN objects \cap Moved :
    objects[x] = <<origin[x]>> /\ origin[x] \in Initial

\* Move has copied and is going to delete.
Leaving(g) == call[g].op = "Move" /\ at[g] \in {"enterDelete", "delete"}

\* Every first object is under a key that comes after all the keys it is about
\* to be deleted from.
Ahead(order, origin) ==
  \A k \in Initial : \E z \in DOMAIN objects \cap Moved :
    /\ origin[z] = k
    /\ \A g \in Goroutines :
         (Leaving(g) /\ origin[Src(g)] = k) => order[Src(g)] < order[z]

MoveInv(order, origin) ==
  ArgsKept /\ WriterKeys /\ Held(origin) /\ Ahead(order, origin)

\* A call keeps its arguments until it has returned.
LEMMA ArgsStayKept ==
  ASSUME TypeOK, ArgsKept, [Next]_vars PROVE ArgsKept'
  <1>1. ASSUME \A h \in Goroutines : call'[h] = call[h] \/ call'[h].op = "none"
        PROVE  ArgsKept'
    BY <1>1 DEF ArgsKept, Src, Dst, PairOps, DirOps
  <1>2. ASSUME NEW g \in Goroutines, Invoke(g) PROVE ArgsKept'
    <2>1. PICK o \in Menu[g], w \in Slots :
            \E m \in Arguments(o) :
              call' = [call EXCEPT ![g] = [op |-> o, src |-> m[1], dst |-> m[2], slot |-> w]]
      BY <1>2 DEF Invoke
    <2>2. PICK m \in Arguments(o) :
            call' = [call EXCEPT ![g] = [op |-> o, src |-> m[1], dst |-> m[2], slot |-> w]]
      BY <2>1
    <2>3. /\ call'[g].op = o /\ call'[g].src = m[1] /\ call'[g].dst = m[2]
          /\ \A h \in Goroutines \ {g} : call'[h] = call[h]
      BY <2>2 DEF TypeOK, CallersOK
    <2>4. /\ o \in PairOps => <<m[1], m[2]>> \in Moves
          /\ o \in {"NewWriter", "Delete"} => m[1] \in Targets[o]
          /\ o \in DirOps => m[1] \in Dirs
      BY S3Assumption DEF Arguments, PairOps, PathOps, DirOps
    <2> QED BY <2>3, <2>4 DEF ArgsKept, Src, Dst
  <1>3. ASSUME NEW g \in Goroutines,
               Enter(g) \/ Write(g) \/ CloseWriter(g) \/ Upload(g)
        PROVE  ArgsKept'
    BY <1>1, <1>3 DEF Enter, Write, CloseWriter, Upload, Answer
  <1>4. ASSUME NEW g \in Goroutines,
               \/ Close(g) \/ GetObject(g) \/ Exists(g) \/ Stat(g)
               \/ DeleteObject(g) \/ PutMarker(g) \/ CopyObject(g)
               \/ ListPage(g) \/ ListDir(g) \/ DeleteDir(g) \/ Return(g)
        PROVE  ArgsKept'
    BY <1>1, <1>4, OtherSteps
  <1>5. CASE UNCHANGED vars
    BY <1>1, <1>5 DEF vars, callers
  <1> QED BY <1>2, <1>3, <1>4, <1>5 DEF Next

\* A step that leaves the moved keys alone and takes nobody towards a deletion.
LEMMA MovesUndisturbed ==
  ASSUME NEW origin, NEW order, Held(origin), Ahead(order, origin),
         DOMAIN objects' \cap Moved = DOMAIN objects \cap Moved,
         \A x \in DOMAIN objects \cap Moved : objects'[x] = objects[x],
         \A g \in Goroutines : Leaving(g)' => Leaving(g) /\ call'[g] = call[g]
  PROVE  Held(origin)' /\ Ahead(order, origin)'
  <1>1. Held(origin)'
    BY DEF Held, Moved
  <1>2. ASSUME NEW k \in Initial
        PROVE  \E z \in DOMAIN objects' \cap Moved :
                 /\ origin[z] = k
                 /\ \A g \in Goroutines :
                      (Leaving(g)' /\ origin[Src(g)'] = k) => order[Src(g)'] < order[z]
    <2>1. PICK z \in DOMAIN objects \cap Moved :
            /\ origin[z] = k
            /\ \A g \in Goroutines :
                 (Leaving(g) /\ origin[Src(g)] = k) => order[Src(g)] < order[z]
      BY DEF Ahead
    <2>2. \A g \in Goroutines : Leaving(g)' => Leaving(g) /\ Src(g)' = Src(g)
      BY DEF Src
    <2>3. z \in DOMAIN objects' \cap Moved
      OBVIOUS
    <2>4. \A g \in Goroutines :
            (Leaving(g)' /\ origin[Src(g)'] = k) => order[Src(g)'] < order[z]
      BY <2>1, <2>2
    <2> QED BY <2>1, <2>3, <2>4
  <1>3. Ahead(order, origin)'
    BY <1>2 DEF Ahead, Moved
  <1> QED BY <1>1, <1>3

\* Of a step that touches the calls of g alone, only g's part is to be shown.
LEMMA MovesUndisturbedBy ==
  ASSUME NEW origin, NEW order, Held(origin), Ahead(order, origin), NEW g \in Goroutines,
         DOMAIN objects' \cap Moved = DOMAIN objects \cap Moved,
         \A x \in DOMAIN objects \cap Moved : objects'[x] = objects[x],
         \A h \in Goroutines \ {g} : at'[h] = at[h] /\ call'[h] = call[h],
         Leaving(g)' => Leaving(g) /\ call'[g] = call[g]
  PROVE  Held(origin)' /\ Ahead(order, origin)'
  <1>1. \A h \in Goroutines : Leaving(h)' => Leaving(h) /\ call'[h] = call[h]
    BY DEF Leaving
  <1> QED BY <1>1, MovesUndisturbed

\* Writing or removing a key that is not moved leaves the moved keys alone.
LEMMA OtherKeys ==
  ASSUME NEW k, k \notin Moved, NEW c,
         PutObject(k, c) \/ RemoveObject(k) \/ UNCHANGED objects
  PROVE  /\ DOMAIN objects' \cap Moved = DOMAIN objects \cap Moved
         /\ \A x \in DOMAIN objects \cap Moved : objects'[x] = objects[x]
  BY DEF PutObject, RemoveObject

\* The copy of a move puts what it copies one step ahead of where it was.
LEMMA CopyKeepsAhead ==
  ASSUME NEW order \in [Keys -> Nat], NEW origin \in [Keys -> Keys],
         Increasing(order), Traced(origin), TypeOK,
         ArgsKept, Held(origin), Ahead(order, origin),
         NEW g \in Goroutines, at[g] = "copy",
         Src(g) \in DOMAIN objects, PutObject(Dst(g), objects[Src(g)]),
         call' = call, \A h \in Goroutines \ {g} : at'[h] = at[h]
  PROVE  Held(origin)' /\ Ahead(order, origin)'
  <1> DEFINE s == Src(g)
             d == Dst(g)
  <1>1. s \in Keys /\ d \in Keys /\ Moved \subseteq Keys
    BY S3Assumption DEF TypeOK, CallersOK, Src, Dst, Moved, Keys
  <1>2. <<s, d>> \in Moves
    BY DEF ArgsKept, TypeOK, ControlOK, OpsAt
  <1>3. s \in Moved /\ d \in Moved /\ order[s] < order[d] /\ origin[s] = origin[d]
    BY <1>2 DEF Moved, Increasing, Traced
  <1>4. /\ DOMAIN objects' = DOMAIN objects \cup {d}
        /\ objects'[d] = objects[s]
        /\ \A x \in DOMAIN objects \ {d} : objects'[x] = objects[x]
    BY DEF PutObject
  <1>5. Held(origin)'
    <2>1. ASSUME NEW x \in DOMAIN objects' \cap Moved
          PROVE  objects'[x] = <<origin[x]>> /\ origin[x] \in Initial
      BY <1>3, <1>4 DEF Held
    <2> QED BY <2>1 DEF Held, Moved
  <1>6. \A h \in Goroutines : Src(h)' = Src(h) /\ Src(h) \in Keys
    BY DEF Src, TypeOK, CallersOK
  <1>7. \A h \in Goroutines \ {g} : Leaving(h)' => Leaving(h)
    BY DEF Leaving
  <1>8. ASSUME NEW k \in Initial
        PROVE  \E z \in DOMAIN objects' \cap Moved :
                 /\ origin[z] = k
                 /\ \A h \in Goroutines :
                      (Leaving(h)' /\ origin[Src(h)'] = k) => order[Src(h)'] < order[z]
    <2>1. PICK z \in DOMAIN objects \cap Moved :
            /\ origin[z] = k
            /\ \A h \in Goroutines :
                 (Leaving(h) /\ origin[Src(h)] = k) => order[Src(h)] < order[z]
      BY DEF Ahead
    <2>2. CASE origin[s] = k /\ order[z] < order[d]
      <3>1. ASSUME NEW h \in Goroutines, Leaving(h)', origin[Src(h)'] = k
            PROVE  order[Src(h)'] < order[d]
        <4>1. CASE h = g
          BY <1>3, <1>6, <4>1
        <4>2. CASE h # g
          <5>1. order[Src(h)] < order[z]
            BY <1>6, <1>7, <2>1, <3>1, <4>2
          <5> QED BY <1>1, <1>6, <2>2, <5>1
        <4> QED BY <4>1, <4>2
      <3>2. d \in DOMAIN objects' \cap Moved /\ origin[d] = k
        BY <1>3, <1>4, <2>2
      <3> QED BY <3>1, <3>2
    <2>3. CASE ~(origin[s] = k /\ order[z] < order[d])
      <3>1. ASSUME NEW h \in Goroutines, Leaving(h)', origin[Src(h)'] = k
            PROVE  order[Src(h)'] < order[z]
        <4>1. CASE h = g
          BY <1>1, <1>3, <1>6, <2>3, <3>1, <4>1
        <4>2. CASE h # g
          BY <1>6, <1>7, <2>1, <3>1, <4>2
        <4> QED BY <4>1, <4>2
      <3>2. z \in DOMAIN objects' \cap Moved
        BY <1>4
      <3> QED BY <2>1, <3>1, <3>2
    <2> QED BY <2>2, <2>3
  <1>9. Ahead(order, origin)'
    BY <1>8 DEF Ahead, Moved
  <1> QED BY <1>5, <1>9

\* The deletion of a move takes nothing that is not further ahead as well.
LEMMA DeleteKeepsAhead ==
  ASSUME NEW order \in [Keys -> Nat], NEW origin \in [Keys -> Keys], TypeOK,
         Held(origin), Ahead(order, origin),
         NEW g \in Goroutines, Leaving(g), RemoveObject(Src(g)),
         call' = call, ~Leaving(g)', \A h \in Goroutines \ {g} : at'[h] = at[h]
  PROVE  Held(origin)' /\ Ahead(order, origin)'
  <1>1. /\ DOMAIN objects' = DOMAIN objects \ {Src(g)}
        /\ \A x \in DOMAIN objects' : objects'[x] = objects[x]
    BY DEF RemoveObject
  <1>2. Held(origin)'
    BY <1>1 DEF Held, Moved
  <1>3. \A h \in Goroutines : Src(h)' = Src(h) /\ Src(h) \in Keys
    BY DEF Src, TypeOK, CallersOK
  <1>4. \A h \in Goroutines : Leaving(h)' => Leaving(h)
    BY DEF Leaving
  <1>5. ASSUME NEW k \in Initial
        PROVE  \E z \in DOMAIN objects' \cap Moved :
                 /\ origin[z] = k
                 /\ \A h \in Goroutines :
                      (Leaving(h)' /\ origin[Src(h)'] = k) => order[Src(h)'] < order[z]
    <2>1. PICK z \in DOMAIN objects \cap Moved :
            /\ origin[z] = k
            /\ \A h \in Goroutines :
                 (Leaving(h) /\ origin[Src(h)] = k) => order[Src(h)] < order[z]
      BY DEF Ahead
    <2>2. z # Src(g)
      <3>1. CASE z = Src(g)
        <4>1. order[Src(g)] < order[z]
          BY <2>1, <3>1
        <4> QED BY <1>3, <3>1, <4>1
      <3> QED BY <3>1
    <2>3. z \in DOMAIN objects' \cap Moved
      BY <1>1, <2>2
    <2>4. \A h \in Goroutines :
            (Leaving(h)' /\ origin[Src(h)'] = k) => order[Src(h)'] < order[z]
      BY <1>3, <1>4, <2>1
    <2> QED BY <2>1, <2>3, <2>4
  <1>6. Ahead(order, origin)'
    BY <1>5 DEF Ahead, Moved
  <1> QED BY <1>2, <1>6

\* What was in the bucket at first still is, under some key, whatever moves are
\* made, if the keys that are moved are as Undisturbed, Increasing and Traced
\* say.
THEOREM MovesConserve ==
  ASSUME NEW order \in [Keys -> Nat], NEW origin \in [Keys -> Keys],
         Undisturbed, Increasing(order), Traced(origin)
  PROVE  Spec => []MoveConserves
<1>1. Init => MoveInv(order, origin)
  <2> SUFFICES ASSUME Init PROVE MoveInv(order, origin)
    OBVIOUS
  <2>1. NoCall.op = "none"
    BY DEF NoCall
  <2>2. ArgsKept
    BY <2>1 DEF Init, ArgsKept, PairOps, DirOps
  <2>3. WriterKeys
    BY DEF Init, WriterKeys
  <2>4. DOMAIN objects = Initial /\ \A k \in Initial : objects[k] = <<k>> /\ origin[k] = k
    BY DEF Init, Traced
  <2>5. Held(origin)
    BY <2>4 DEF Held
  <2>6. \A g \in Goroutines : ~Leaving(g)
    BY DEF Init, Leaving
  <2>7. Ahead(order, origin)
    BY <2>4, <2>6 DEF Ahead, Moved
  <2> QED BY <2>2, <2>3, <2>5, <2>7 DEF MoveInv
<1>2. TypeOK /\ WritersSafe /\ MoveInv(order, origin) /\ [Next]_vars
        => MoveInv(order, origin)'
  <2> SUFFICES ASSUME TypeOK, WritersSafe, MoveInv(order, origin), [Next]_vars
               PROVE  MoveInv(order, origin)'
    OBVIOUS
  <2> DEFINE Calm(g) == \A h \in Goroutines \ {g} : at'[h] = at[h] /\ call'[h] = call[h]
             OnlyOthers == /\ DOMAIN objects' \cap Moved = DOMAIN objects \cap Moved
                           /\ \A x \in DOMAIN objects \cap Moved : objects'[x] = objects[x]
  <2>a. ArgsKept /\ WriterKeys /\ Held(origin) /\ Ahead(order, origin)
    BY DEF MoveInv
  <2>b. ASSUME NEW g \in Goroutines
        PROVE  Src(g) \in Keys /\ Dst(g) \in Keys /\ call[g].slot \in Slots
                 /\ call[g].op \in OpsAt(at[g])
    BY DEF TypeOK, CallersOK, ControlOK, Src, Dst
  <2>c. ArgsKept'
    BY <2>a, ArgsStayKept
  <2>1. ASSUME NEW g \in Goroutines, Invoke(g) PROVE MoveInv(order, origin)'
    <3>1. PICK o \in Menu[g] :
            /\ \E c \in [op : {o}, src : Keys, dst : Keys, slot : Slots] :
                 call' = [call EXCEPT ![g] = c]
            /\ Goto(g, FirstStep(o))
      BY <2>1, ArgumentTypes DEF Invoke
    <3>2. Calm(g) /\ at'[g] \notin {"enterDelete", "delete"}
      BY <3>1 DEF Goto, FirstStep, TypeOK, CallersOK
    <3>3. UNCHANGED <<objects, wst, wkey>>
      BY <2>1 DEF Invoke, writers
    <3>4. WriterKeys'
      BY <2>a, <3>3 DEF WriterKeys
    <3>5. OnlyOthers /\ ~Leaving(g)'
      BY <3>2, <3>3 DEF Leaving
    <3> QED BY <2>a, <2>c, <3>2, <3>4, <3>5, MovesUndisturbedBy DEF MoveInv
  <2>2. ASSUME NEW g \in Goroutines, Enter(g) PROVE MoveInv(order, origin)'
    <3>1. Calm(g) /\ call' = call /\ objects' = objects
      BY <2>2 DEF Enter, Answer, Goto, TypeOK, CallersOK
    <3>2. WriterKeys'
      <4>1. CASE call[g].op = "NewWriter"
        <5>1. Src(g) \in Targets["NewWriter"]
          BY <2>a, <4>1 DEF ArgsKept
        <5> QED BY <2>2, <2>a, <5>1
                DEF Enter, WriterKeys, writers, TypeOK, WritersOK
      <4>2. CASE call[g].op # "NewWriter"
        BY <2>2, <2>a, <4>2 DEF Enter, WriterKeys, writers
      <4> QED BY <4>1, <4>2
    <3>3. Leaving(g)' => Leaving(g)
      <4>1. CASE at'[g] = "done"
        BY <4>1 DEF Leaving
      <4>2. CASE at[g] = "enterCopy" /\ at'[g] = "copy"
        BY <4>2 DEF Leaving
      <4>3. CASE at[g] = "enterDelete"
        BY <3>1, <4>3 DEF Leaving
      <4>4. CASE at'[g] = FirstRequest(call[g].op)
        BY <3>1, <4>4 DEF Leaving, FirstRequest
      <4> QED BY <2>2, <4>1, <4>2, <4>3, <4>4
              DEF Enter, Answer, Goto, EnterSteps, TypeOK, CallersOK
    <3>4. OnlyOthers
      BY <3>1
    <3> QED BY <2>a, <2>c, <3>1, <3>2, <3>3, <3>4, MovesUndisturbedBy DEF MoveInv
  <2>3. ASSUME NEW g \in Goroutines, CopyObject(g) PROVE MoveInv(order, origin)'
    <3>1. at[g] = "copy" /\ Calm(g) /\ call' = call /\ UNCHANGED <<wst, wkey>>
      BY <2>3 DEF CopyObject, AfterCopy, Answer, Goto, writers, TypeOK, CallersOK
    <3>2. WriterKeys'
      BY <2>a, <3>1 DEF WriterKeys
    <3>3. Held(origin)' /\ Ahead(order, origin)'
      <4>1. CASE Src(g) \in DOMAIN objects /\ PutObject(Dst(g), objects[Src(g)])
        BY <2>a, <3>1, <4>1, CopyKeepsAhead
      <4>2. CASE objects' = objects /\ \E r \in {"notfound", "fault"} : AfterCopy(g, r)
        <5>1. ~Leaving(g)'
          BY <4>2 DEF AfterCopy, Answer, Goto, Leaving, TypeOK, CallersOK
        <5> QED BY <2>a, <3>1, <4>2, <5>1, MovesUndisturbedBy
      <4> QED BY <2>3, <4>1, <4>2 DEF CopyObject
    <3> QED BY <2>c, <3>2, <3>3 DEF MoveInv
  <2>4. ASSUME NEW g \in Goroutines,
               DeleteObject(g) \/ PutMarker(g) \/ DeleteDir(g) \/ Upload(g)
        PROVE  MoveInv(order, origin)'
    <3>1. Calm(g) /\ call' = call /\ at'[g] = "done" /\ wkey' = wkey
      BY <2>4 DEF DeleteObject, PutMarker, DeleteDir, Upload, Answer, Goto, writers,
                  TypeOK, CallersOK
    <3>2. ~Leaving(g)'
      BY <3>1 DEF Leaving
    <3>3. ASSUME Upload(g)
          PROVE  /\ wst[call[g].slot] = "uploading"
                 /\ wkey[call[g].slot] \in Targets["NewWriter"]
      <4>1. wst[call[g].slot] = "uploading"
        BY <3>3 DEF WritersSafe, OneUpload, Upload, Slot
      <4> QED BY <2>a, <2>b, <4>1 DEF WriterKeys
    <3>4. WriterKeys'
      <4>1. CASE Upload(g)
        BY <2>a, <2>b, <3>1, <3>3, <4>1
           DEF WriterKeys, Upload, Slot, TypeOK, WritersOK
      <4>2. CASE wst' = wst
        BY <2>a, <3>1, <4>2 DEF WriterKeys
      <4> QED BY <2>4, <4>1, <4>2 DEF DeleteObject, PutMarker, DeleteDir, writers
    <3>5. Held(origin)' /\ Ahead(order, origin)'
      <4>1. CASE DeleteObject(g) /\ call[g].op = "Move" /\ RemoveObject(Src(g))
        <5>1. Leaving(g)
          BY <4>1 DEF DeleteObject, Leaving
        <5> QED BY <2>a, <3>1, <3>2, <4>1, <5>1, DeleteKeepsAhead
      <4>2. CASE objects' = objects
        BY <2>a, <3>1, <3>2, <4>2, MovesUndisturbedBy
      <4>3. ASSUME NEW k \in Dirs \cup Targets["NewWriter"] \cup Targets["Delete"],
                   \E c \in {<<>>, body[call[g].slot]} :
                     PutObject(k, c) \/ RemoveObject(k)
            PROVE  Held(origin)' /\ Ahead(order, origin)'
        <5>1. OnlyOthers
          BY <4>3, OtherKeys DEF Undisturbed
        <5> QED BY <2>a, <3>1, <3>2, <5>1, MovesUndisturbedBy
      <4>4. CASE DeleteObject(g) /\ call[g].op # "Move" /\ RemoveObject(Src(g))
        <5>1. call[g].op = "Delete"
          BY <2>b, <4>4 DEF DeleteObject, OpsAt
        <5>2. Src(g) \in Targets["Delete"]
          BY <2>a, <5>1 DEF ArgsKept
        <5> QED BY <4>3, <4>4, <5>2
      <4>5. CASE PutMarker(g) \/ DeleteDir(g)
        <5>1. call[g].op \in DirOps
          BY <2>b, <4>5 DEF PutMarker, DeleteDir, OpsAt, DirOps
        <5>2. Src(g) \in Dirs
          BY <2>a, <5>1 DEF ArgsKept
        <5>3. \/ objects' = objects
              \/ PutObject(Src(g), <<>>)
              \/ RemoveObject(Src(g))
          BY <4>5 DEF PutMarker, DeleteDir
        <5> QED BY <4>2, <4>3, <5>2, <5>3
      <4>6. CASE Upload(g)
        <5>1. \/ objects' = objects
              \/ PutObject(wkey[call[g].slot], body[call[g].slot])
          BY <4>6 DEF Upload, Slot
        <5> QED BY <3>3, <4>2, <4>3, <4>6, <5>1
      <4> QED BY <2>4, <4>1, <4>2, <4>4, <4>5, <4>6 DEF DeleteObject
    <3> QED BY <2>c, <3>4, <3>5 DEF MoveInv
  <2>5. ASSUME NEW g \in Goroutines, Write(g) \/ CloseWriter(g) PROVE MoveInv(order, origin)'
    <3>1. /\ Calm(g) /\ call' = call /\ at'[g] \in {"done", "upload"}
          /\ wkey' = wkey /\ objects' = objects
      BY <2>5 DEF Write, CloseWriter, Answer, Goto, TypeOK, CallersOK
    <3>2. ~Leaving(g)'
      BY <3>1 DEF Leaving
    <3>3. WriterKeys'
      BY <2>5, <2>a, <2>b, <3>1
         DEF Write, CloseWriter, WriterKeys, Slot, TypeOK, WritersOK
    <3> QED BY <2>a, <2>c, <3>1, <3>2, <3>3, MovesUndisturbedBy DEF MoveInv
  <2>6. ASSUME NEW g \in Goroutines,
               \/ Close(g) \/ GetObject(g) \/ Exists(g) \/ Stat(g)
               \/ ListPage(g) \/ ListDir(g) \/ Return(g)
        PROVE  MoveInv(order, origin)'
    <3>1. /\ UNCHANGED writers /\ Calm(g)
          /\ call'[g] = call[g] \/ call'[g].op = "none"
      BY <2>6, OtherSteps
    <3>2. objects' = objects
      BY <2>6 DEF Close, GetObject, Exists, Stat, ListPage, ListDir, Return
    <3>3. at'[g] \notin {"enterDelete", "delete"}
      BY <2>6 DEF Close, GetObject, Exists, Stat, ListPage, ListDir, Return, Answer,
                  Goto, TypeOK, CallersOK
    <3>4. ~Leaving(g)'
      BY <3>3 DEF Leaving
    <3>5. WriterKeys'
      BY <2>a, <3>1 DEF WriterKeys, writers
    <3> QED BY <2>a, <2>c, <3>1, <3>2, <3>4, <3>5, MovesUndisturbedBy DEF MoveInv
  <2>7. CASE UNCHANGED vars
    <3>1. UNCHANGED <<objects, wst, wkey, at, call>>
      BY <2>7 DEF vars, writers, callers
    <3>2. WriterKeys'
      BY <2>a, <3>1 DEF WriterKeys
    <3>3. \A g \in Goroutines : Leaving(g)' => Leaving(g) /\ call'[g] = call[g]
      BY <3>1 DEF Leaving
    <3>4. Held(origin)' /\ Ahead(order, origin)'
      BY <2>a, <3>1, <3>3, MovesUndisturbed
    <3> QED BY <2>c, <3>2, <3>4 DEF MoveInv
  <2> QED BY <2>1, <2>2, <2>3, <2>4, <2>5, <2>6, <2>7 DEF Next
<1>3. MoveInv(order, origin) => MoveConserves
  BY DEF MoveInv, Held, Ahead, MoveConserves
<1> QED BY <1>1, <1>2, <1>3, TypeCorrect, WritersCorrect, PTL DEF Spec

-----------------------------------------------------------------------------
(* List and Rmdir while the bucket changes.                                *)

\* There are finitely many objects, and only List has found anything.
FiniteBucket == IsFiniteSet(DOMAIN objects)

NothingFound ==
  \A g \in Goroutines :
    at[g] \notin {"list", "done"} => ans[g] = {} /\ cursor[g] = 0

\* Of a List or Rmdir in progress: the keys that were there all the time still
\* are, and List has found those of them it is past; Rmdir goes on to delete the
\* marker only of a directory none of whose objects was there all the time.
Watched(g) ==
  Watching(g) =>
    /\ must[g] \subseteq Seen(g)
    /\ Seen(g) \cup ans[g] \subseteq may[g]
    /\ \A k \in must[g] : Rank[k] <= cursor[g] => k \in ans[g]
    /\ at[g] = "deleteDir" => must[g] \cap Under[Src(g)] = {}

WatchInv ==
  ArgsKept /\ FiniteBucket /\ NothingFound /\ \A g \in Goroutines : Watched(g)

\* Of finitely many keys, a page has all that come before one it has.
LEMMA PageIsFirst ==
  ASSUME TypeOK, FiniteBucket, NEW K, NEW c \in Nat, NEW n \in Nat,
         NEW p \in Rest(K, c), NEW q \in First(K, c, n), Rank[p] <= Rank[q]
  PROVE  p \in First(K, c, n)
<1> DEFINE before(k) == {x \in Rest(K, c) : Rank[x] < Rank[k]}
<1>1. \A x \in Rest(K, c) : Rank[x] \in Nat
  BY S3Assumption DEF Rest, TypeOK, BucketOK
<1>2. q \in Rest(K, c) /\ Cardinality(before(q)) < n
  BY DEF First
<1>3. before(p) \subseteq before(q)
  BY <1>1, <1>2
<1>4. IsFiniteSet(before(q))
  BY FS_Subset DEF FiniteBucket, Rest
<1>5. Cardinality(before(p)) <= Cardinality(before(q))
  BY <1>3, <1>4, FS_Subset
<1>6. Cardinality(before(p)) \in Nat /\ Cardinality(before(q)) \in Nat
  BY <1>3, <1>4, FS_Subset, FS_CardinalityType
<1>7. Cardinality(before(p)) < n
  <2> HIDE DEF before
  <2> QED BY <1>2, <1>5, <1>6
<1> QED BY <1>7 DEF First

\* Of some keys there is one that no other comes before.
LEMMA HasFirst ==
  ASSUME NEW K \in SUBSET Keys, K # {}
  PROVE  \E k \in K : \A x \in K : ~(Rank[x] < Rank[k])
<1> DEFINE T == {Rank[k] : k \in K}
<1>1. T \subseteq Nat /\ T # {}
  BY S3Assumption
<1>2. \E t \in T : \A u \in T : ~(<<u, t>> \in OpToRel(<, Nat))
  <2> HIDE DEF T
  <2> QED BY <1>1, NatLessThanWellFounded, WFMin
<1>3. PICK t \in T : \A u \in T : ~(u < t)
  BY <1>1, <1>2 DEF OpToRel
<1>4. PICK k \in K : t = Rank[k]
  BY <1>3
<1> QED BY <1>3, <1>4

\* A page of two has a key besides the marker if the directory has one: that is
\* why Rmdir asks for two.
LEMMA TwoShowOne ==
  ASSUME FiniteBucket, NEW d \in Dirs, NEW k \in Under[d] \cap DOMAIN objects
  PROVE  First(Below(d), 0, ListMax) \ {d} # {}
<1> DEFINE S == Rest(Below(d), 0) \ {d}
<1>1. Below(d) \subseteq Keys /\ d \notin Under[d]
  BY S3Assumption DEF Below, Keys
<1>2. k \in S /\ S \subseteq Keys
  BY <1>1, S3Assumption DEF Rest, Below
<1>3. PICK m \in S : \A x \in S : ~(Rank[x] < Rank[m])
  BY <1>2, HasFirst
<1> DEFINE before == {x \in Rest(Below(d), 0) : Rank[x] < Rank[m]}
<1>4. before \subseteq {d}
  BY <1>3
<1>5. Cardinality(before) <= 1 /\ Cardinality(before) \in Nat
  <2>1. IsFiniteSet({d}) /\ Cardinality({d}) = 1
    BY FS_Singleton
  <2>2. IsFiniteSet(before) /\ Cardinality(before) <= Cardinality({d})
    BY <1>4, <2>1, FS_Subset
  <2> HIDE DEF before
  <2> QED BY <2>1, <2>2, FS_CardinalityType
<1>6. Cardinality(before) < ListMax
  <2> HIDE DEF before
  <2> QED BY <1>5 DEF ListMax
<1>7. m \in First(Below(d), 0, ListMax)
  BY <1>3, <1>6 DEF First
<1> QED BY <1>3, <1>7

\* A step of one goroutine leaves what the others have found alone, and the
\* bucket finite.
LEMMA OwnVariables ==
  ASSUME TypeOK, FiniteBucket, NEW g \in Goroutines,
         \/ Invoke(g)     \/ Enter(g)      \/ Close(g)     \/ Return(g)
         \/ GetObject(g)  \/ Exists(g)     \/ Stat(g)
         \/ DeleteObject(g) \/ PutMarker(g) \/ CopyObject(g)
         \/ ListPage(g)   \/ ListDir(g)    \/ DeleteDir(g)
         \/ Write(g)      \/ CloseWriter(g) \/ Upload(g)
  PROVE  /\ \A h \in Goroutines \ {g} :
              /\ at'[h] = at[h] /\ call'[h] = call[h] /\ res'[h] = res[h]
              /\ ans'[h] = ans[h] /\ cursor'[h] = cursor[h]
         /\ FiniteBucket'
  <1> DEFINE Others == \A h \in Goroutines \ {g} :
              /\ at'[h] = at[h] /\ call'[h] = call[h] /\ res'[h] = res[h]
              /\ ans'[h] = ans[h] /\ cursor'[h] = cursor[h]
  <1> USE DEF TypeOK, CallersOK, Answer, Goto
  <1>1. ASSUME objects' = objects PROVE FiniteBucket'
    BY <1>1 DEF FiniteBucket
  <1>2. ASSUME NEW k, NEW c, PutObject(k, c) \/ RemoveObject(k) PROVE FiniteBucket'
    <2>1. DOMAIN objects' = DOMAIN objects \cup {k} \/ DOMAIN objects' = DOMAIN objects \ {k}
      BY <1>2 DEF PutObject, RemoveObject
    <2> QED BY <2>1, FS_AddElement, FS_RemoveElement, SMTT(30) DEF FiniteBucket
  <1>3. CASE Invoke(g) \/ Enter(g) \/ Close(g) \/ Return(g)
    BY <1>1, <1>3 DEF Invoke, Enter, Close, Return
  <1>4. CASE GetObject(g) \/ Exists(g) \/ Stat(g)
    BY <1>1, <1>4 DEF GetObject, Exists, Stat
  <1>5. CASE DeleteObject(g) \/ PutMarker(g) \/ DeleteDir(g)
    BY <1>1, <1>2, <1>5 DEF DeleteObject, PutMarker, DeleteDir
  <1>6. CASE CopyObject(g)
    BY <1>1, <1>2, <1>6 DEF CopyObject, AfterCopy
  <1>7. CASE ListPage(g)
    <2>1. Others
      BY <1>7 DEF ListPage
    <2> QED BY <1>1, <1>7, <2>1 DEF ListPage
  <1>8. CASE ListDir(g)
    BY <1>1, <1>8 DEF ListDir
  <1>9. CASE Write(g) \/ CloseWriter(g) \/ Upload(g)
    BY <1>1, <1>2, <1>9 DEF Write, CloseWriter, Upload
  <1> QED BY <1>3, <1>4, <1>5, <1>6, <1>7, <1>8, <1>9

\* What the history variables become for one goroutine.
LEMMA HistorySteps ==
  ASSUME HNext, NEW g \in Goroutines
  PROVE  /\ Watching(g) =>
              /\ must'[g] = must[g] \cap DOMAIN objects'
              /\ may'[g] = may[g] \cup (Below(Src(g)) \cap DOMAIN objects')
         /\ ~Watching(g) /\ Watching(g)' =>
              must'[g] = Seen(g)' /\ may'[g] = Seen(g)'
  BY DEF HNext

\* A goroutine that stands still while the bucket changes is still told right.
LEMMA WatchedWhileOthersWork ==
  ASSUME HNext, NEW h \in Goroutines, Watched(h),
         at'[h] = at[h], call'[h] = call[h], ans'[h] = ans[h], cursor'[h] = cursor[h]
  PROVE  Watched(h)'
  <1> SUFFICES ASSUME Watching(h)'
               PROVE  /\ must'[h] \subseteq Seen(h)'
                      /\ Seen(h)' \cup ans'[h] \subseteq may'[h]
                      /\ \A k \in must'[h] : Rank[k] <= cursor'[h] => k \in ans'[h]
                      /\ at'[h] = "deleteDir" => must'[h] \cap Under[Src(h)'] = {}
    BY DEF Watched
  <1>1. Watching(h) /\ Src(h)' = Src(h)
    BY DEF Watching, Src
  <1>2. /\ must'[h] = must[h] \cap DOMAIN objects'
        /\ may'[h] = may[h] \cup (Below(Src(h)) \cap DOMAIN objects')
    BY <1>1, HistorySteps
  <1>3. Seen(h)' = Below(Src(h)) \cap DOMAIN objects'
    BY <1>1 DEF Seen
  <1> QED BY <1>1, <1>2, <1>3 DEF Watched, Seen

\* The goroutines that are not at a List or Rmdir after their step.
LEMMA NotWatching ==
  ASSUME TypeOK, NEW g \in Goroutines,
         \/ Close(g) \/ Return(g) \/ GetObject(g) \/ Exists(g) \/ Stat(g)
         \/ DeleteObject(g) \/ PutMarker(g) \/ CopyObject(g) \/ DeleteDir(g)
         \/ Write(g) \/ CloseWriter(g) \/ Upload(g)
  PROVE  ~Watching(g)'
  <1> USE DEF TypeOK, CallersOK, Answer, Goto, Watching
  <1>1. call[g].op \in OpsAt(at[g])
    BY DEF ControlOK
  <1>2. CASE Close(g) \/ GetObject(g) \/ Exists(g) \/ Stat(g)
    BY <1>2 DEF Close, GetObject, Exists, Stat
  <1>3. CASE DeleteObject(g) \/ PutMarker(g) \/ DeleteDir(g)
    BY <1>3 DEF DeleteObject, PutMarker, DeleteDir
  <1>4. CASE CopyObject(g)
    BY <1>4 DEF CopyObject, AfterCopy
  <1>5. CASE Write(g) \/ Upload(g) \/ Return(g)
    BY <1>5 DEF Write, Upload, Return
  <1>6. CASE CloseWriter(g)
    BY <1>1, <1>6 DEF CloseWriter, OpsAt
  <1> QED BY <1>2, <1>3, <1>4, <1>5, <1>6

\* The goroutine that makes the step is told right as well.
LEMMA WatchedAtWork ==
  ASSUME TypeOK, WatchInv, HNext, NEW g \in Goroutines,
         Invoke(g) \/ Enter(g) \/ ListPage(g) \/ ListDir(g)
  PROVE  Watched(g)'
  <1> SUFFICES ASSUME Watching(g)'
               PROVE  /\ must'[g] \subseteq Seen(g)'
                      /\ Seen(g)' \cup ans'[g] \subseteq may'[g]
                      /\ \A k \in must'[g] : Rank[k] <= cursor'[g] => k \in ans'[g]
                      /\ at'[g] = "deleteDir" => must'[g] \cap Under[Src(g)'] = {}
    BY DEF Watched
  <1>1. CASE Invoke(g)
    <2>1. /\ ~Watching(g) /\ at'[g] # "deleteDir"
          /\ ans'[g] = {} /\ cursor'[g] = 0
      BY <1>1 DEF Invoke, Goto, FirstStep, Watching, WatchInv, NothingFound, TypeOK, CallersOK
    <2>2. must'[g] = Seen(g)' /\ may'[g] = Seen(g)'
      BY <2>1, HistorySteps
    <2>3. \A k \in Seen(g)' : Rank[k] \in Nat \ {0}
      <3>1. Seen(g)' \subseteq DOMAIN objects'
        BY DEF Seen
      <3>2. objects' = objects
        BY <1>1 DEF Invoke
      <3> QED BY <3>1, <3>2, S3Assumption DEF TypeOK, BucketOK
    <2>4. \A k \in must'[g] : ~(Rank[k] <= cursor'[g])
      BY <2>1, <2>2, <2>3
    <2> QED BY <2>1, <2>2, <2>4
  <1>2. CASE Enter(g) \/ ListPage(g) \/ ListDir(g)
    <2>1. call'[g] = call[g] /\ objects' = objects /\ at[g] \notin {"idle", "done"}
      BY <1>2 DEF Enter, ListPage, ListDir, Answer, EnterSteps
    <2>2. Watching(g) /\ Src(g)' = Src(g) /\ Seen(g)' = Seen(g)
      BY <2>1 DEF Watching, Src, Seen
    <2>3. /\ must[g] \subseteq Seen(g)
          /\ Seen(g) \cup ans[g] \subseteq may[g]
          /\ \A k \in must[g] : Rank[k] <= cursor[g] => k \in ans[g]
      BY <2>2 DEF WatchInv, Watched
    <2>4. must'[g] = must[g] /\ may'[g] = may[g]
      <3>1. /\ must'[g] = must[g] \cap DOMAIN objects'
            /\ may'[g] = may[g] \cup (Below(Src(g)) \cap DOMAIN objects')
        BY <2>2, HistorySteps
      <3> QED BY <2>1, <2>3, <3>1 DEF Seen
    <2>5. call[g].op \in {"List", "Rmdir"} /\ call[g].op \in OpsAt(at[g])
      BY <2>2 DEF Watching, TypeOK, ControlOK
    <2>6. Src(g) \in Keys /\ cursor[g] \in Nat
      BY DEF Src, TypeOK, CallersOK
    <2>7. at'[g] # "done"
      BY DEF Watching
    <2>8. CASE Enter(g)
      <3>1. ans' = ans /\ cursor' = cursor
        BY <2>8 DEF Enter, Answer
      <3>2. at'[g] # "deleteDir"
        <4>1. call[g].op \notin {"NewWriter", "Move"}
          BY <2>5
        <4>2. at[g] = "enter"
          BY <2>5, <2>8, <4>1 DEF Enter, EnterSteps, OpsAt
        <4>3. at'[g] = FirstRequest(call[g].op)
          BY <2>7, <2>8, <4>2 DEF Enter, Answer, Goto, TypeOK, CallersOK
        <4> QED BY <2>5, <4>3 DEF FirstRequest
      <3> QED BY <2>2, <2>3, <2>4, <3>1, <3>2
    <2>9. CASE ListDir(g)
      <3>1. ans' = ans /\ cursor' = cursor
        BY <2>9 DEF ListDir, Answer
      <3>2. First(Below(Src(g)), 0, ListMax) \ {Src(g)} = {}
        BY <2>7, <2>9 DEF ListDir, Answer, Goto, TypeOK, CallersOK
      <3>3. Src(g) \in Dirs => must[g] \cap Under[Src(g)] = {}
        BY <2>3, <3>2, TwoShowOne DEF WatchInv, Seen
      <3>4. Src(g) \in Dirs
        BY <2>5 DEF WatchInv, ArgsKept, DirOps
      <3> QED BY <2>2, <2>3, <2>4, <3>1, <3>3, <3>4
    <2>10. CASE ListPage(g)
      <3> DEFINE page == First(Below(Src(g)), cursor[g], PageSize)
      <3>1. PICK last \in page :
              /\ \A k \in page : Rank[k] <= Rank[last]
              /\ cursor' = [cursor EXCEPT ![g] = Rank[last]]
              /\ ans' = [ans EXCEPT ![g] = @ \cup page]
              /\ at' = at
        BY <2>7, <2>10 DEF ListPage, Answer, Goto, TypeOK, CallersOK
      <3>2. cursor'[g] = Rank[last] /\ ans'[g] = ans[g] \cup page
        BY <3>1 DEF TypeOK, CallersOK
      <3>3. page \subseteq Seen(g)
        BY DEF First, Rest, Seen
      <3>4. ASSUME NEW k \in must[g], Rank[k] <= Rank[last] PROVE k \in ans[g] \cup page
        <4>1. CASE Rank[k] <= cursor[g]
          BY <2>3, <4>1
        <4>2. CASE ~(Rank[k] <= cursor[g])
          <5>1. k \in Rest(Below(Src(g)), cursor[g])
            BY <2>3, <2>6, <4>2, S3Assumption DEF Seen, Rest, TypeOK, BucketOK
          <5> QED BY <2>6, <3>4, <5>1, PageIsFirst, S3Assumption DEF WatchInv
        <4> QED BY <4>1, <4>2
      <3>5. at'[g] # "deleteDir"
        BY <2>10, <3>1 DEF ListPage
      <3> HIDE DEF page
      <3> QED BY <2>2, <2>3, <2>4, <3>2, <3>3, <3>4, <3>5
    <2> QED BY <1>2, <2>8, <2>9, <2>10
  <1> QED BY <1>1, <1>2

\* What the properties of List and Rmdir rest on holds of every behaviour.
LEMMA WatchCorrect == HSpec => [](TypeOK /\ WatchInv)
<1>1. HInit => Init /\ WatchInv
  <2> SUFFICES ASSUME HInit PROVE Init /\ WatchInv
    OBVIOUS
  <2>1. ArgsKept
    <3>1. NoCall.op = "none"
      BY DEF NoCall
    <3> QED BY <3>1 DEF HInit, Init, ArgsKept, PairOps, DirOps
  <2>2. FiniteBucket
    BY S3Assumption DEF HInit, Init, FiniteBucket
  <2> QED BY <2>1, <2>2 DEF HInit, Init, WatchInv, NothingFound, Watched, Watching
<1>2. TypeOK /\ WatchInv /\ [HNext]_hvars => WatchInv' /\ [Next]_vars
  <2> SUFFICES ASSUME TypeOK, WatchInv, [HNext]_hvars PROVE WatchInv' /\ [Next]_vars
    OBVIOUS
  <2>1. [Next]_vars
    BY DEF HNext, hvars
  <2>2. ArgsKept'
    BY <2>1, ArgsStayKept DEF WatchInv
  <2>3. CASE HNext
    <3>1. PICK g \in Goroutines :
            \/ Invoke(g)     \/ Enter(g)      \/ Close(g)     \/ Return(g)
            \/ GetObject(g)  \/ Exists(g)     \/ Stat(g)
            \/ DeleteObject(g) \/ PutMarker(g) \/ CopyObject(g)
            \/ ListPage(g)   \/ ListDir(g)    \/ DeleteDir(g)
            \/ Write(g)      \/ CloseWriter(g) \/ Upload(g)
      BY <2>3 DEF HNext, Next
    <3>2. /\ \A h \in Goroutines \ {g} :
               /\ at'[h] = at[h] /\ call'[h] = call[h] /\ res'[h] = res[h]
               /\ ans'[h] = ans[h] /\ cursor'[h] = cursor[h]
          /\ FiniteBucket'
      BY <3>1, OwnVariables DEF WatchInv
    <3>3. NothingFound'
      <4>1. at'[g] \notin {"list", "done"} => ans'[g] = {} /\ cursor'[g] = 0
        <5> USE DEF WatchInv, NothingFound, TypeOK, CallersOK, Answer, Goto
        <5>1. CASE Invoke(g) \/ Close(g) \/ Return(g)
          BY <5>1 DEF Invoke, Close, Return
        <5>2. CASE Enter(g)
          BY <5>2 DEF Enter, EnterSteps
        <5>3. CASE GetObject(g) \/ Exists(g) \/ Stat(g)
          BY <5>3 DEF GetObject, Exists, Stat
        <5>4. CASE DeleteObject(g) \/ PutMarker(g) \/ DeleteDir(g)
          BY <5>4 DEF DeleteObject, PutMarker, DeleteDir
        <5>5. CASE CopyObject(g)
          BY <5>5 DEF CopyObject, AfterCopy
        <5>6. CASE ListPage(g)
          BY <5>6 DEF ListPage
        <5>7. CASE ListDir(g)
          BY <5>7 DEF ListDir
        <5>8. CASE Write(g) \/ CloseWriter(g) \/ Upload(g)
          BY <5>8 DEF Write, CloseWriter, Upload
        <5> QED BY <3>1, <5>1, <5>2, <5>3, <5>4, <5>5, <5>6, <5>7, <5>8
      <4> QED BY <3>2, <4>1 DEF WatchInv, NothingFound
    <3>4. Watched(g)'
      <4>1. CASE Invoke(g) \/ Enter(g) \/ ListPage(g) \/ ListDir(g)
        BY <2>3, <4>1, WatchedAtWork
      <4>2. CASE ~(Invoke(g) \/ Enter(g) \/ ListPage(g) \/ ListDir(g))
        BY <3>1, <4>2, NotWatching DEF Watched
      <4> QED BY <4>1, <4>2
    <3>5. ASSUME NEW h \in Goroutines PROVE Watched(h)'
      <4>1. CASE h = g
        BY <3>4, <4>1
      <4>2. CASE h # g
        <5>1. Watched(h)
          BY DEF WatchInv
        <5> QED BY <2>3, <3>2, <4>2, <5>1, WatchedWhileOthersWork
      <4> QED BY <4>1, <4>2
    <3> QED BY <2>1, <2>2, <3>2, <3>3, <3>5 DEF WatchInv
  <2>4. CASE UNCHANGED hvars
    BY <2>1, <2>2, <2>4
       DEF hvars, vars, callers, WatchInv, FiniteBucket, NothingFound, Watched,
           Watching, Seen, Src
  <2> QED BY <2>3, <2>4
<1>3. HSpec => []TypeOK
  <2>1. [HNext]_hvars => [Next]_vars
    BY DEF HNext, hvars
  <2> QED BY <1>1, <2>1, TypeCorrect, PTL DEF HSpec, Spec
<1> QED BY <1>1, <1>2, <1>3, PTL DEF HSpec

\* The steps in which List and Rmdir succeed.
LEMMA ListAndRmdirEnd ==
  ASSUME TypeOK, FiniteBucket, HNext, NEW g \in Goroutines, Watching(g),
         at'[g] = "done", res'[g] = "ok"
  PROVE  ListPage(g) \/ DeleteDir(g)
  <1>1. /\ at[g] # "done" /\ call[g].op \in OpsAt(at[g])
        /\ call[g].op \in {"List", "Rmdir"}
    BY DEF Watching, TypeOK, ControlOK
  <1>2. PICK h \in Goroutines :
          \/ Invoke(h)     \/ Enter(h)      \/ Close(h)     \/ Return(h)
          \/ GetObject(h)  \/ Exists(h)     \/ Stat(h)
          \/ DeleteObject(h) \/ PutMarker(h) \/ CopyObject(h)
          \/ ListPage(h)   \/ ListDir(h)    \/ DeleteDir(h)
          \/ Write(h)      \/ CloseWriter(h) \/ Upload(h)
    BY DEF HNext, Next
  <1>3. h = g
    BY <1>1, <1>2, OwnVariables
  <1>4. ~Enter(g)
    <2> SUFFICES ASSUME Enter(g) PROVE FALSE
      OBVIOUS
    <2>1. at[g] = "enter"
      BY <1>1 DEF Enter, EnterSteps, OpsAt
    <2>2. CASE at'[g] = FirstRequest(call[g].op)
      BY <1>1, <2>2 DEF FirstRequest
    <2>3. CASE res'[g] \in {"closed", "cancelled"}
      BY <2>3
    <2> QED BY <1>1, <2>1, <2>2, <2>3 DEF Enter, Answer, Goto, TypeOK, CallersOK
  <1>5. ~Invoke(g) /\ ~Return(g)
    BY <1>1 DEF Invoke, Return, Watching
  <1>6. ~ListDir(g)
    BY DEF ListDir, Answer, Goto, TypeOK, CallersOK
  <1> QED BY <1>1, <1>2, <1>3, <1>4, <1>5, <1>6
          DEF Close, GetObject, Exists, Stat, DeleteObject, PutMarker, CopyObject,
              Write, CloseWriter, Upload, OpsAt, PairOps

\* List reports every key below the prefix that was there from the call to the
\* answer, and none that never was, on however many pages and whatever is
\* written, moved and deleted meanwhile.
THEOREM ListIsComplete == HSpec => ListComplete
<1>1. TypeOK /\ WatchInv /\ [HNext]_hvars =>
        [\A g \in Goroutines :
           (Watching(g) /\ call[g].op = "List" /\ at'[g] = "done" /\ res'[g] = "ok") =>
              must[g] \subseteq ans'[g] /\ ans'[g] \subseteq may[g]]_hvars
  <2> SUFFICES ASSUME TypeOK, WatchInv, HNext, NEW g \in Goroutines, Watching(g),
                      call[g].op = "List", at'[g] = "done", res'[g] = "ok"
               PROVE  must[g] \subseteq ans'[g] /\ ans'[g] \subseteq may[g]
    OBVIOUS
  <2>1. at[g] = "list"
    BY ListAndRmdirEnd DEF WatchInv, ListPage, DeleteDir, TypeOK, ControlOK, OpsAt
  <2>2. ListPage(g)
    BY <2>1, ListAndRmdirEnd DEF WatchInv, DeleteDir
  <2>3. /\ must[g] \subseteq Seen(g)
        /\ Seen(g) \cup ans[g] \subseteq may[g]
        /\ \A k \in must[g] : Rank[k] <= cursor[g] => k \in ans[g]
    BY DEF WatchInv, Watched
  <2>4. ans'[g] = ans[g] \cup Rest(Below(Src(g)), cursor[g])
    BY <2>1, <2>2 DEF ListPage, Answer, Goto, TypeOK, CallersOK
  <2>5. Rest(Below(Src(g)), cursor[g]) \subseteq Seen(g)
    BY DEF Rest, Seen
  <2>6. ASSUME NEW k \in must[g] PROVE k \in ans'[g]
    <3>1. CASE Rank[k] <= cursor[g]
      BY <2>3, <2>4, <3>1
    <3>2. CASE ~(Rank[k] <= cursor[g])
      <4>1. k \in Below(Src(g)) \cap DOMAIN objects
        BY <2>3 DEF Seen
      <4>2. Rank[k] \in Nat /\ cursor[g] \in Nat
        BY <4>1, S3Assumption DEF TypeOK, BucketOK, CallersOK
      <4>3. k \in Rest(Below(Src(g)), cursor[g])
        BY <3>2, <4>1, <4>2 DEF Rest
      <4> QED BY <2>4, <4>3
    <3> QED BY <3>1, <3>2
  <2> QED BY <2>3, <2>4, <2>5, <2>6
<1> QED BY <1>1, WatchCorrect, PTL DEF HSpec, ListComplete

\* Rmdir does not succeed on a directory that had an object in it all the time,
\* although it looks and deletes with two requests.
THEOREM RmdirLeavesFull == HSpec => RmdirNeedsEmpty
<1>1. TypeOK /\ WatchInv /\ [HNext]_hvars =>
        [\A g \in Goroutines :
           (Watching(g) /\ call[g].op = "Rmdir" /\ at'[g] = "done" /\ res'[g] = "ok") =>
              must[g] \cap Under[Src(g)] = {}]_hvars
  <2> SUFFICES ASSUME TypeOK, WatchInv, HNext, NEW g \in Goroutines, Watching(g),
                      call[g].op = "Rmdir", at'[g] = "done", res'[g] = "ok"
               PROVE  must[g] \cap Under[Src(g)] = {}
    OBVIOUS
  <2>1. at[g] = "deleteDir"
    BY ListAndRmdirEnd DEF WatchInv, ListPage, DeleteDir, TypeOK, ControlOK, OpsAt
  <2> QED BY <2>1 DEF WatchInv, Watched
<1> QED BY <1>1, WatchCorrect, PTL DEF HSpec, RmdirNeedsEmpty
-----------------------------------------------------------------------------
(* Ranges.                                                                 *)

\* Adding two int64 stays what it is where the sum is one.
LEMMA SumInRange ==
  ASSUME NEW i \in Int64
  PROVE  Wrap(i) = i
<1> DEFINE n == 2 * (MaxInt64 + 1)
           a == i + MaxInt64 + 1
<1>1. MaxInt64 \in Nat /\ n \in Nat \ {0} /\ a \in Nat /\ a < n
  BY RangesAssumption DEF Int64
<1> HIDE DEF n, a
<1>2. a % n = a
  BY <1>1
<1> QED BY <1>1, <1>2, RangesAssumption DEF Wrap, n, a, Int64

\* A read in progress gets the window of the object it asked for, whatever its
\* offset and limit, up to the largest window an int64 can name, and fails exactly
\* when that window begins at or past the end of the object (NewReader).
THEOREM RangesAreExact == HSpec => []RangeExact
<1>1. WindowsSent
  <2> SUFFICES ASSUME NEW offset \in Int64, NEW limit \in Int64,
                      offset >= 0, limit >= 0, offset + limit <= MaxInt64 + 1,
                      NEW size \in 0..MaxInt64
               PROVE  LET header == RangeHeader(offset, limit)
                      IN /\ Refused(header, size) <=> (offset > 0 \/ limit > 0) /\ offset >= size
                         /\ Refused(header, size) \/
                              Sent(header, size) =
                                {i \in 0..(size - 1) : i >= offset /\ (limit = 0 \/ i < offset + limit)}
    BY DEF WindowsSent
  <2>1. /\ MaxInt64 \in Nat /\ size \in Nat /\ size <= MaxInt64
        /\ offset \in Nat /\ limit \in Nat /\ offset <= MaxInt64
    BY RangesAssumption DEF Int64
  <2>2. CASE limit > 0
    <3>1. offset + limit - 1 \in Int64 /\ offset <= offset + limit - 1
      BY <2>1, <2>2 DEF Int64
    <3>2. RangeHeader(offset, limit) = [first |-> offset, last |-> offset + limit - 1]
      BY <2>2, <3>1, SumInRange DEF RangeHeader
    <3>3. RangeHeader(offset, limit) # Whole
      <4>1. offset # 0 \/ offset + limit - 1 # MaxInt64
        BY <2>1 DEF Int64
      <4> QED BY <3>2, <4>1 DEF Whole
    <3> QED BY <2>1, <2>2, <3>1, <3>2, <3>3 DEF Sent, Refused, WellFormed
  <2>3. CASE limit = 0
    <3>1. RangeHeader(offset, limit) = [first |-> offset, last |-> MaxInt64]
      BY <2>1, <2>3 DEF RangeHeader, Whole
    <3>2. RangeHeader(offset, limit) = Whole <=> offset = 0
      BY <2>1, <3>1 DEF Whole
    <3> QED BY <2>1, <2>3, <3>1, <3>2 DEF Sent, Refused, WellFormed
  <2> QED BY <2>1, <2>2, <2>3
<1>2. RangeExact
  BY <1>1 DEF RangeExact
<1> QED BY <1>2, PTL

-----------------------------------------------------------------------------
(* Paths and keys.                                                           *)

\* What path.Clean keeps of a string whose segments are names or empty.
KeepsNames(s, kept) ==
  /\ kept \in [0..Len(s) -> Seq(Name)]
  /\ kept[0] = <<>>
  /\ \A k \in 1..Len(s) :
       kept[k] = IF s[k] = <<>> THEN kept[k - 1] ELSE Append(kept[k - 1], s[k])

LEMMA CleanKeepsNames ==
  ASSUME NEW s \in Seq(Name \cup {<<>>})
  PROVE  \E kept : /\ KeepsNames(s, kept)
                   /\ kept[Len(s)] # <<>> =>
                        Clean(s) = IF IsRooted(s) THEN << <<>> >> \o kept[Len(s)] ELSE kept[Len(s)]
<1> DEFINE n    == Len(s)
           M    == Seq(Name)
           none == <<>>
           Push(stack, seg) ==
             IF seg \in {<<>>, Dot} THEN stack
             ELSE IF seg # DotDot THEN Append(stack, seg)
             ELSE IF stack # <<>> /\ Last(stack) # DotDot THEN Front(stack)
             ELSE IF IsRooted(s) THEN stack ELSE Append(stack, seg)
           step == [p \in (1..n) \X M |-> Push(p[2], s[p[1]])]
<1>1. n \in Nat /\ DOMAIN s = 1..n /\ \A i \in 1..n : s[i] \in Name \cup {<<>>}
  OBVIOUS
<1>2. none \in M
  OBVIOUS
<1>3. ASSUME NEW k \in 1..n, NEW stack \in M
      PROVE  /\ Push(stack, s[k]) = IF s[k] = <<>> THEN stack ELSE Append(stack, s[k])
             /\ Push(stack, s[k]) \in M
  <2>1. s[k] = <<>> \/ (s[k] \in Name /\ s[k] \notin {<<>>, Dot, DotDot})
    BY <1>1 DEF Name
  <2>2. Push(stack, s[k]) = IF s[k] = <<>> THEN stack ELSE Append(stack, s[k])
    BY <2>1
  <2>3. s[k] \in Name => Append(stack, s[k]) \in M
    OBVIOUS
  <2> HIDE DEF Push
  <2> QED BY <2>1, <2>2, <2>3
<1> HIDE DEF n, M, none
<1>4. step \in [(1..n) \X M -> M]
  <2> HIDE DEF Push
  <2> QED BY <1>3
<1>5. \A k \in 1..n : \A stack \in M : step[<<k, stack>>] = Push(stack, s[k])
  OBVIOUS
<1> HIDE DEF step
<1>6. PICK f : Folds(M, none, step, n, f)
  BY <1>1, <1>2, <1>4, FoldExists
<1>7. f = [x \in SUBSET (1..n) |-> IF x = {} THEN none ELSE Push(f[x \ {Max(x)}], s[Max(x)])]
  <2>1. ASSUME NEW x \in SUBSET (1..n), x # {}
        PROVE  f[x] = Push(f[x \ {Max(x)}], s[Max(x)])
    <3>1. Max(x) \in 1..n /\ x \ {Max(x)} \in SUBSET (1..n)
      BY <1>1, <2>1, MaxIsLast
    <3>2. f[x \ {Max(x)}] \in M /\ f[x] = step[<<Max(x), f[x \ {Max(x)}]>>]
      BY <1>6, <2>1, <3>1 DEF Folds
    <3> HIDE DEF Push
    <3> QED BY <1>5, <3>1, <3>2
  <2>2. f \in [SUBSET (1..n) -> M] /\ f[{}] = none
    BY <1>6 DEF Folds
  <2> HIDE DEF Push
  <2> QED BY <2>1, <2>2
<1> DEFINE g == CHOOSE g : g = [x \in SUBSET (1..n) |->
                  IF x = {} THEN none ELSE Push(g[x \ {Max(x)}], s[Max(x)])]
<1>8. g = [x \in SUBSET (1..n) |-> IF x = {} THEN none ELSE Push(g[x \ {Max(x)}], s[Max(x)])]
  <2> HIDE DEF Push
  <2> QED BY <1>7
<1>9. FoldLeft(Push, <<>>, s) = g[1..n]
  BY <1>1 DEF FoldLeft, MapThenFoldSet, none
<1>10. g[1..n] # <<>> =>
         Clean(s) = IF IsRooted(s) THEN << <<>> >> \o g[1..n] ELSE g[1..n]
  BY <1>9 DEF Clean
<1> HIDE DEF g
<1>11. Iterates(M, none, step, n, g)
  <2>1. ASSUME NEW x \in SUBSET (1..n), x # {}, g[x \ {Max(x)}] \in M
        PROVE  g[x] = step[<<Max(x), g[x \ {Max(x)}]>>]
    <3>1. Max(x) \in 1..n
      BY <1>1, <2>1, MaxIsLast
    <3> HIDE DEF Push
    <3> QED BY <1>5, <1>8, <2>1, <3>1
  <2>2. g[{}] = none
    BY <1>8
  <2> QED BY <2>1, <2>2 DEF Iterates
<1>12. RunsAlong(M, step, n, g)
  BY <1>1, <1>2, <1>4, <1>11, FoldRuns
<1> DEFINE kept == [k \in 0..n |-> g[1..k]]
<1>13. kept \in [0..n -> M] /\ kept[0] = none /\ kept[n] = g[1..n]
  <2>1. 1..0 = {} /\ 0 \in 0..n /\ n \in 0..n
    BY <1>1
  <2>2. kept[0] = g[1..0] /\ kept[n] = g[1..n]
    BY <2>1
  <2> QED BY <1>11, <1>12, <2>1, <2>2 DEF RunsAlong, Iterates
<1>14. ASSUME NEW k \in 1..n
       PROVE  kept[k] = IF s[k] = <<>> THEN kept[k - 1] ELSE Append(kept[k - 1], s[k])
  <2>1. k - 1 \in 0..n /\ k \in 0..n
    BY <1>1
  <2>2. g[1..(k - 1)] \in M /\ g[1..k] = step[<<k, g[1..(k - 1)]>>]
    BY <1>12, <2>1 DEF RunsAlong
  <2>3. kept[k] = g[1..k] /\ kept[k - 1] = g[1..(k - 1)]
    BY <2>1
  <2> HIDE DEF kept, Push
  <2> QED BY <1>3, <1>5, <2>2, <2>3
<1> HIDE DEF kept
<1>15. KeepsNames(s, kept)
  BY <1>13, <1>14 DEF KeepsNames, n, M, none
<1>16. kept[Len(s)] = g[1..n]
  BY <1>13 DEF n
<1> QED BY <1>10, <1>15, <1>16

LEMMA SliceGrows ==
  ASSUME NEW S, NEW t \in Seq(S), NEW a \in Nat \ {0}, NEW b \in 0..Len(t), a <= b + 1, b < Len(t)
  PROVE  Append(SubSeq(t, a, b), t[b + 1]) = SubSeq(t, a, b + 1)
<1> DEFINE x == Append(SubSeq(t, a, b), t[b + 1])
           y == SubSeq(t, a, b + 1)
<1>1. /\ SubSeq(t, a, b) \in Seq(S) /\ Len(SubSeq(t, a, b)) = b - a + 1
      /\ \A i \in 1..(b - a + 1) : SubSeq(t, a, b)[i] = t[a + i - 1]
  BY SubSeqProperties
<1>2. /\ y \in Seq(S) /\ Len(y) = (b + 1) - a + 1
      /\ \A i \in 1..((b + 1) - a + 1) : y[i] = t[a + i - 1]
  <2>1. b + 1 \in 0..Len(t) /\ a <= (b + 1) + 1
    OBVIOUS
  <2> QED BY <2>1, SubSeqProperties
<1>3. t[b + 1] \in S
  OBVIOUS
<1>4. x \in Seq(S) /\ Len(x) = Len(y)
  BY <1>1, <1>2, <1>3
<1>5. ASSUME NEW i \in 1..Len(y) PROVE x[i] = y[i]
  BY <1>1, <1>2, <1>3, SMTT(30)
<1> HIDE DEF x, y
<1>6. x = y
  BY <1>2, <1>4, <1>5
<1> QED BY <1>6 DEF x, y

\* A configured prefix without the slash at its end.
Base(c) == SubSeq(c, 1, IF EndsInSlash(c) THEN Len(c) - 1 ELSE Len(c))
Root(c) == IF IsRooted(c) THEN 1 ELSE 0

\* It consists of names, but for the empty segment that makes it rooted.
Shaped(c, b, n, r) ==
  /\ c \in Seq(Name \cup {<<>>}) /\ b \in Seq(Name \cup {<<>>})
  /\ n = Len(b) /\ n \in Nat /\ r \in {0, 1} /\ r < n
  /\ \A i \in (r + 1)..n : b[i] \in Name
  /\ r = 1 => b[1] = <<>>
  /\ \A i \in 1..n : c[i] = b[i]
  /\ \/ Len(c) = n
     \/ Len(c) = n + 1 /\ c[n + 1] = <<>>

LEMMA PlainTypes ==
  ASSUME NEW p \in Plain
  PROVE  /\ p \in Seq(Name) /\ p \in Seq(Name \cup {<<>>}) /\ Len(p) \in Nat /\ Len(p) > 0
         /\ DOMAIN p = 1..Len(p)
         /\ \A i \in 1..Len(p) : p[i] \in Name /\ p[i] # <<>> /\ p[i] \in Seq(Letters)
<1>1. p \in Seq(Name) /\ p # <<>>
  BY DEF Plain
<1>2. \A x \in Name : x # <<>> /\ x \in Seq(Letters)
  BY DEF Name
<1>3. Len(p) \in Nat /\ Len(p) > 0 /\ DOMAIN p = 1..Len(p) /\ \A i \in 1..Len(p) : p[i] \in Name
  BY <1>1
<1>4. p \in Seq(Name \cup {<<>>})
  BY <1>1
<1> QED BY <1>1, <1>2, <1>3, <1>4

LEMMA PrefixShape ==
  ASSUME NEW c \in Configured, c # Empty
  PROVE  Shaped(c, Base(c), Len(Base(c)), Root(c))
<1> DEFINE lo == IF IsRooted(c) THEN 2 ELSE 1
           hi == IF EndsInSlash(c) THEN Len(c) - 1 ELSE Len(c)
           r  == Root(c)
           b  == Base(c)
<1>1. c \in Seq(Seq(Letters)) /\ SubSeq(c, lo, hi) \in Plain
  BY KeysAssumption DEF Strings, Body
<1>2. Len(c) \in Nat /\ hi \in 0..Len(c) /\ lo = r + 1 /\ r \in {0, 1}
  BY <1>1 DEF EndsInSlash, Root
<1>3. r < hi
  <2>1. SubSeq(c, lo, hi) # <<>>
    BY <1>1 DEF Plain
  <2> HIDE DEF lo, hi, r
  <2>2. hi < lo => SubSeq(c, lo, hi) = <<>>
    BY <1>1, <1>2
  <2> QED BY <1>2, <2>1, <2>2
<1>4. \A i \in (r + 1)..hi : c[i] \in Name
  <2> SUFFICES ASSUME NEW i \in (r + 1)..hi PROVE c[i] \in Name
    OBVIOUS
  <2> HIDE DEF lo, hi, r
  <2>1. i - r \in 1..Len(SubSeq(c, lo, hi)) /\ SubSeq(c, lo, hi)[i - r] = c[i]
    <3>1. /\ Len(SubSeq(c, lo, hi)) = hi - lo + 1
          /\ \A k \in 1..(hi - lo + 1) : SubSeq(c, lo, hi)[k] = c[lo + k - 1]
      BY <1>1, <1>2, <1>3
    <3> QED BY <1>2, <1>3, <3>1
  <2> QED BY <1>1, <2>1, PlainTypes
<1>5. r = 1 => c[1] = <<>>
  BY DEF Root, IsRooted
<1>6. hi = Len(c) \/ (Len(c) = hi + 1 /\ c[hi + 1] = <<>>)
  BY <1>1, <1>2 DEF EndsInSlash, Last
<1>7. \A i \in 1..Len(c) : c[i] \in Name \cup {<<>>}
  <2> SUFFICES ASSUME NEW i \in 1..Len(c) PROVE c[i] \in Name \cup {<<>>}
    OBVIOUS
  <2>1. i \in (r + 1)..hi \/ (i = 1 /\ r = 1) \/ (i = hi + 1 /\ Len(c) = hi + 1)
    BY <1>2, <1>3, <1>6
  <2> HIDE DEF hi, r
  <2> QED BY <1>2, <1>4, <1>5, <1>6, <2>1
<1>8. c \in Seq(Name \cup {<<>>})
  BY <1>1, <1>7
<1>9. /\ b \in Seq(Name \cup {<<>>}) /\ Len(b) = hi
      /\ \A i \in 1..hi : b[i] = c[i]
  BY <1>2, <1>8 DEF Base
<1> HIDE DEF b, lo, hi, r
<1>10. Shaped(c, b, Len(b), r)
  <2> DEFINE n == Len(b)
  <2>1. n = hi /\ n \in Nat
    BY <1>2, <1>9
  <2> HIDE DEF n
  <2>2. \A i \in (r + 1)..n : b[i] \in Name
    <3>1. ASSUME NEW i \in (r + 1)..n PROVE i \in (r + 1)..hi /\ i \in 1..hi
      BY <1>2, <2>1
    <3> QED BY <1>4, <1>9, <3>1
  <2>3. r = 1 => b[1] = <<>>
    BY <1>2, <1>3, <1>5, <1>9
  <2>4. \A i \in 1..n : c[i] = b[i]
    BY <1>9, <2>1
  <2>5. Len(c) = n \/ (Len(c) = n + 1 /\ c[n + 1] = <<>>)
    BY <1>6, <2>1
  <2>6. n = Len(b) /\ r \in {0, 1} /\ r < n
    BY <1>2, <1>3, <2>1 DEF n
  <2>7. Shaped(c, b, n, r)
    BY <1>8, <1>9, <2>1, <2>2, <2>3, <2>4, <2>5, <2>6 DEF Shaped
  <2> QED BY <2>7 DEF n
<1> QED BY <1>10 DEF b, r

\* What a path adds to a key.
Added(p) == IF p = Empty THEN <<>> ELSE p

\* What is kept of a prefix is what it has below its root, ...
LEMMA PrefixKeeps ==
  ASSUME NEW c, NEW b, NEW n, NEW r, Shaped(c, b, n, r),
         NEW s \in Seq(Name \cup {<<>>}), Len(c) <= Len(s), \A i \in 1..Len(c) : s[i] = c[i],
         NEW kept, KeepsNames(s, kept)
  PROVE  kept[Len(c)] = SubSeq(b, r + 1, n)
<1>1. /\ n \in Nat /\ r \in {0, 1} /\ r < n /\ b \in Seq(Name \cup {<<>>}) /\ n = Len(b)
      /\ Len(c) \in Nat /\ Len(s) \in Nat /\ n <= Len(s) /\ n <= Len(c)
  BY DEF Shaped
<1> DEFINE S == {k \in 0..n : kept[k] = SubSeq(b, r + 1, k)}
<1>2. 0 \in S
  <2>1. SubSeq(b, r + 1, 0) = <<>>
    BY <1>1
  <2> QED BY <1>1, <2>1, SMTT(30) DEF KeepsNames
<1>3. ASSUME NEW k \in 0..n, k \in S, k < n PROVE k + 1 \in S
  <2>1. k + 1 \in 1..Len(s) /\ k + 1 \in 1..n /\ (k + 1) - 1 = k /\ s[k + 1] = b[k + 1]
    <3>1. k + 1 \in 1..n /\ k + 1 \in 1..Len(c)
      BY <1>1, <1>3
    <3> QED BY <1>1, <3>1 DEF Shaped
  <2>2. kept[k + 1] = IF s[k + 1] = <<>> THEN kept[k] ELSE Append(kept[k], s[k + 1])
    BY <2>1 DEF KeepsNames
  <2>3. kept[k] = SubSeq(b, r + 1, k)
    BY <1>3
  <2>6. k + 1 \in 0..n
    BY <2>1
  <2>4. CASE k + 1 <= r
    <3>1. s[k + 1] = <<>>
      BY <1>1, <2>1, <2>4 DEF Shaped
    <3>2. SubSeq(b, r + 1, k) = <<>> /\ SubSeq(b, r + 1, k + 1) = <<>>
      BY <1>1, <2>1, <2>4
    <3> QED BY <2>1, <2>2, <2>3, <2>6, <3>1, <3>2
  <2>5. CASE k + 1 > r
    <3>1. b[k + 1] \in Name /\ b[k + 1] # <<>>
      BY <1>1, <2>1, <2>5 DEF Shaped, Name
    <3>2. Append(SubSeq(b, r + 1, k), b[k + 1]) = SubSeq(b, r + 1, k + 1)
      <4>1. r + 1 \in Nat \ {0} /\ k \in 0..Len(b) /\ r + 1 <= k + 1 /\ k < Len(b)
        BY <1>1, <2>1, <2>5
      <4> QED BY <1>1, <4>1, SliceGrows
    <3> QED BY <2>1, <2>2, <2>3, <2>6, <3>1, <3>2
  <2> QED BY <1>1, <2>1, <2>4, <2>5
<1>4. n \in S
  <2>1. n \in 0..n
    BY <1>1
  <2> HIDE DEF S
  <2> QED BY <1>1, <1>2, <1>3, <2>1, CountUp
<1>5. CASE Len(c) = n
  BY <1>4, <1>5
<1>6. CASE Len(c) = n + 1 /\ c[n + 1] = <<>>
  <2>1. n + 1 \in 1..Len(s) /\ s[n + 1] = <<>> /\ (n + 1) - 1 = n
    BY <1>1, <1>6
  <2>2. kept[n + 1] = kept[n]
    BY <2>1 DEF KeepsNames
  <2> QED BY <1>4, <1>6, <2>2
<1> QED BY <1>5, <1>6 DEF Shaped

\* ... and of a path it is all.
LEMMA PathKeeps ==
  ASSUME NEW l \in Nat, NEW p \in Plain \cup {Empty}, NEW stack \in Seq(Name),
         NEW s \in Seq(Name \cup {<<>>}), Len(s) >= l + Len(p),
         \A i \in 1..Len(p) : s[l + i] = p[i],
         NEW kept, KeepsNames(s, kept), kept[l] = stack
  PROVE  kept[l + Len(p)] = stack \o Added(p)
<1>1. CASE p = Empty
  <2>1. Len(p) = 1 /\ p[1] = <<>> /\ Added(p) = <<>>
    BY <1>1 DEF Empty, Added
  <2>2. Len(s) >= l + 1 /\ s[l + 1] = <<>> /\ l + 1 \in 1..Len(s) /\ (l + 1) - 1 = l
    BY <2>1
  <2>3. kept[l + 1] = kept[l]
    BY <2>2 DEF KeepsNames
  <2> QED BY <2>1, <2>2, <2>3
<1>2. CASE p # Empty
  <2>1. /\ Added(p) = p /\ p \in Seq(Name) /\ Len(p) \in Nat
        /\ \A i \in 1..Len(p) : p[i] \in Name /\ p[i] # <<>>
    BY <1>2, PlainTypes DEF Added
  <2> DEFINE n == Len(stack)
             Has(k, x) == /\ x \in Seq(Name) /\ Len(x) = n + k
                          /\ \A j \in 1..n : x[j] = stack[j]
                          /\ \A j \in 1..k : x[n + j] = p[j]
             S == {k \in 0..Len(p) : Has(k, kept[l + k])}
  <2>2. 0 \in S
    BY <2>1
  <2>3. ASSUME NEW k \in 0..Len(p), k \in S, k < Len(p) PROVE k + 1 \in S
    <3>1. k + 1 \in 1..Len(p) /\ l + (k + 1) \in 1..Len(s) /\ (l + (k + 1)) - 1 = l + k
      BY <2>1, <2>3
    <3>2. s[l + (k + 1)] = p[k + 1] /\ p[k + 1] \in Name /\ p[k + 1] # <<>>
      BY <2>1, <3>1
    <3>3. kept[l + (k + 1)] = Append(kept[l + k], p[k + 1])
      BY <3>1, <3>2 DEF KeepsNames
    <3> DEFINE x == kept[l + k]
    <3>4. Has(k, x)
      BY <2>3
    <3> HIDE DEF x
    <3>5. Has(k + 1, Append(x, p[k + 1]))
      <4>1. n \in Nat /\ k \in Nat
        BY <2>1
      <4> DEFINE y == Append(x, p[k + 1])
      <4>2. /\ y \in Seq(Name) /\ Len(y) = n + k + 1 /\ y[n + k + 1] = p[k + 1]
            /\ \A j \in 1..(n + k) : y[j] = x[j]
        <5> DEFINE m == n + k
                   e == p[k + 1]
        <5>1. x \in Seq(Name) /\ Len(x) = m /\ m \in Nat /\ e \in Name
          BY <3>2, <3>4, <4>1
        <5> HIDE DEF m, e
        <5>2. /\ Append(x, e) \in Seq(Name) /\ Len(Append(x, e)) = m + 1 /\ Append(x, e)[m + 1] = e
              /\ \A j \in 1..m : Append(x, e)[j] = x[j]
          BY ONLY <5>1
        <5> QED BY <5>2 DEF m, e
      <4> HIDE DEF y, n
      <4>3. Len(y) = n + (k + 1)
        BY <4>1, <4>2
      <4>4. \A j \in 1..n : y[j] = stack[j]
        BY <3>4, <4>1, <4>2
      <4>5. ASSUME NEW j \in 1..(k + 1) PROVE y[n + j] = p[j]
        <5>1. CASE j = k + 1
          BY <4>1, <4>2, <5>1
        <5>2. CASE j \in 1..k
          <6>1. n + j \in 1..(n + k)
            BY <4>1, <5>2
          <6> QED BY <3>4, <4>2, <5>2, <6>1
        <5> QED BY <4>1, <5>1, <5>2
      <4> QED BY <4>2, <4>3, <4>4, <4>5 DEF y
    <3>6. k + 1 \in 0..Len(p)
      BY <3>1
    <3> QED BY <3>3, <3>5, <3>6 DEF x
  <2>4. Len(p) \in S
    <3>1. Len(p) \in 0..Len(p)
      BY <2>1
    <3> HIDE DEF S
    <3> QED BY <2>1, <2>2, <2>3, <3>1, CountUp
  <2> DEFINE x == kept[l + Len(p)]
             y == stack \o p
  <2>5. Has(Len(p), x) /\ n \in Nat
    BY <2>4
  <2>6. y \in Seq(Name) /\ Len(y) = n + Len(p)
    BY <2>1
  <2>7. (\A j \in 1..n : y[j] = stack[j]) /\ \A j \in 1..Len(p) : y[n + j] = p[j]
    BY <2>1
  <2> HIDE DEF x, y, n
  <2>8. ASSUME NEW i \in 1..(n + Len(p)) PROVE x[i] = y[i]
    <3>1. i \in 1..n \/ (i - n \in 1..Len(p) /\ i = n + (i - n))
      BY <2>1, <2>5
    <3> QED BY <2>5, <2>7, <3>1, ZenonT(30)
  <2>9. x = y
    BY <2>5, <2>6, <2>8
  <2> QED BY <2>1, <2>9 DEF x, y
<1> QED BY <1>1, <1>2

\* The string made of a prefix and a path, with or without a slash at its end.
Made(s, c, p) ==
  /\ s \in Seq(Name \cup {<<>>})
  /\ \A i \in 1..Len(c) : s[i] = c[i]
  /\ \A i \in 1..Len(p) : s[Len(c) + i] = p[i]
  /\ \/ Len(s) = Len(c) + Len(p)
     \/ Len(s) = Len(c) + Len(p) + 1 /\ s[Len(s)] = <<>>

LEMMA CleanMade ==
  ASSUME NEW c \in Configured, c # Empty, NEW p \in Plain \cup {Empty}, NEW s, Made(s, c, p)
  PROVE  Clean(s) = Base(c) \o Added(p)
<1> DEFINE b == Base(c)
           n == Len(b)
           r == Root(c)
<1>1. Shaped(c, b, n, r)
  BY PrefixShape
<1>2. c \in Seq(Name \cup {<<>>}) /\ p \in Seq(Name \cup {<<>>}) /\ Len(p) > 0 /\ Len(p) \in Nat
  <2>1. Empty \in Seq(Name \cup {<<>>}) /\ Len(Empty) = 1
    BY DEF Empty
  <2>2. p \in Plain => p \in Seq(Name \cup {<<>>}) /\ Len(p) > 0 /\ Len(p) \in Nat
    BY PlainTypes
  <2>3. c \in Seq(Name \cup {<<>>})
    BY <1>1 DEF Shaped
  <2>4. p \in Plain \/ p = Empty
    OBVIOUS
  <2>5. CASE p = Empty
    <3>1. Len(p) = 1 /\ p \in Seq(Name \cup {<<>>})
      BY ONLY <2>1, <2>5, Zenon
    <3> QED BY <2>3, <3>1
  <2> QED BY <2>2, <2>3, <2>4, <2>5
<1> HIDE DEF b, r
<1>3. /\ s \in Seq(Name \cup {<<>>}) /\ Len(c) \in Nat /\ Len(s) >= Len(c) + Len(p)
      /\ \A i \in 1..Len(c) : s[i] = c[i]
      /\ \A i \in 1..Len(p) : s[Len(c) + i] = p[i]
  BY <1>2 DEF Made
<1>4. PICK kept : /\ KeepsNames(s, kept)
                  /\ kept[Len(s)] # <<>> =>
                       Clean(s) = IF IsRooted(s) THEN << <<>> >> \o kept[Len(s)] ELSE kept[Len(s)]
  BY <1>3, CleanKeepsNames
<1>5. kept[Len(c)] = SubSeq(b, r + 1, n)
  <2>1. Len(c) <= Len(s)
    BY <1>2, <1>3
  <2> QED BY <1>1, <1>3, <1>4, <2>1, PrefixKeeps
<1>6. /\ b \in Seq(Name \cup {<<>>}) /\ n = Len(b) /\ n \in Nat /\ r \in {0, 1} /\ r < n
      /\ SubSeq(b, r + 1, n) \in Seq(Name) /\ Len(SubSeq(b, r + 1, n)) = n - r
  <2>1. \A i \in (r + 1)..n : b[i] \in Name
    BY <1>1 DEF Shaped
  <2> QED BY <1>1, <2>1 DEF Shaped
<1>7. kept[Len(s)] = SubSeq(b, r + 1, n) \o Added(p)
  <2> DEFINE m == Len(c) + Len(p)
  <2>1. kept[m] = SubSeq(b, r + 1, n) \o Added(p)
    BY <1>3, <1>4, <1>5, <1>6, PathKeeps
  <2>2. Len(s) = m \/ (Len(s) = m + 1 /\ s[m + 1] = <<>>)
    BY DEF Made
  <2>3. m + 1 = Len(s) => m + 1 \in 1..Len(s) /\ (m + 1) - 1 = m
    BY <1>2, <1>3
  <2> HIDE DEF m
  <2>4. Len(s) = m + 1 /\ s[m + 1] = <<>> => kept[m + 1] = kept[m]
    BY <1>4, <2>3 DEF KeepsNames
  <2> QED BY <2>1, <2>2, <2>4
<1>8. Added(p) \in Seq(Name)
  BY PlainTypes DEF Added
<1>9. kept[Len(s)] # <<>>
  <2>1. Len(SubSeq(b, r + 1, n) \o Added(p)) > 0
    BY <1>6, <1>8
  <2>2. Len(kept[Len(s)]) > 0
    BY <1>7, <2>1
  <2>3. \A x : x = <<>> => Len(x) = 0
    OBVIOUS
  <2> QED BY <2>2, <2>3
<1>10. IsRooted(s) <=> r = 1
  <2>1. Len(s) > 1 /\ s[1] = b[1]
    <3>1. Len(c) >= n /\ 1 \in 1..n /\ 1 \in 1..Len(c)
      BY <1>1, <1>3, <1>6 DEF Shaped
    <3>2. c[1] = b[1]
      BY <1>1, <3>1 DEF Shaped
    <3> QED BY <1>2, <1>3, <1>6, <3>1, <3>2
  <2>2. r = 0 => b[1] # <<>>
    BY <1>1, <1>6 DEF Shaped, Name
  <2>3. r = 1 => b[1] = <<>>
    BY <1>1 DEF Shaped
  <2> QED BY <1>6, <2>1, <2>2, <2>3 DEF IsRooted
<1>11. CASE r = 0
  <2>1. SubSeq(b, r + 1, n) = b
    BY <1>6, <1>11, SubSeqFull
  <2>2. Clean(s) = kept[Len(s)]
    BY <1>4, <1>9, <1>10, <1>11
  <2> QED BY <1>7, <2>1, <2>2 DEF b
<1>12. CASE r = 1
  <2>1. << <<>> >> \o SubSeq(b, 2, n) = b
    <3>1. b[1] = <<>>
      BY <1>1, <1>12 DEF Shaped
    <3> QED BY <1>6, <1>12, <3>1
  <2>2. << <<>> >> \o (SubSeq(b, 2, n) \o Added(p)) = (<< <<>> >> \o SubSeq(b, 2, n)) \o Added(p)
    <3>2. << <<>> >> \in Seq(Name \cup {<<>>}) /\ SubSeq(b, 2, n) \in Seq(Name \cup {<<>>})
          /\ Added(p) \in Seq(Name \cup {<<>>})
      BY <1>6, <1>8, <1>12
    <3> DEFINE x == << <<>> >>
               y == SubSeq(b, 2, n)
               z == Added(p)
    <3> HIDE DEF x, y, z
    <3>3. x \o (y \o z) = (x \o y) \o z
      <4>1. x \in Seq(Name \cup {<<>>}) /\ y \in Seq(Name \cup {<<>>})
            /\ z \in Seq(Name \cup {<<>>})
        BY <3>2 DEF x, y, z
      <4> QED BY ONLY <4>1, ConcatAssociative
    <3> QED BY <3>3 DEF x, y, z
  <2>3. Clean(s) = << <<>> >> \o kept[Len(s)]
    BY <1>4, <1>9, <1>10, <1>12
  <2>4. kept[Len(s)] = SubSeq(b, 2, n) \o Added(p)
    BY <1>7, <1>12
  <2> QED BY <2>1, <2>2, <2>3, <2>4 DEF b
<1> QED BY <1>6, <1>11, <1>12

\* The key of a path, and of a path with a slash at its end.
LEMMA CleanJoins ==
  ASSUME NEW c \in Configured, c # Empty
  PROVE  /\ \A p \in Plain \cup {Empty} : Clean(c \o p) = Base(c) \o Added(p)
         /\ \A p \in Plain : Clean(c \o Slashed(p)) = Base(c) \o p
<1> DEFINE T == Name \cup {<<>>}
           e == <<>>
<1>1. c \in Seq(T)
  BY PrefixShape DEF Shaped
<1>2. \A p \in Plain \cup {Empty} : p \in Seq(T)
  <2>1. Empty \in Seq(T)
    BY DEF Empty
  <2> QED BY <2>1, PlainTypes
<1>3. e \in T
  OBVIOUS
<1> HIDE DEF T, e
<1>4. ASSUME NEW p \in Plain \cup {Empty} PROVE Clean(c \o p) = Base(c) \o Added(p)
  <2>1. p \in Seq(T)
    BY <1>2
  <2>2. Made(c \o p, c, p)
    BY <1>1, <2>1 DEF Made, T
  <2> QED BY <2>2, CleanMade
<1>5. ASSUME NEW p \in Plain PROVE Clean(c \o Slashed(p)) = Base(c) \o p
  <2>1. p \in Seq(T) /\ p # Empty
    BY <1>2, PlainTypes DEF Empty
  <2>2. /\ Append(p, e) \in Seq(T) /\ Len(Append(p, e)) = Len(p) + 1 /\ Len(p) \in Nat
        /\ Append(p, e)[Len(p) + 1] = e /\ \A i \in 1..Len(p) : Append(p, e)[i] = p[i]
    BY <1>3, <2>1
  <2> DEFINE q == Append(p, e)
             s == c \o q
  <2> HIDE DEF q
  <2>3. /\ s \in Seq(T) /\ Len(s) = Len(c) + Len(q) /\ Len(c) \in Nat
        /\ \A i \in 1..Len(c) : s[i] = c[i]
        /\ \A i \in 1..Len(q) : s[Len(c) + i] = q[i]
    BY <1>1, <2>2 DEF q
  <2> HIDE DEF s
  <2>4. \A i \in 1..Len(p) : s[Len(c) + i] = p[i]
    BY <2>2, <2>3 DEF q
  <2>5. Len(s) = Len(c) + Len(p) + 1 /\ s[Len(s)] = e
    BY <2>2, <2>3 DEF q
  <2>6. Made(s, c, p)
    BY <2>3, <2>4, <2>5 DEF Made, T, e
  <2>7. Clean(s) = Base(c) \o Added(p)
    BY <2>6, CleanMade
  <2> QED BY <2>1, <2>7 DEF s, q, e, Slashed, Added
<1> QED BY <1>4, <1>5

Spelled == Seq(Name \cup {<<>>})

\* The part of a key that does not come from the path.
Above(c) == IF c = Empty THEN <<>> ELSE Base(c)

LEMMA SpelledTypes ==
  ASSUME NEW p \in Spelled
  PROVE  /\ Len(p) \in Nat /\ DOMAIN p = 1..Len(p) /\ p \in Seq(Seq(Letters))
         /\ \A i \in 1..Len(p) : p[i] \in Seq(Letters)
<1>1. (\A x \in Name : x \in Seq(Letters)) /\ <<>> \in Seq(Letters)
  BY DEF Name
<1>2. p \in Seq(Name \cup {<<>>})
  BY DEF Spelled
<1>3. Len(p) \in Nat /\ DOMAIN p = 1..Len(p) /\ \A i \in 1..Len(p) : p[i] \in Name \cup {<<>>}
  BY <1>2
<1>4. ASSUME NEW i \in 1..Len(p) PROVE p[i] \in Seq(Letters)
  <2>1. p[i] \in Name \/ p[i] = <<>>
    BY <1>3
  <2> QED BY <1>1, <2>1
<1>5. p \in Seq(Seq(Letters))
  BY <1>2, <1>4
<1> QED BY <1>3, <1>4, <1>5

LEMMA PlainSpelled ==
  ASSUME NEW p \in Plain
  PROVE  p \in Spelled /\ Len(p) \in Nat \ {0} /\ p[1] # <<>> /\ p[Len(p)] # <<>>
<1>1. Len(p) \in Nat /\ Len(p) > 0 /\ 1 \in 1..Len(p) /\ Len(p) \in 1..Len(p)
  BY PlainTypes
<1> QED BY <1>1, PlainTypes DEF Spelled

\* The key of a path that is no empty string.
LEMMA KeyIs ==
  ASSUME NEW c \in Configured, NEW p \in Plain
  PROVE  Above(c) \in Spelled /\ fullKey(c, p) = Above(c) \o p
<1>1. CASE c = Empty
  <2>1. p \in Seq(Name)
    BY PlainTypes
  <2>2. <<>> \o p = p
    BY <2>1
  <2> QED BY <1>1, <2>2 DEF Above, fullKey, Spelled
<1>2. CASE c # Empty
  <2>1. p # Empty
    BY PlainSpelled DEF Empty
  <2>2. Base(c) \in Spelled
    BY <1>2, PrefixShape DEF Shaped, Spelled
  <2> QED BY <1>2, <2>1, <2>2, CleanJoins DEF Above, fullKey, Added
<1> QED BY <1>1, <1>2

LEMMA PrefixOfItself ==
  ASSUME NEW x \in Seq(Letters)
  PROVE  IsPrefix(x, x) /\ IsPrefix(<<>>, x)
<1>1. SubSeq(<<>>, 1, 0) = <<>> /\ SubSeq(x, 1, 0) = <<>> /\ Len(<<>>) = 0 /\ Len(x) \in Nat
  BY SubSeqEmpty
<1> QED BY <1>1 DEF IsPrefix

\* The same string in front changes nothing.
LEMMA Lifted ==
  ASSUME NEW b \in Spelled, NEW p \in Spelled, NEW q \in Spelled, Len(q) > 0
  PROVE  HasPrefix(b \o p, b \o q) <=> HasPrefix(p, q)
<1> DEFINE n == Len(b)
           s == b \o p
           t == b \o q
<1>1. n \in Nat /\ Len(p) \in Nat /\ Len(q) \in Nat
  BY SpelledTypes
<1>2. /\ Len(s) = n + Len(p) /\ Len(t) = n + Len(q)
      /\ \A i \in 1..n : s[i] = b[i] /\ t[i] = b[i]
      /\ \A i \in 1..Len(p) : s[n + i] = p[i]
      /\ \A i \in 1..Len(q) : t[n + i] = q[i]
  BY DEF Spelled
<1> HIDE DEF n, s, t
<1>3. Len(t) <= Len(s) <=> Len(q) <= Len(p)
  BY <1>1, <1>2
<1>4. ASSUME Len(q) <= Len(p)
      PROVE  (\A i \in 1..(Len(t) - 1) : s[i] = t[i]) <=> (\A i \in 1..(Len(q) - 1) : p[i] = q[i])
  <2>1. ASSUME NEW i \in 1..(Len(q) - 1) PROVE n + i \in 1..(Len(t) - 1) /\ i \in 1..Len(p) /\ i \in 1..Len(q)
    BY <1>1, <1>2, <1>4
  <2>2. ASSUME NEW i \in 1..(Len(t) - 1)
        PROVE  i \in 1..n \/ (i - n \in 1..(Len(q) - 1) /\ i = n + (i - n))
    BY <1>1, <1>2
  <2>3. \A i \in 1..(Len(q) - 1) : s[n + i] = p[i] /\ t[n + i] = q[i]
    BY <1>2, <2>1
  <2>4. ASSUME \A i \in 1..(Len(q) - 1) : p[i] = q[i], NEW i \in 1..(Len(t) - 1)
        PROVE  s[i] = t[i]
    BY <1>2, <2>2, <2>3, <2>4, SMTT(30)
  <2>5. ASSUME \A i \in 1..(Len(t) - 1) : s[i] = t[i], NEW i \in 1..(Len(q) - 1)
        PROVE  p[i] = q[i]
    BY <2>1, <2>3, <2>5
  <2> QED BY <2>4, <2>5
<1>5. ASSUME Len(q) <= Len(p) PROVE s[Len(t)] = p[Len(q)] /\ t[Len(t)] = q[Len(q)]
  <2>1. Len(q) \in 1..Len(q) /\ Len(q) \in 1..Len(p)
    BY <1>1, <1>5
  <2> QED BY <1>2, <2>1
<1>6. HasPrefix(s, t) <=> HasPrefix(p, q)
  BY <1>3, <1>4, <1>5 DEF HasPrefix
<1> QED BY <1>6 DEF s, t

\* A key has its prefix, with and without the slash.
LEMMA KeyHasPrefix ==
  ASSUME NEW c \in Configured, NEW p \in Plain
  PROVE  /\ HasPrefix(fullKey(c, p), c)
         /\ c # Empty => HasPrefix(fullKey(c, p), Base(c))
<1> DEFINE s == fullKey(c, p)
           b == Above(c)
           n == Len(b)
<1>1. /\ b \in Spelled /\ s = b \o p /\ p \in Spelled
      /\ n \in Nat /\ Len(p) \in Nat \ {0}
  BY KeyIs, PlainSpelled, SpelledTypes
<1>2. /\ Len(s) = n + Len(p) /\ \A i \in 1..n : s[i] = b[i]
      /\ s[n + 1] = p[1] /\ p[1] \in Seq(Letters)
  <2>1. b \in Seq(Name \cup {<<>>}) /\ p \in Seq(Name \cup {<<>>})
    BY <1>1 DEF Spelled
  <2>2. 1 \in 1..Len(p)
    BY <1>1
  <2>3. p[1] \in Seq(Letters)
    BY <1>1, <2>2, SpelledTypes
  <2> HIDE DEF s, b
  <2> QED BY <1>1, <2>1, <2>2, <2>3
<1> HIDE DEF s
<1>3. CASE c = Empty
  <2>1. n = 0
    BY <1>3 DEF Above
  <2>2. Len(c) = 1 /\ c[1] = <<>>
    BY <1>3 DEF Empty
  <2> HIDE DEF b, n
  <2>3. HasPrefix(s, c)
    BY <1>1, <1>2, <2>1, <2>2, PrefixOfItself DEF HasPrefix
  <2> QED BY <1>3, <2>3 DEF s
<1>4. CASE c # Empty
  <2>1. b = Base(c) /\ Shaped(c, b, n, Root(c))
    BY <1>4, PrefixShape DEF Above
  <2> HIDE DEF b, n
  <2>2. /\ n = Len(b) /\ n > 0 /\ \A i \in 1..n : c[i] = b[i]
        /\ Len(c) = n \/ (Len(c) = n + 1 /\ c[n + 1] = <<>>)
    BY <1>1, <2>1 DEF Shaped
  <2>3. n \in 1..n /\ b[n] \in Seq(Letters)
    BY <1>1, <2>2, SpelledTypes
  <2>4. HasPrefix(s, b)
    BY <1>1, <1>2, <2>2, <2>3, PrefixOfItself DEF HasPrefix
  <2>5. CASE Len(c) = n
    BY <1>1, <1>2, <2>1, <2>2, <2>3, <2>4, <2>5, PrefixOfItself DEF HasPrefix, s
  <2>6. CASE Len(c) = n + 1 /\ c[n + 1] = <<>>
    <3>1. \A i \in 1..(Len(c) - 1) : s[i] = c[i]
      BY <1>1, <1>2, <2>2, <2>6
    <3>2. Len(c) <= Len(s) /\ IsPrefix(c[Len(c)], s[Len(c)])
      BY <1>1, <1>2, <2>6, PrefixOfItself
    <3> QED BY <2>1, <2>4, <3>1, <3>2 DEF HasPrefix, s
  <2> QED BY <2>2, <2>5, <2>6
<1> QED BY <1>3, <1>4

\* What TrimPrefix leaves of a string that ends in another.
EndsAt(s, m, p) ==
  /\ s \in Spelled /\ p \in Spelled /\ Len(p) > 0
  /\ m \in Nat /\ Len(s) = m + Len(p)
  /\ \A i \in 1..Len(p) : s[m + i] = p[i]

LEMMA CutAt ==
  ASSUME NEW s, NEW m, NEW p, EndsAt(s, m, p)
  PROVE  /\ << SubSeq(s[m + 1], 1, Len(s[m + 1])) >> \o SubSeq(s, m + 2, Len(s)) = p
         /\ SubSeq(s, m + 1, Len(s)) = p
<1>0. /\ s \in Spelled /\ p \in Spelled /\ Len(p) > 0
      /\ m \in Nat /\ Len(s) = m + Len(p)
      /\ \A i \in 1..Len(p) : s[m + i] = p[i]
  BY DEF EndsAt
<1> DEFINE l == Len(p)
           x == SubSeq(s[m + 1], 1, Len(s[m + 1]))
           y == SubSeq(s, m + 2, Len(s))
           z == SubSeq(s, m + 1, Len(s))
           w == << x >> \o y
           T == Seq(Letters)
<1>1. /\ l \in Nat /\ l > 0 /\ p \in Seq(T) /\ s \in Seq(T)
      /\ s[m + 1] = p[1] /\ p[1] \in T
  <2>1. 1 \in 1..Len(p)
    BY <1>0, SpelledTypes
  <2> QED BY <1>0, <2>1, SpelledTypes
<1>2. x = p[1]
  BY <1>1, SubSeqFull
<1>3. y \in Seq(T) /\ Len(y) = l - 1 /\ \A i \in 1..(l - 1) : y[i] = p[i + 1]
  <2>1. Len(s) = m + l
    BY <1>0
  <2> HIDE DEF l, T
  <2>2. y \in Seq(T) /\ Len(y) = l - 1 /\ \A i \in 1..(l - 1) : y[i] = s[(m + 2) + i - 1]
    BY <1>0, <1>1, <2>1
  <2>3. ASSUME NEW i \in 1..(l - 1) PROVE s[(m + 2) + i - 1] = p[i + 1]
    <3>1. i + 1 \in 1..Len(p) /\ (m + 2) + i - 1 = m + (i + 1)
      BY <1>0, <1>1 DEF l
    <3> QED BY <1>0, <3>1
  <2> QED BY <2>2, <2>3
<1>4. z \in Seq(T) /\ Len(z) = l /\ \A i \in 1..l : z[i] = p[i]
  <2>1. Len(s) = m + l
    BY <1>0
  <2> HIDE DEF l, T
  <2>2. z \in Seq(T) /\ Len(z) = l /\ \A i \in 1..l : z[i] = s[(m + 1) + i - 1]
    BY <1>0, <1>1, <2>1
  <2>3. ASSUME NEW i \in 1..l PROVE s[(m + 1) + i - 1] = p[i]
    <3>1. i \in 1..Len(p) /\ (m + 1) + i - 1 = m + i
      BY <1>0, <1>1 DEF l
    <3> QED BY <1>0, <3>1
  <2> QED BY <2>2, <2>3
<1> HIDE DEF x, y, z, l, T
<1>5. w \in Seq(T) /\ Len(w) = l /\ w[1] = x /\ \A i \in 1..(l - 1) : w[i + 1] = y[i]
  BY <1>1, <1>2, <1>3
<1> HIDE DEF w
<1>6. w = p
  <2>1. ASSUME NEW i \in 1..l PROVE w[i] = p[i]
    <3>1. CASE i = 1
      BY <1>2, <1>5, <3>1
    <3>2. CASE i # 1
      <4>1. i - 1 \in 1..(l - 1) /\ (i - 1) + 1 = i
        BY <1>1, <3>2
      <4> QED BY <1>3, <1>5, <4>1
    <3> QED BY <3>1, <3>2
  <2>2. Len(p) = l
    BY DEF l
  <2> QED BY <1>1, <1>5, <2>1, <2>2
<1>7. z = p
  <2>1. Len(p) = l
    BY DEF l
  <2> QED BY <1>1, <1>4, <2>1
<1> QED BY <1>6, <1>7 DEF w, x, y, z

LEMMA TrimsAt ==
  ASSUME NEW s, NEW m, NEW p, EndsAt(s, m, p),
         NEW t, HasPrefix(s, t), Len(t) = m + 1, t[m + 1] = <<>>
  PROVE  TrimPrefix(s, t) = p
<1>1. << SubSeq(s[m + 1], 1, Len(s[m + 1])) >> \o SubSeq(s, m + 2, Len(s)) = p
  BY CutAt
<1>2. Len(t) + 1 = m + 2
  BY DEF EndsAt
<1>3. Len(t[Len(t)]) + 1 = 1
  <2>1. \A x : x = <<>> => Len(x) = 0
    OBVIOUS
  <2> QED BY <2>1
<1>4. SubSeq(s[Len(t)], Len(t[Len(t)]) + 1, Len(s[Len(t)])) = SubSeq(s[m + 1], 1, Len(s[m + 1]))
  BY <1>3
<1>5. SubSeq(s, Len(t) + 1, Len(s)) = SubSeq(s, m + 2, Len(s))
  BY <1>2
<1> QED BY <1>1, <1>4, <1>5, Zenon DEF TrimPrefix

\* A path comes back from its key.
LEMMA ReadsBack ==
  ASSUME NEW c \in Configured, NEW p \in Plain
  PROVE  relPath(c, fullKey(c, p)) = p
<1> DEFINE s == fullKey(c, p)
           b == Above(c)
           n == Len(b)
<1>1. /\ b \in Spelled /\ s = b \o p /\ p \in Spelled
      /\ n \in Nat /\ Len(p) \in Nat \ {0} /\ p[1] # <<>>
  BY KeyIs, PlainSpelled, SpelledTypes
<1>2. /\ s \in Spelled /\ Len(s) = n + Len(p)
      /\ \A i \in 1..n : s[i] = b[i]
      /\ \A i \in 1..Len(p) : s[n + i] = p[i]
  <2>1. b \in Seq(Name \cup {<<>>}) /\ p \in Seq(Name \cup {<<>>})
    BY <1>1 DEF Spelled
  <2> HIDE DEF s, b
  <2> QED BY <1>1, <2>1 DEF Spelled
<1>3. HasPrefix(s, c)
  BY KeyHasPrefix
<1>4. TrimPrefix(p, Slash) = p
  <2>1. ~HasPrefix(p, Slash)
    <3>1. Len(Slash) = 2 /\ Slash[1] = <<>> /\ 1 \in 1..(Len(Slash) - 1)
      BY DEF Slash
    <3> QED BY <1>1, <3>1 DEF HasPrefix
  <2> QED BY <2>1 DEF TrimPrefix
<1> HIDE DEF s
<1>5. EndsAt(s, n, p)
  BY <1>1, <1>2 DEF EndsAt
<1>6. CASE c = Empty
  <2>1. n = 0
    BY <1>6 DEF Above
  <2>2. Len(c) = 1 /\ c[1] = <<>>
    BY <1>6 DEF Empty
  <2> HIDE DEF b, n
  <2>3. Len(c) = n + 1 /\ c[n + 1] = <<>>
    BY <2>1, <2>2
  <2>4. TrimPrefix(s, c) = p
    BY <1>3, <1>5, <2>3, TrimsAt
  <2> QED BY <1>4, <2>4 DEF relPath, s
<1>7. CASE c # Empty
  <2>1. b = Base(c) /\ Shaped(c, b, n, Root(c))
    BY <1>7, PrefixShape DEF Above
  <2> HIDE DEF b, n
  <2>2. /\ n = Len(b) /\ n > 0 /\ \A i \in 1..n : c[i] = b[i]
        /\ Len(c) = n \/ (Len(c) = n + 1 /\ c[n + 1] = <<>>)
    BY <1>1, <2>1 DEF Shaped
  <2>3. CASE Len(c) = n + 1 /\ c[n + 1] = <<>>
    <3>3. TrimPrefix(s, c) = p
      BY <1>3, <1>5, <2>3, TrimsAt
    <3> QED BY <1>4, <3>3 DEF relPath, s
  <2>4. CASE Len(c) = n
    <3> DEFINE t == << <<>> >> \o p
    <3>1. n \in 1..n /\ b[n] \in Seq(Letters)
      BY <1>1, <2>2, SpelledTypes
    <3>2. c[Len(c)] = b[n] /\ s[Len(c)] = b[n]
      BY <1>2, <2>2, <2>4, <3>1
    <3>3. SubSeq(b[n], Len(b[n]) + 1, Len(b[n])) = <<>>
      <4>1. Len(b[n]) \in Nat
        BY <3>1
      <4> QED BY <3>1, <4>1
    <3>4. SubSeq(s, n + 1, Len(s)) = p
      BY <1>5, CutAt
    <3>5. TrimPrefix(s, c) = t
      BY <1>3, <2>4, <3>2, <3>3, <3>4 DEF TrimPrefix
    <3>6. /\ t \in Spelled /\ Len(t) = 1 + Len(p) /\ t[1] = <<>>
          /\ \A i \in 1..Len(p) : t[1 + i] = p[i]
      BY <1>1 DEF Spelled
    <3> HIDE DEF t
    <3>7. Len(Slash) = 2 /\ Slash[1] = <<>> /\ Slash[2] = <<>>
      BY DEF Slash
    <3>8. HasPrefix(t, Slash)
      <4>1. Len(t) >= 2 /\ 2 \in 1..Len(t)
        BY <1>1, <3>6
      <4>2. IsPrefix(Slash[2], t[2])
        BY <3>6, <3>7, <4>1, SpelledTypes, PrefixOfItself
      <4>3. \A i \in 1..(Len(Slash) - 1) : t[i] = Slash[i]
        BY <3>6, <3>7
      <4> QED BY <3>7, <4>1, <4>2, <4>3 DEF HasPrefix
    <3>9. EndsAt(t, 1, p)
      BY <1>1, <3>6 DEF EndsAt
    <3>10. TrimPrefix(t, Slash) = p
      <4>1. Len(Slash) = 1 + 1 /\ Slash[1 + 1] = <<>>
        BY <3>7
      <4> QED BY <3>8, <3>9, <4>1, TrimsAt
    <3> QED BY <3>5, <3>10 DEF relPath, s
  <2> QED BY <2>2, <2>3, <2>4
<1> QED BY <1>6, <1>7

\* The key of a directory named with a slash.
LEMMA SlashedKey ==
  ASSUME NEW c \in Configured, NEW p \in Plain
  PROVE  /\ Slashed(p) \in Spelled /\ Len(Slashed(p)) = Len(p) + 1
         /\ Len(p) \in Nat \ {0} /\ Front(Slashed(p)) = p /\ EndsInSlash(Slashed(p))
         /\ c = Empty => fullKey(c, Slashed(p)) = Slashed(p)
         /\ c # Empty => fullKey(c, Slashed(p)) = Above(c) \o p
<1> DEFINE T == Name \cup {<<>>}
           e == <<>>
<1>1. p \in Seq(T) /\ e \in T /\ Len(p) \in Nat \ {0}
  BY PlainSpelled DEF Spelled
<1> HIDE DEF T, e
<1>2. /\ Append(p, e) \in Seq(T) /\ Len(Append(p, e)) = Len(p) + 1
      /\ Append(p, e)[Len(p) + 1] = e /\ SubSeq(Append(p, e), 1, Len(p)) = p
  BY <1>1
<1>3. Front(Append(p, e)) = p /\ EndsInSlash(Append(p, e))
  <2>1. Len(Append(p, e)) - 1 = Len(p) /\ Len(Append(p, e)) > 1
    BY <1>1, <1>2
  <2> QED BY <1>2, <2>1 DEF Front, EndsInSlash, Last, e
<1>4. c # Empty => fullKey(c, Slashed(p)) = Above(c) \o p
  BY CleanJoins DEF fullKey, Above
<1> QED BY <1>1, <1>2, <1>3, <1>4 DEF Slashed, fullKey, Spelled, T, e

\* A query is empty, a clean path, or a clean path with a slash.
LEMMA Queried ==
  ASSUME NEW q \in Queries
  PROVE  q \in Plain \cup {Empty} \/ \E p \in Plain : q = Slashed(p)
<1>1. ASSUME q \in Strings, EndsInSlash(q), Front(q) \in Plain
      PROVE  q = Slashed(Front(q))
  <2> DEFINE T == Seq(Letters)
             n == Len(q) - 1
             e == <<>>
             x == Append(SubSeq(q, 1, n), e)
  <2>1. q \in Seq(T) /\ e \in T /\ n \in Nat /\ Len(q) = n + 1 /\ q[n + 1] = e
    BY <1>1 DEF Strings, EndsInSlash, Last
  <2> HIDE DEF T, n, e
  <2>2. SubSeq(q, 1, n) \in Seq(T) /\ Len(SubSeq(q, 1, n)) = n /\ \A i \in 1..n : SubSeq(q, 1, n)[i] = q[i]
    BY <2>1
  <2>3. x \in Seq(T) /\ Len(x) = n + 1 /\ x[n + 1] = e /\ \A i \in 1..n : x[i] = q[i]
    BY <2>1, <2>2
  <2> HIDE DEF x
  <2>4. ASSUME NEW i \in 1..(n + 1) PROVE x[i] = q[i]
    BY <2>1, <2>3
  <2>5. x = q
    BY <2>1, <2>3, <2>4
  <2> QED BY <2>5 DEF x, Slashed, Front, n, e
<1> QED BY <1>1, KeysAssumption

\* List and markers see the paths behind the keys.
LEMMA ListSees ==
  ASSUME NEW c \in Configured, NEW p \in Plain, NEW q \in Queries
  PROVE  p \in ListOf(c, q, {fullKey(c, p)}) <=> HasPrefix(p, Heard(c, q))
<1>1. p # Empty /\ relPath(c, fullKey(c, p)) = p
  BY PlainSpelled, ReadsBack DEF Empty
<1>2. p \in ListOf(c, q, {fullKey(c, p)}) <=> HasPrefix(fullKey(c, p), fullKey(c, q))
  BY <1>1 DEF ListOf
<1>3. CASE q = Empty
  <2>0. Heard(c, q) = q
    BY <1>3 DEF Heard, EndsInSlash, Empty
  <2>1. HasPrefix(p, q)
    <3>1. Len(q) = 1 /\ q[1] = <<>> /\ Len(p) >= 1 /\ 1 \in 1..Len(p)
      BY <1>3, PlainSpelled DEF Empty
    <3> QED BY <3>1, PlainTypes, PrefixOfItself DEF HasPrefix
  <2>2. CASE c = Empty
    BY <1>2, <1>3, <2>0, <2>1, <2>2 DEF fullKey
  <2>3. CASE c # Empty
    <3>1. Base(c) \in Spelled
      BY <2>3, PrefixShape DEF Shaped, Spelled
    <3>2. Base(c) \o <<>> = Base(c)
      BY <3>1 DEF Spelled
    <3>3. fullKey(c, q) = Base(c)
      BY <1>3, <2>3, <3>2, CleanJoins DEF fullKey, Added
    <3> QED BY <1>2, <2>0, <2>1, <2>3, <3>3, KeyHasPrefix
  <2> QED BY <2>2, <2>3
<1>4. CASE q \in Plain
  <2>1. Heard(c, q) = q
    <3>1. ~EndsInSlash(q)
      BY <1>4, PlainSpelled DEF EndsInSlash, Last
    <3> QED BY <3>1 DEF Heard
  <2>2. fullKey(c, p) = Above(c) \o p /\ fullKey(c, q) = Above(c) \o q /\ Above(c) \in Spelled
    BY <1>4, KeyIs
  <2>3. p \in Spelled /\ q \in Spelled /\ Len(q) > 0
    BY <1>4, PlainSpelled
  <2> QED BY <1>2, <2>1, <2>2, <2>3, Lifted
<1>5. ASSUME NEW d \in Plain, q = Slashed(d)
      PROVE  HasPrefix(fullKey(c, p), fullKey(c, q)) <=> HasPrefix(p, Heard(c, q))
  <2>1. /\ Front(q) = d /\ EndsInSlash(q)
        /\ c = Empty => fullKey(c, q) = q
        /\ c # Empty => fullKey(c, q) = Above(c) \o d
    BY <1>5, SlashedKey
  <2>2. CASE c = Empty
    BY <2>1, <2>2 DEF Heard, fullKey
  <2>3. CASE c # Empty
    <3>1. fullKey(c, p) = Above(c) \o p /\ Above(c) \in Spelled
      BY KeyIs
    <3>2. p \in Spelled /\ d \in Spelled /\ Len(d) > 0
      BY PlainSpelled
    <3>3. Heard(c, q) = d
      BY <2>1, <2>3 DEF Heard
    <3>4. HasPrefix(Above(c) \o p, Above(c) \o d) <=> HasPrefix(p, d)
      BY <3>1, <3>2, Lifted
    <3>5. fullKey(c, q) = Above(c) \o d
      BY <2>1, <2>3
    <3> QED BY <3>1, <3>3, <3>4, <3>5
  <2> QED BY <2>2, <2>3
<1> QED BY <1>2, <1>3, <1>4, <1>5, Queried

\* The marker of a directory ends in one slash, however the directory is named.
LEMMA MarkerIs ==
  ASSUME NEW c \in Configured, NEW p \in Plain
  PROVE  /\ MarkerKey(c, p) = Above(c) \o Slashed(p)
         /\ MarkerKey(c, Slashed(p)) = Above(c) \o Slashed(p)
         /\ MarkerKey(c, p) # fullKey(c, p)
<1> DEFINE b == Above(c)
           key == fullKey(c, p)
           T == Name \cup {<<>>}
           e == <<>>
<1>1. /\ b \in Seq(T) /\ p \in Seq(T) /\ key = b \o p /\ e \in T
      /\ Len(b) \in Nat /\ Len(p) \in Nat \ {0} /\ p[Len(p)] # e
  BY KeyIs, PlainSpelled, SpelledTypes DEF Spelled
<1> HIDE DEF b, key, T, e
<1>2. Len(key) = Len(b) + Len(p) /\ key[Len(key)] = p[Len(p)] /\ key \in Seq(T)
  BY <1>1
<1>3. MarkerKey(c, p) = Append(key, e)
  BY <1>1, <1>2 DEF MarkerKey, EndsInSlash, Last, key, e
<1>4. Append(key, e) = b \o Append(p, e)
  BY <1>1
<1>5. Append(key, e) # key
  <2>1. Len(Append(key, e)) = Len(key) + 1 /\ Len(key) \in Nat
    BY <1>1, <1>2
  <2> QED BY <2>1
<1>6. MarkerKey(c, Slashed(p)) = Append(key, e)
  <2>1. CASE c = Empty
    <3>1. b = <<>>
      BY <2>1 DEF b, Above
    <3>2. b \o Append(p, e) = Append(p, e)
      BY <1>1, <3>1
    <3> QED BY <1>4, <2>1, <3>2, SlashedKey DEF MarkerKey, Slashed, e
  <2>2. CASE c # Empty
    <3>1. fullKey(c, Slashed(p)) = key
      BY <1>1, <2>2, SlashedKey DEF b
    <3> QED BY <1>3, <3>1 DEF MarkerKey, key
  <2> QED BY <2>1, <2>2
<1> QED BY <1>3, <1>4, <1>5, <1>6 DEF b, key, e, Slashed

\* What a List in progress rests on, whatever the prefix of the backend is, and
\* whether the queried path ends in a slash or not: its paths lead back and forth
\* to its keys, and List selects by the query, less the slash where a prefix is
\* configured (fullKey, List, Mkdir).
THEOREM PathsLeadBack == HSpec => []PathsAndKeysAgree
<1>1. WrittenReadBack
  BY KeysAssumption, ReadsBack DEF WrittenReadBack
<1>2. ListSelects
  BY KeysAssumption, ListSees DEF ListSelects
<1>3. MarkersSelect
  <2>1. ASSUME NEW c \in Configured, NEW p \in Plain, NEW q \in Queries, q # Empty,
               HasPrefix(fullKey(c, p), MarkerKey(c, q))
        PROVE  HasPrefix(p, IF EndsInSlash(q) THEN q ELSE Slashed(q))
    <3>1. PICK d \in Plain : q = d \/ q = Slashed(d)
      BY <2>1, Queried
    <3>2. (IF EndsInSlash(q) THEN q ELSE Slashed(q)) = Slashed(d)
      <4>1. ~EndsInSlash(d) /\ EndsInSlash(Slashed(d))
        BY PlainSpelled, SlashedKey DEF EndsInSlash, Last
      <4> QED BY <3>1, <4>1
    <3>3. MarkerKey(c, q) = Above(c) \o Slashed(d)
      BY <3>1, MarkerIs
    <3>4. fullKey(c, p) = Above(c) \o p /\ Above(c) \in Spelled /\ p \in Spelled
      BY KeyIs, PlainSpelled
    <3>5. Slashed(d) \in Spelled /\ Len(Slashed(d)) > 0
      BY SlashedKey
    <3> QED BY <2>1, <3>2, <3>3, <3>4, <3>5, Lifted
  <2> QED BY <2>1, KeysAssumption, MarkerIs DEF MarkersSelect
<1>4. PrefixKept
  BY KeysAssumption, KeyHasPrefix DEF PrefixKept
<1>5. PathsAndKeysAgree
  BY <1>1, <1>2, <1>3, <1>4 DEF PathsAndKeysAgree
<1> QED BY <1>5, PTL
=============================================================================
