--------------------------- MODULE SESSenderProofs ---------------------------
(***************************************************************************)
(* Proofs about the SES sender, for any number of senders, calls and       *)
(* attempts: its type invariant, that it implements MailSpec, and what its *)
(* errors say.                                                             *)
(***************************************************************************)
EXTENDS SESSender, FiniteSetTheorems, TLAPS

-----------------------------------------------------------------------------
(* Errors.                                                                 *)

LEMMA KindOfError == ASSUME NEW e PROVE Classify(e) \in Kinds
<1>1. ClassifyByStatus(e) \in Kinds
  BY DEF ClassifyByStatus, Kinds
<1>2. ASSUME e.code \in DOMAIN codeKinds PROVE codeKinds[e.code] \in Kinds
  BY <1>2 DEF codeKinds, Kinds
<1> QED BY <1>1, <1>2 DEF Classify, Kinds

LEMMA UnclearErrors ==
  Classify(NoAnswer) \notin Refusals /\ Classify(Truncated) \notin Refusals
    /\ Classify(Ok) \notin Refusals
<1>1. "none" \notin DOMAIN codeKinds
  BY DEF codeKinds
<1>2. ASSUME NEW e, e.code = "none", e.status = 0 \/ e.status = 200
      PROVE  Classify(e) \in {"Transient", "Unknown"}
  <2>1. Classify(e) = ClassifyByStatus(e)
    BY <1>1, <1>2 DEF Classify
  <2>2. e.status # 429 /\ e.status \notin {401, 403} /\ e.status \notin 500..599
    BY <1>2
  <2> QED BY <2>1, <2>2 DEF ClassifyByStatus
<1>3. Classify(NoAnswer) \in {"Transient", "Unknown"}
  BY <1>2 DEF NoAnswer, Error
<1>4. Classify(Truncated) \in {"Transient", "Unknown"}
  BY <1>2 DEF Truncated, Error
<1>5. Classify(Ok) \in {"Transient", "Unknown"}
  BY <1>2 DEF Ok, Error
<1> QED BY <1>3, <1>4, <1>5 DEF Refusals

-----------------------------------------------------------------------------
(* Tags and requests.                                                      *)

LEMMA ValidTags == ASSUME NEW t \in AnyTags, validateTags(t) PROVE t \in Tags
BY DEF AnyTags, Tags, validateTags

LEMMA MergedTags ==
  ASSUME NEW t \in Tags, NEW m \in Mails, validateTags(TagsOf[m])
  PROVE  messageTags(t, m) \in Tags
<1>1. TagsOf[m] \in Tags
  BY MailsAssumption, ValidTags
<1> QED BY <1>1 DEF messageTags, Tags

LEMMA KnownErrors ==
  ASSUME NEW e \in {Ok, Truncated} \cup Refused \cup Faults, Classify(e) \in Refusals
  PROVE  e \in Refused
BY UnclearErrors, MailsAssumption

-----------------------------------------------------------------------------
(* The invariant.                                                          *)

OneDefault == \A s \in Senders : \A t, u \in defaultTags[s] : t = u

\* A call goes through a sender that was made, and no further than it may try.
CallsOK ==
  \A g \in Sends :
    IF verdict[g] = "none" THEN call[g] = {} /\ tries[g] = 0
    ELSE \E s \in Senders, m \in Mails :
           /\ call[g] = {<<s, m>>} /\ defaultTags[s] # {}
           /\ tries[g] <= MaxAttempts[s]
           /\ tries[g] > 0 => m \in Ascii /\ validateTags(TagsOf[m])

Tried == \A g \in Sends : verdict[g] \in {"pending", "ok"} => tries[g] > 0

\* A request is that of its call, with the tags over the defaults of its sender.
RequestsOK ==
  \A r \in wire \cup outbox :
    /\ r.try <= tries[r.send]
    /\ \E s \in Senders : \E t \in defaultTags[s] :
         call[r.send] = {<<s, r.mail>>} /\ r.tags = messageTags(t, r.mail)

\* An attempt is one request, which is accepted once.
OneRequest ==
  /\ \A r, q \in wire \cup outbox : (r.send = q.send /\ r.try = q.try) => r = q
  /\ \A r \in wire : r \notin outbox

Current(r, g) == r.send = g /\ r.try = tries[g]

\* An answer is to the current attempt of a call, and tells what became of it.
RepliesOK ==
  \A p \in replies :
    /\ verdict[p.send] = "pending"
    /\ \A r \in wire : ~Current(r, p.send)
    /\ p.err \in {Ok, Truncated} => \E r \in outbox : Current(r, p.send)
    /\ p.err \in Refused => \A r \in outbox : ~Current(r, p.send)

VerdictsOK ==
  \A g \in Sends :
    /\ verdict[g] = "ok" => \E r \in outbox : r.send = g
    /\ verdict[g] \in Refusals /\ tries[g] > 0 =>
         \A r \in wire \cup outbox : ~Current(r, g)

IInv == TypeOK /\ CallsOK /\ Tried /\ OneDefault /\ RequestsOK /\ OneRequest /\ RepliesOK /\ VerdictsOK

LEMMA InitIInv == Init => IInv
<1> SUFFICES ASSUME Init PROVE IInv
  OBVIOUS
<1>1. TypeOK
  BY DEF Init, TypeOK
<1>2. OneDefault /\ CallsOK /\ Tried
  BY DEF Init, OneDefault, CallsOK, Tried
<1>3. RequestsOK /\ OneRequest /\ RepliesOK /\ VerdictsOK
  BY DEF Init, RequestsOK, OneRequest, RepliesOK, VerdictsOK, Refusals
<1> QED BY <1>1, <1>2, <1>3 DEF IInv

\* Steps of the caller.
LEMMA CallerSteps ==
  ASSUME IInv, ChangeConfig \/ (\E s \in Senders : New(s)) \/ (\E g \in Sends : Cancel(g))
  PROVE  IInv'
<1> USE DEF IInv
<1>1. CASE ChangeConfig
  BY <1>1 DEF ChangeConfig, TypeOK, CallsOK, Tried, OneDefault, RequestsOK, OneRequest, RepliesOK, VerdictsOK, Current
<1>2. ASSUME NEW s \in Senders, New(s) PROVE IInv'
  <2>1. TypeOK'
    BY <1>2, MailsAssumption, ValidTags DEF New, TypeOK
  <2>2. OneDefault'
    BY <1>2 DEF New, TypeOK, OneDefault
  <2>3. CallsOK'
    BY <1>2 DEF New, TypeOK, CallsOK
  <2>4. RequestsOK'
    BY <1>2 DEF New, TypeOK, RequestsOK
  <2>5. Tried' /\ OneRequest' /\ RepliesOK' /\ VerdictsOK'
    BY <1>2 DEF New, Tried, OneRequest, RepliesOK, VerdictsOK, Current
  <2> QED BY <2>1, <2>2, <2>3, <2>4, <2>5
<1>3. ASSUME NEW g \in Sends, Cancel(g) PROVE IInv'
  BY <1>3 DEF Cancel, TypeOK, CallsOK, Tried, OneDefault, RequestsOK, OneRequest, RepliesOK, VerdictsOK, Current
<1> QED BY <1>1, <1>2, <1>3

\* Send: the checks, and the first request of a call that passes them.
LEMMA SendStep ==
  ASSUME IInv, NEW g \in Sends, NEW s \in Senders, NEW m \in Mails, Send(g, s, m)
  PROVE  IInv'
<1> USE DEF IInv
<1>1. PICK t \in Tags : defaultTags[s] = {t}
  <2>1. PICK t \in defaultTags[s] : TRUE
    BY DEF Send
  <2>2. t \in Tags /\ defaultTags[s] = {t}
    BY DEF TypeOK, OneDefault
  <2> QED BY <2>2
<1>2. /\ call' = [call EXCEPT ![g] = {<<s, m>>}]
      /\ verdict' = [verdict EXCEPT ![g] = Checked(g, m)]
      /\ verdict[g] = "none" /\ call[g] = {} /\ tries[g] = 0
      /\ UNCHANGED <<configTags, defaultTags, cancelled, replies, outbox>>
  BY DEF Send, CallsOK
<1>3. Checked(g, m) \in {"cancelled", "InvalidAddress", "InvalidMessage", "pending"}
  BY DEF Checked
<1>4. verdict'[g] = Checked(g, m)
  BY <1>2 DEF TypeOK
<1>5. \A r \in wire \cup outbox : r.send # g
  BY <1>2 DEF TypeOK, Requests, RequestsOK
<1>a. /\ call' \in [Sends -> SUBSET (Senders \X Mails)]
      /\ verdict' \in [Sends -> Kinds \cup {"none", "pending", "ok", "cancelled"}]
  BY <1>2, <1>3 DEF TypeOK, Kinds
<1>b. /\ verdict'[g] # "none" /\ call'[g] = {<<s, m>>} /\ defaultTags'[s] # {}
      /\ \A h \in Sends \ {g} : verdict'[h] = verdict[h] /\ call'[h] = call[h]
  BY <1>1, <1>2, <1>3, <1>4 DEF TypeOK
<1>6. CASE Checked(g, m) # "pending"
  <2>1. UNCHANGED <<tries, wire>>
    BY <1>4, <1>6 DEF Send
  <2>2. TypeOK'
    BY <1>2, <1>a, <2>1 DEF TypeOK
  <2>3. CallsOK'
    <3>1. tries'[g] = 0 /\ 0 <= MaxAttempts[s]
      BY <1>2, <2>1, MailsAssumption
    <3> QED BY <1>2, <1>b, <2>1, <3>1 DEF CallsOK
  <2>4. Tried' /\ OneDefault' /\ OneRequest'
    BY <1>2, <1>3, <1>4, <1>6, <2>1 DEF TypeOK, Tried, OneDefault, OneRequest
  <2>5. RequestsOK'
    BY <1>2, <1>5, <2>1 DEF TypeOK, Requests, RequestsOK
  <2>6. RepliesOK'
    BY <1>2, <2>1 DEF TypeOK, RepliesOK, Current
  <2>7. VerdictsOK'
    BY <1>2, <1>3, <1>4, <1>6, <2>1 DEF TypeOK, VerdictsOK, Current
  <2> QED BY <2>2, <2>3, <2>4, <2>5, <2>6, <2>7
<1>7. CASE Checked(g, m) = "pending"
  <2> DEFINE c == Copy(g, 1, m, messageTags(t, m))
  <2>1. tries' = [tries EXCEPT ![g] = 1] /\ wire' = wire \cup {c}
    BY <1>1, <1>4, <1>7 DEF Send
  <2>2. m \in Ascii /\ validateTags(TagsOf[m])
    BY <1>7 DEF Checked
  <2>3. c \in Requests /\ c.send = g /\ c.try = 1 /\ c.mail = m /\ c.tags = messageTags(t, m)
    BY <2>2, MergedTags DEF Copy, Requests
  <2> HIDE DEF c
  <2>4. TypeOK'
    <3>1. tries' \in [Sends -> Nat]
      BY <2>1 DEF TypeOK
    <3> QED BY <1>2, <1>a, <2>1, <2>3, <3>1 DEF TypeOK
  <2>5. CallsOK'
    <3>1. tries'[g] = 1 /\ 1 <= MaxAttempts[s]
      BY <2>1, MailsAssumption DEF TypeOK
    <3>2. \A h \in Sends \ {g} : tries'[h] = tries[h]
      BY <2>1 DEF TypeOK
    <3> QED BY <1>2, <1>b, <2>2, <3>1, <3>2 DEF CallsOK
  <2>6. Tried' /\ OneDefault'
    BY <1>2, <1>7, <2>1 DEF TypeOK, Tried, OneDefault
  <2>7. RequestsOK'
    BY <1>1, <1>2, <1>5, <2>1, <2>3 DEF TypeOK, Requests, RequestsOK
  <2>8. OneRequest'
    BY <1>2, <1>5, <2>1, <2>3 DEF OneRequest
  <2>9. RepliesOK'
    BY <1>2, <2>1, <2>3 DEF TypeOK, RepliesOK, Current
  <2>10. VerdictsOK'
    BY <1>2, <1>4, <1>7, <2>1, <2>3 DEF TypeOK, VerdictsOK, Current, Refusals
  <2> QED BY <2>4, <2>5, <2>6, <2>7, <2>8, <2>9, <2>10
<1> QED BY <1>6, <1>7

\* Steps of the service and of the network.
LEMMA ServiceSteps ==
  ASSUME IInv, NEW r \in wire, Accept(r) \/ Refuse(r) \/ Drop(r)
  PROVE  IInv'
<1> USE DEF IInv
<1>1. /\ wire' = wire \ {r}
      /\ outbox' = outbox \/ outbox' = outbox \cup {r}
      /\ UNCHANGED <<configTags, defaultTags, call, verdict, cancelled, tries>>
  BY DEF Accept, Refuse, Drop
<1>2. r \in Requests
  BY DEF TypeOK
<1>3. ASSUME NEW p \in replies', p \notin replies
      PROVE  /\ p \in [send : Sends, err : {Ok, Truncated} \cup Refused \cup Faults]
             /\ verdict[p.send] = "pending" /\ Current(r, p.send)
             /\ p.err \in {Ok, Truncated} => r \in outbox'
             /\ p.err \in Refused => outbox' = outbox
  <2>1. CASE Accept(r)
    <3>1. PICK e \in {Ok, Truncated} \cup Faults : Answered(r, e)
      BY <2>1 DEF Accept
    <3>2. e \notin Refused
      BY UnclearErrors, MailsAssumption
    <3>3. p.send \in Sends /\ p.err = e /\ p = [send |-> p.send, err |-> e] /\ p.send = r.send
            /\ verdict[p.send] = "pending" /\ tries[p.send] = r.try
      BY <1>3, <3>1 DEF Answered
    <3> QED BY <2>1, <3>2, <3>3 DEF Accept, Current
  <2>2. CASE Refuse(r)
    <3>1. PICK e \in Refused \cup Faults : Answered(r, e)
      BY <2>2 DEF Refuse
    <3>2. e \notin {Ok, Truncated}
      BY UnclearErrors, MailsAssumption
    <3>3. p.send \in Sends /\ p.err = e /\ p = [send |-> p.send, err |-> e] /\ p.send = r.send
            /\ verdict[p.send] = "pending" /\ tries[p.send] = r.try
      BY <1>3, <3>1 DEF Answered
    <3> QED BY <2>2, <3>2, <3>3 DEF Refuse, Current
  <2> QED BY <1>3, <2>1, <2>2 DEF Drop
<1>4. TypeOK'
  <2>1. replies' \subseteq [send : Sends, err : {Ok, Truncated} \cup Refused \cup Faults]
    BY <1>3 DEF TypeOK
  <2> QED BY <1>1, <1>2, <2>1 DEF TypeOK
<1>5. CallsOK' /\ Tried' /\ OneDefault'
  BY <1>1 DEF CallsOK, Tried, OneDefault
<1>6. RequestsOK' /\ OneRequest'
  BY <1>1 DEF RequestsOK, OneRequest
<1>7. RepliesOK'
  <2> SUFFICES ASSUME NEW p \in replies'
               PROVE  /\ verdict[p.send] = "pending"
                      /\ \A q \in wire' : ~Current(q, p.send)
                      /\ p.err \in {Ok, Truncated} => \E q \in outbox' : Current(q, p.send)
                      /\ p.err \in Refused => \A q \in outbox' : ~Current(q, p.send)
    BY <1>1 DEF RepliesOK, Current
  <2>1. CASE p \in replies
    BY <1>1, <2>1 DEF RepliesOK
  <2>2. CASE p \notin replies
    BY <1>1, <1>3, <2>2 DEF OneRequest, Current
  <2> QED BY <2>1, <2>2
<1>8. VerdictsOK'
  BY <1>1 DEF VerdictsOK, Current
<1> QED BY <1>4, <1>5, <1>6, <1>7, <1>8

\* Send, when an attempt is over.
LEMMA FailStep ==
  ASSUME IInv, NEW g \in Sends, verdict[g] = "pending", NEW e, Fail(g, e),
         Classify(e) \in Refusals => \A r \in wire \cup outbox : ~Current(r, g)
  PROVE  IInv'
<1> USE DEF IInv
<1>1. /\ verdict' = [verdict EXCEPT ![g] = Failed(g, e)]
      /\ replies' = {p \in replies : p.send # g}
      /\ UNCHANGED <<configTags, defaultTags, call, cancelled, tries, wire, outbox>>
  BY DEF Fail, NoReplies
<1>2. /\ Failed(g, e) \in Kinds \cup {"cancelled"}
      /\ Failed(g, e) \in Refusals => Failed(g, e) = Classify(e)
  BY KindOfError DEF Failed, Refusals
<1>3. TypeOK'
  BY <1>1, <1>2 DEF TypeOK
<1>4. CallsOK' /\ Tried' /\ OneDefault'
  BY <1>1, <1>2 DEF TypeOK, CallsOK, Tried, OneDefault, Kinds
<1>5. RequestsOK' /\ OneRequest'
  BY <1>1 DEF RequestsOK, OneRequest
<1>6. RepliesOK'
  BY <1>1 DEF TypeOK, RepliesOK, Current
<1>7. VerdictsOK'
  BY <1>1, <1>2 DEF TypeOK, VerdictsOK, Current, Kinds
<1> QED BY <1>3, <1>4, <1>5, <1>6, <1>7

LEMMA SucceedStep ==
  ASSUME IInv, NEW g \in Sends, verdict[g] = "pending", Succeed(g),
         \E r \in outbox : r.send = g
  PROVE  IInv'
<1> USE DEF IInv
<1>1. /\ verdict' = [verdict EXCEPT ![g] = "ok"]
      /\ replies' = {p \in replies : p.send # g}
      /\ UNCHANGED <<configTags, defaultTags, call, cancelled, tries, wire, outbox>>
  BY DEF Succeed, NoReplies
<1>2. TypeOK'
  BY <1>1 DEF TypeOK
<1>3. CallsOK' /\ Tried' /\ OneDefault'
  BY <1>1 DEF TypeOK, CallsOK, Tried, OneDefault
<1>4. RequestsOK' /\ OneRequest'
  BY <1>1 DEF RequestsOK, OneRequest
<1>5. RepliesOK'
  BY <1>1 DEF TypeOK, RepliesOK, Current
<1>6. VerdictsOK'
  BY <1>1 DEF TypeOK, VerdictsOK, Current, Refusals
<1> QED BY <1>2, <1>3, <1>4, <1>5, <1>6

LEMMA RetryStep ==
  ASSUME IInv, NEW g \in Sends, verdict[g] = "pending", NEW e, Retry(g, e)
  PROVE  IInv'
<1> USE DEF IInv
<1>1. PICK s \in Senders, m \in Mails :
        /\ call[g] = {<<s, m>>} /\ defaultTags[s] # {}
        /\ m \in Ascii /\ validateTags(TagsOf[m])
  BY DEF CallsOK, Tried
<1>2. PICK t \in Tags : defaultTags[s] = {t}
  BY <1>1 DEF TypeOK, OneDefault
<1> DEFINE c == Copy(g, tries[g] + 1, m, messageTags(t, m))
<1>3. /\ tries[g] < MaxAttempts[s]
      /\ wire' = wire \cup {c}
  BY <1>1, <1>2 DEF Retry
<1>4. /\ tries' = [tries EXCEPT ![g] = @ + 1]
      /\ replies' = {p \in replies : p.send # g}
      /\ UNCHANGED <<configTags, defaultTags, call, verdict, cancelled, outbox>>
  BY DEF Retry, NoReplies
<1>5. tries[g] \in Nat /\ tries'[g] = tries[g] + 1 /\ MaxAttempts[s] \in Nat
  BY <1>4, MailsAssumption DEF TypeOK
<1>6. c \in Requests /\ c.send = g /\ c.try = tries[g] + 1 /\ c.mail = m
        /\ c.tags = messageTags(t, m)
  BY <1>1, <1>5, MergedTags DEF Copy, Requests
<1> HIDE DEF c
<1>7. \A r \in wire \cup outbox : r.send = g => r.try # tries[g] + 1 /\ r.try # c.try
  BY <1>5, <1>6 DEF TypeOK, Requests, RequestsOK
<1>8. TypeOK'
  BY <1>3, <1>4, <1>5, <1>6 DEF TypeOK
<1>9. CallsOK'
  <2>1. \A h \in Sends \ {g} : tries'[h] = tries[h]
    BY <1>4 DEF TypeOK
  <2>2. tries'[g] <= MaxAttempts[s]
    BY <1>3, <1>5
  <2> QED BY <1>1, <1>4, <2>1, <2>2 DEF CallsOK
<1>10. Tried' /\ OneDefault'
  BY <1>4, <1>5 DEF TypeOK, Tried, OneDefault
<1>11. RequestsOK'
  BY <1>1, <1>2, <1>3, <1>4, <1>5, <1>6 DEF TypeOK, Requests, RequestsOK
<1>12. OneRequest'
  BY <1>3, <1>4, <1>6, <1>7 DEF OneRequest
<1>13. RepliesOK'
  BY <1>3, <1>4, <1>6 DEF TypeOK, RepliesOK, Current
<1>14. VerdictsOK'
  BY <1>3, <1>4, <1>6 DEF TypeOK, VerdictsOK, Current, Refusals
<1> QED BY <1>8, <1>9, <1>10, <1>11, <1>12, <1>13, <1>14

\* The reply to the current attempt, or none.
LEMMA ReceiveStep == ASSUME IInv, NEW g \in Sends, Receive(g) PROVE IInv'
<1>1. verdict[g] = "pending"
  BY DEF Receive
<1>2. PICK p \in replies :
        p.send = g /\ IF p.err = Ok THEN Succeed(g) ELSE Fail(g, p.err) \/ Retry(g, p.err)
  BY DEF Receive
<1>3. CASE p.err = Ok
  <2>1. \E r \in outbox : r.send = g
    BY <1>2, <1>3 DEF IInv, RepliesOK, Current
  <2> QED BY <1>1, <1>2, <1>3, <2>1, SucceedStep
<1>4. CASE Fail(g, p.err)
  <2>1. Classify(p.err) \in Refusals => \A r \in wire \cup outbox : ~Current(r, g)
    BY <1>2, KnownErrors DEF IInv, TypeOK, RepliesOK
  <2> QED BY <1>1, <1>4, <2>1, FailStep
<1>5. CASE Retry(g, p.err)
  BY <1>1, <1>5, RetryStep
<1> QED BY <1>2, <1>3, <1>4, <1>5

LEMMA BreakStep == ASSUME IInv, NEW g \in Sends, Break(g) PROVE IInv'
<1>1. CASE Fail(g, NoAnswer)
  BY <1>1, UnclearErrors, FailStep DEF Break
<1>2. CASE Retry(g, NoAnswer)
  BY <1>2, RetryStep DEF Break
<1> QED BY <1>1, <1>2 DEF Break

LEMMA InvariantHolds == Spec => []IInv
<1>1. IInv /\ [Next]_vars => IInv'
  <2> SUFFICES ASSUME IInv, [Next]_vars PROVE IInv'
    OBVIOUS
  <2>1. ASSUME ChangeConfig \/ (\E s \in Senders : New(s)) \/ (\E g \in Sends : Cancel(g))
        PROVE  IInv'
    BY <2>1, CallerSteps
  <2>2. ASSUME NEW g \in Sends, Receive(g) \/ Break(g) PROVE IInv'
    BY <2>2, ReceiveStep, BreakStep
  <2>3. ASSUME NEW g \in Sends, NEW s \in Senders, NEW m \in Mails, Send(g, s, m) PROVE IInv'
    BY <2>3, SendStep
  <2>4. ASSUME NEW r \in wire, Accept(r) \/ Refuse(r) \/ Drop(r) PROVE IInv'
    BY <2>4, ServiceSteps
  <2>5. CASE UNCHANGED vars
    BY <2>5 DEF vars, IInv, TypeOK, CallsOK, Tried, OneDefault, RequestsOK, OneRequest,
                RepliesOK, VerdictsOK, Current
  <2> QED BY <2>1, <2>2, <2>3, <2>4, <2>5 DEF Next
<1> QED BY InitIInv, <1>1, PTL DEF Spec

\* Every variable keeps its type: what goes out has addresses and tags that SES
\* takes, for any senders, messages, errors and maps of tags.
THEOREM TypeCorrect == Spec => []TypeOK
<1>1. IInv => TypeOK
  BY DEF IInv
<1> QED BY InvariantHolds, <1>1, PTL

-----------------------------------------------------------------------------
(* The refinement of MailSpec.                                             *)

LEMMA Meanings ==
  ASSUME IInv, NEW g \in Sends
  PROVE  /\ Meaning(g) = "none" <=> verdict[g] = "none"
         /\ Meaning(g) = "pending" <=> verdict[g] = "pending"
         /\ Meaning(g) = "ok" <=> verdict[g] = "ok"
         /\ Meaning(g) = "refused" => verdict[g] \in Refusals /\ tries[g] > 0
         /\ Meaning(g) \in {"none", "pending", "ok", "rejected", "refused", "unclear"}
         /\ Meaning(g) = "rejected" => tries[g] = 0
         /\ verdict[g] \notin {"none", "pending", "ok"} /\ tries[g] = 0 => Meaning(g) = "rejected"
         /\ tries[g] > 0 => Meaning(g) # "rejected"
  BY DEF Meaning, IInv, TypeOK

LEMMA MailInit == Init => Mail!Init
<1> SUFFICES ASSUME Init PROVE Mail!Init
  OBVIOUS
<1>1. \A g \in Sends : Meaning(g) = "none"
  BY DEF Init, Meaning
<1> QED BY <1>1 DEF Init, Mail!Init

\* Steps the abstract sender does not see.
LEMMA SilentSteps ==
  ASSUME UNCHANGED <<defaultTags, call, verdict, outbox>>,
         \A g \in Sends : tries'[g] = tries[g]
  PROVE  UNCHANGED Mail!vars
<1>1. \A g \in Sends : Meaning(g)' = Meaning(g)
  BY DEF Meaning
<1> QED BY <1>1 DEF Mail!vars

LEMMA RetrySilent ==
  ASSUME IInv, NEW g \in Sends, verdict[g] = "pending", NEW e, Retry(g, e)
  PROVE  UNCHANGED Mail!vars
<1>1. /\ tries' = [tries EXCEPT ![g] = @ + 1]
      /\ UNCHANGED <<defaultTags, call, verdict, outbox>>
  BY DEF Retry
<1>2. ASSUME NEW h \in Sends PROVE Meaning(h)' = Meaning(h)
  <2>1. CASE h = g
    BY <1>1, <2>1 DEF Meaning
  <2>2. CASE h # g
    <3>1. tries'[h] = tries[h]
      BY <1>1, <2>2 DEF IInv, TypeOK
    <3> QED BY <1>1, <3>1 DEF Meaning
  <2> QED BY <2>1, <2>2
<1> QED BY <1>1, <1>2 DEF Mail!vars

LEMMA NewMakes == ASSUME IInv, NEW s \in Senders, New(s) PROVE Mail!Make(s)
<1>1. \A g \in Sends : Meaning(g)' = Meaning(g)
  BY DEF New, Meaning
<1>2. configTags \in Tags
  BY MailsAssumption, ValidTags DEF New, IInv, TypeOK
<1> QED BY <1>1, <1>2 DEF New, Mail!Make

LEMMA SendCalls ==
  ASSUME IInv, NEW g \in Sends, NEW s \in Senders, NEW m \in Mails, Send(g, s, m)
  PROVE  Mail!Call(g)
<1>1. IInv'
  BY SendStep
<1>2. /\ verdict[g] = "none" /\ tries[g] = 0 /\ defaultTags[s] # {}
      /\ call' = [call EXCEPT ![g] = {<<s, m>>}]
      /\ verdict' = [verdict EXCEPT ![g] = Checked(g, m)]
      /\ UNCHANGED <<defaultTags, outbox>>
  BY DEF Send, IInv, CallsOK
<1>3. verdict'[g] = Checked(g, m)
  BY <1>2 DEF IInv, TypeOK
<1>4. \A h \in Sends \ {g} : verdict'[h] = verdict[h] /\ tries'[h] = tries[h]
  BY <1>2 DEF Send, IInv, TypeOK
<1>5. \A h \in Sends \ {g} : Meaning(h)' = Meaning(h)
  BY <1>4 DEF Meaning
<1>6. Meaning(g)' \in {"pending", "rejected"}
  <2>1. CASE Checked(g, m) = "pending"
    BY <1>3, <2>1 DEF Meaning
  <2>2. CASE Checked(g, m) # "pending"
    <3>1. tries'[g] = 0
      BY <1>2, <1>3, <2>2 DEF Send
    <3>2. verdict'[g] \notin {"none", "pending", "ok"}
      BY <1>3, <2>2 DEF Checked
    <3> QED BY <3>1, <3>2 DEF Meaning
  <2> QED BY <2>1, <2>2
<1>7. Meaning(g) = "none"
  BY <1>2 DEF Meaning
<1>8. [h \in Sends |-> Meaning(h)]' = [[h \in Sends |-> Meaning(h)] EXCEPT ![g] = Meaning(g)']
  BY <1>5
<1> QED BY <1>2, <1>6, <1>7, <1>8 DEF Mail!Call

LEMMA AcceptDelivers ==
  ASSUME IInv, NEW r \in wire, Accept(r)
  PROVE  Mail!Deliver(r.send)
<1> DEFINE g == r.send
<1>1. /\ outbox' = outbox \cup {r}
      /\ UNCHANGED <<defaultTags, call, verdict, tries>>
  BY DEF Accept
<1>2. g \in Sends /\ r \in Requests /\ r.try \in Nat \ {0}
  BY DEF IInv, TypeOK, Requests
<1>3. PICK s \in Senders : /\ call[g] = {<<s, r.mail>>}
                          /\ \E t \in defaultTags[s] : r.tags = messageTags(t, r.mail)
  BY DEF IInv, RequestsOK
<1>3a. PICK t \in defaultTags[s] : r.tags = messageTags(t, r.mail)
  BY <1>3
<1>4. r.mail \in Mails
  BY <1>2, MailsAssumption DEF Requests
<1>5. r.try <= tries[g] /\ tries[g] > 0
  BY <1>2 DEF IInv, RequestsOK, TypeOK
<1>6. verdict[g] # "none" /\ tries[g] <= MaxAttempts[s]
  <2>1. verdict[g] # "none"
    BY <1>2, <1>5 DEF IInv, CallsOK
  <2>2. PICK u \in Senders, m \in Mails : call[g] = {<<u, m>>} /\ tries[g] <= MaxAttempts[u]
    BY <1>2, <2>1 DEF IInv, CallsOK
  <2>3. <<u, m>> \in {<<s, r.mail>>}
    BY <1>3, <2>2
  <2>4. u = s
    BY <2>3
  <2> QED BY <2>1, <2>2, <2>4
<1>7. tries[g] \in Nat /\ MaxAttempts[s] \in Nat
  BY <1>2, MailsAssumption DEF IInv, TypeOK
<1>8. r.try \in 1..MaxAttempts[s] /\ tries[g] \in 1..MaxAttempts[s]
  BY <1>2, <1>5, <1>6, <1>7
<1>9. r.try \notin Mail!Taken(g)
  BY DEF Mail!Taken, IInv, OneRequest
<1>10. Meaning(g) = "refused" => tries[g] \notin Mail!Taken(g) \cup {r.try}
  <2> SUFFICES ASSUME Meaning(g) = "refused" PROVE tries[g] \notin Mail!Taken(g) \cup {r.try}
    OBVIOUS
  <2>1. \A q \in wire \cup outbox : ~Current(q, g)
    BY <1>2, Meanings DEF IInv, VerdictsOK
  <2> QED BY <2>1 DEF Mail!Taken, Current
<1>11. Meaning(g) \notin {"none", "rejected"}
  BY <1>2, <1>5, <1>6, Meanings
<1>12. r = [send |-> g, try |-> r.try, mail |-> r.mail, tags |-> messageTags(t, r.mail)]
  BY <1>2, <1>3a DEF Requests
<1>13. [h \in Sends |-> Meaning(h)]' = [h \in Sends |-> Meaning(h)]
  BY <1>1 DEF Meaning
<1> HIDE DEF g
<1> QED BY <1>1, <1>2, <1>3, <1>4, <1>8, <1>9, <1>10, <1>11, <1>12, <1>13 DEF Mail!Deliver, g

\* A call answers with an error of its last attempt.
LEMMA FailAnswers ==
  ASSUME IInv, NEW g \in Sends, verdict[g] = "pending", NEW e, Fail(g, e),
         Classify(e) \in Refusals => \A r \in wire \cup outbox : ~Current(r, g)
  PROVE  Mail!Answer(g)
<1>1. /\ verdict' = [verdict EXCEPT ![g] = Failed(g, e)]
      /\ UNCHANGED <<defaultTags, call, tries, outbox>>
  BY DEF Fail
<1>2. PICK s \in Senders, m \in Mails : call[g] = {<<s, m>>} /\ tries[g] <= MaxAttempts[s]
  BY DEF IInv, CallsOK
<1>3. tries[g] \in Nat /\ tries[g] > 0 /\ MaxAttempts[s] \in Nat
  BY MailsAssumption DEF IInv, TypeOK, Tried
<1>4. tries[g] \in 1..MaxAttempts[s]
  BY <1>2, <1>3
<1>5. verdict'[g] = Failed(g, e)
  BY <1>1 DEF IInv, TypeOK
<1>6. \A h \in Sends \ {g} : Meaning(h)' = Meaning(h)
  <2>1. \A h \in Sends \ {g} : verdict'[h] = verdict[h]
    BY <1>1 DEF IInv, TypeOK
  <2> QED BY <1>1, <2>1 DEF Meaning
<1>7. Failed(g, e) \notin {"none", "pending", "ok"}
  BY KindOfError DEF Failed, Kinds
<1>8. Meaning(g)' \in {"refused", "unclear"}
  BY <1>1, <1>3, <1>5, <1>7 DEF Meaning
<1>9. Meaning(g)' = "refused" => 1..MaxAttempts[s] \ Mail!Taken(g) # {}
  <2> SUFFICES ASSUME Meaning(g)' = "refused" PROVE 1..MaxAttempts[s] \ Mail!Taken(g) # {}
    OBVIOUS
  <2>1. Failed(g, e) \in Refusals
    BY <1>1, <1>3, <1>5, <1>7 DEF Meaning
  <2>2. Classify(e) \in Refusals
    BY <2>1 DEF Failed, Refusals
  <2>3. tries[g] \notin Mail!Taken(g)
    BY <2>2 DEF Mail!Taken, Current
  <2> QED BY <1>4, <2>3
<1>10. [h \in Sends |-> Meaning(h)]' = [[h \in Sends |-> Meaning(h)] EXCEPT ![g] = Meaning(g)']
  BY <1>6
<1>11. Meaning(g) = "pending"
  BY DEF Meaning
<1> QED BY <1>1, <1>2, <1>8, <1>9, <1>10, <1>11 DEF Mail!Answer

LEMMA SucceedAnswers ==
  ASSUME IInv, NEW g \in Sends, verdict[g] = "pending", Succeed(g),
         \E r \in outbox : r.send = g
  PROVE  Mail!Answer(g)
<1>1. /\ verdict' = [verdict EXCEPT ![g] = "ok"]
      /\ UNCHANGED <<defaultTags, call, tries, outbox>>
  BY DEF Succeed
<1>2. PICK s \in Senders, m \in Mails : call[g] = {<<s, m>>}
  BY DEF IInv, CallsOK
<1>3. verdict'[g] = "ok"
  BY <1>1 DEF IInv, TypeOK
<1>4. \A h \in Sends \ {g} : Meaning(h)' = Meaning(h)
  <2>1. \A h \in Sends \ {g} : verdict'[h] = verdict[h]
    BY <1>1 DEF IInv, TypeOK
  <2> QED BY <1>1, <2>1 DEF Meaning
<1>5. Meaning(g)' = "ok" /\ Meaning(g) = "pending"
  BY <1>3 DEF Meaning
<1>6. Mail!Taken(g) # {}
  <2>1. PICK r \in outbox : r.send = g
    OBVIOUS
  <2>2. r.try \in Mail!Taken(g)
    BY <2>1 DEF Mail!Taken
  <2> QED BY <2>2
<1>7. [h \in Sends |-> Meaning(h)]' = [[h \in Sends |-> Meaning(h)] EXCEPT ![g] = Meaning(g)']
  BY <1>4
<1> QED BY <1>1, <1>2, <1>5, <1>6, <1>7 DEF Mail!Answer

LEMMA ReceiveAnswers ==
  ASSUME IInv, NEW g \in Sends, Receive(g) PROVE Mail!Answer(g) \/ UNCHANGED Mail!vars
<1>1. verdict[g] = "pending"
  BY DEF Receive
<1>2. PICK p \in replies :
        p.send = g /\ IF p.err = Ok THEN Succeed(g) ELSE Fail(g, p.err) \/ Retry(g, p.err)
  BY DEF Receive
<1>3. CASE p.err = Ok
  <2>1. \E r \in outbox : r.send = g
    BY <1>2, <1>3 DEF IInv, RepliesOK, Current
  <2> QED BY <1>1, <1>2, <1>3, <2>1, SucceedAnswers
<1>4. CASE Fail(g, p.err)
  <2>1. Classify(p.err) \in Refusals => \A r \in wire \cup outbox : ~Current(r, g)
    BY <1>2, KnownErrors DEF IInv, TypeOK, RepliesOK
  <2> QED BY <1>1, <1>4, <2>1, FailAnswers
<1>5. CASE Retry(g, p.err)
  BY <1>1, <1>5, RetrySilent
<1> QED BY <1>2, <1>3, <1>4, <1>5

LEMMA BreakAnswers ==
  ASSUME IInv, NEW g \in Sends, Break(g) PROVE Mail!Answer(g) \/ UNCHANGED Mail!vars
<1>1. CASE Fail(g, NoAnswer)
  BY <1>1, UnclearErrors, FailAnswers DEF Break
<1>2. CASE Retry(g, NoAnswer)
  BY <1>2, RetrySilent DEF Break
<1> QED BY <1>1, <1>2 DEF Break

\* Whatever the network, the service, the SDK's retries and other calls do, the
\* sender keeps what a mail sender promises: the copies accepted of a call carry
\* its own tags over the defaults its sender was made with, "ok" follows an
\* accepted copy, and a refusal leaves one attempt at least unaccepted.
THEOREM SenderImplementsMail == Spec => MailSafety
<1>1. IInv /\ [Next]_vars => [Mail!Next]_(Mail!vars)
  <2> SUFFICES ASSUME IInv, [Next]_vars PROVE Mail!Next \/ UNCHANGED Mail!vars
    OBVIOUS
  <2>1. CASE ChangeConfig
    BY <2>1, SilentSteps DEF ChangeConfig
  <2>2. ASSUME NEW s \in Senders, New(s) PROVE Mail!Next
    BY <2>2, NewMakes DEF Mail!Next
  <2>3. ASSUME NEW g \in Sends, Cancel(g) PROVE UNCHANGED Mail!vars
    BY <2>3, SilentSteps DEF Cancel
  <2>4. ASSUME NEW g \in Sends, Receive(g) \/ Break(g)
        PROVE  Mail!Next \/ UNCHANGED Mail!vars
    BY <2>4, ReceiveAnswers, BreakAnswers DEF Mail!Next
  <2>5. ASSUME NEW g \in Sends, NEW s \in Senders, NEW m \in Mails, Send(g, s, m)
        PROVE  Mail!Next
    BY <2>5, SendCalls DEF Mail!Next
  <2>6. ASSUME NEW r \in wire, Accept(r) PROVE Mail!Next
    <3>1. r.send \in Sends
      BY DEF IInv, TypeOK, Requests
    <3> QED BY <2>6, <3>1, AcceptDelivers DEF Mail!Next
  <2>7. ASSUME NEW r \in wire, Refuse(r) \/ Drop(r) PROVE UNCHANGED Mail!vars
    BY <2>7, SilentSteps DEF Refuse, Drop
  <2>8. CASE UNCHANGED vars
    BY <2>8, SilentSteps DEF vars
  <2> QED BY <2>1, <2>2, <2>3, <2>4, <2>5, <2>6, <2>7, <2>8 DEF Next
<1> QED BY MailInit, InvariantHolds, <1>1, PTL DEF Spec, MailSafety, Mail!Spec
-----------------------------------------------------------------------------
(* What errors say.                                                        *)

\* A known code decides, whatever came with it.
LEMMA CodeDecides ==
  ASSUME NEW code \in DOMAIN codeKinds, NEW address \in BOOLEAN
  PROVE  Cardinality(Coded(code, address)) = 1
<1> DEFINE kind == IF code = "badRequest" /\ address THEN "InvalidAddress" ELSE codeKinds[code]
<1>1. ASSUME NEW status, NEW network
      PROVE  Classify(Error(status, code, address, network)) = kind
  BY DEF Classify, Error
<1>2. PICK status \in Statuses : TRUE
  BY ErrorsAssumption
<1> HIDE DEF kind
<1>3. Coded(code, address) = {kind}
  BY <1>1, <1>2 DEF Coded
<1> QED BY <1>3, FS_Singleton

\* Without a known code the status decides.
LEMMA StatusDecides ==
  ASSUME NEW status \in Statuses, NEW code \in {"none", "other"},
         NEW address \in BOOLEAN, NEW network \in BOOLEAN
  PROVE  LET kind == Classify(Error(status, code, address, network)) IN
         /\ kind \in Refusals => status \in {401, 403, 429}
         /\ Retryable(kind) => status = 429 \/ status \in 500..599 \/ network
         /\ status = 429 \/ status \in 500..599 \/ (status = 0 /\ network) => Retryable(kind)
<1> DEFINE kind == Classify(Error(status, code, address, network))
<1>1. status \in Nat
  BY ErrorsAssumption
<1>2. kind = CASE status = 429                  -> "Throttled"
               [] status \in {401, 403}         -> "Auth"
               [] status \in 500..599           -> "Transient"
               [] status = 0 /\ network         -> "Transient"
               [] OTHER                         -> "Unknown"
  <2>1. code \notin DOMAIN codeKinds
    BY DEF codeKinds
  <2> QED BY <2>1 DEF Classify, ClassifyByStatus, Error
<1> HIDE DEF kind
<1>3. CASE status = 429
  <2>1. kind = "Throttled"
    BY <1>2, <1>3
  <2> QED BY <1>3, <2>1 DEF Refusals, Retryable, kind
<1>4. CASE status \in {401, 403}
  <2>1. kind = "Auth"
    BY <1>2, <1>4
  <2> QED BY <1>4, <2>1 DEF Refusals, Retryable, kind
<1>5. CASE status \in 500..599
  <2>1. kind = "Transient"
    BY <1>2, <1>5
  <2> QED BY <1>5, <2>1 DEF Refusals, Retryable, kind
<1>6. CASE status \notin {401, 403, 429} /\ status \notin 500..599
  <2>1. kind = IF status = 0 /\ network THEN "Transient" ELSE "Unknown"
    BY <1>1, <1>2, <1>6
  <2> QED BY <1>1, <1>6, <2>1 DEF Refusals, Retryable, kind
<1> QED BY <1>3, <1>4, <1>5, <1>6 DEF kind

\* A wait that a Duration can hold ends when the header says.
LEMMA WaitEndsInTime ==
  ASSUME NEW header \in Headers, NEW now \in ClockReadings,
         NEW unit \in UnitsPerSecond, NEW largest \in LargestDurations,
         Instant(header, now, unit) - now <= largest
  PROVE  LET due  == Instant(header, now, unit)
             wait == parseRetryAfter(header, now, unit, largest) IN
         wait >= 0 /\ (now + wait = due \/ (due < now /\ wait = 0))
<1>1. header.value \in Int /\ now \in Int /\ unit \in Nat /\ largest \in Nat
  BY ErrorsAssumption DEF Headers
<1>2. CASE header.form = "seconds" /\ header.value >= 0
  <2> DEFINE d == header.value * unit
             n == 2 * (largest + 1)
  <2>1. d \in Nat
    BY <1>1, <1>2
  <2>2. Instant(header, now, unit) = now + d /\ parseRetryAfter(header, now, unit, largest) = Narrow(d, largest)
    BY <1>2 DEF Instant, parseRetryAfter
  <2> HIDE DEF d
  <2>3. d <= largest
    BY <1>1, <2>1, <2>2
  <2>4. n \in Nat \ {0} /\ d + largest + 1 \in Nat /\ d + largest + 1 < n
    BY <1>1, <2>1, <2>3
  <2> HIDE DEF n
  <2>5. (d + largest + 1) % n = d + largest + 1
    BY <2>4
  <2>6. Narrow(d, largest) = d
    BY <1>1, <2>1, <2>5 DEF Narrow, n
  <2> QED BY <1>1, <2>1, <2>2, <2>6
<1>3. CASE header.form = "date"
  BY <1>1, <1>3 DEF Instant, parseRetryAfter
<1>4. CASE ~(header.form = "seconds" /\ header.value >= 0) /\ header.form # "date"
  <2>1. Instant(header, now, unit) = now /\ parseRetryAfter(header, now, unit, largest) = 0
    BY <1>4 DEF Instant, parseRetryAfter
  <2> QED BY <1>1, <2>1
<1> QED BY <1>2, <1>3, <1>4

\* Whatever a response holds, its error tells the caller whether and when to send
\* again (Classify, parseRetryAfter).
THEOREM ErrorsAreClear == Spec => []ErrorsTellWhatToDo
<1>1. KindsAgree
  BY CodeDecides, StatusDecides DEF KindsAgree
<1>2. NeverTooEarly
  BY WaitEndsInTime DEF NeverTooEarly
<1>3. ErrorsTellWhatToDo
  BY <1>1, <1>2 DEF ErrorsTellWhatToDo
<1> QED BY <1>3, PTL
=============================================================================
