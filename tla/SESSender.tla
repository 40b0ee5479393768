----------------------------- MODULE SESSender -----------------------------
(***************************************************************************)
(* The SES sender (omnimail/ses.go): senders made by New, calls to Send    *)
(* that share them, the attempts the SDK makes for a call, and a service   *)
(* and a network that may accept a mail whose answer is lost, or accept it *)
(* after the caller has been told something else.                          *)
(*                                                                         *)
(* Tags are functions from names to a value, "absent" where there is none; *)
(* the value "bad" stands for one the SES character set excludes.  The     *)
(* MIME body is the mail itself.                                           *)
(***************************************************************************)
EXTENDS SESErrors

CONSTANTS Senders, Sends, Mails,
          TagNames, TagValues,  \* values other than "absent" and "bad"
          TagsOf,      \* [Mails -> tags]: the message's own
          Ascii,       \* the mails whose addresses are all ASCII
          Configs,     \* the tag maps a caller builds senders with
          MaxAttempts, \* [Senders -> Nat \ {0}]: the SDK's, the default resolved
          Refused,     \* errors of the service that mean it did not take the mail
          Faults       \* errors of the service that leave it open

Tags == [TagNames -> TagValues \cup {"absent"}]
AnyTags == [TagNames -> TagValues \cup {"absent", "bad"}]

Ok        == Error(200, "none", FALSE, FALSE)
Truncated == Error(200, "none", FALSE, TRUE)
NoAnswer  == Error(0, "none", FALSE, TRUE)

ASSUME MailsAssumption ==
  /\ TagsOf \in [Mails -> AnyTags]
  /\ Ascii \subseteq Mails
  /\ Configs \subseteq AnyTags
  /\ MaxAttempts \in [Senders -> Nat \ {0}]
  /\ \A e \in Refused : Classify(e) \in Refusals
  /\ \A e \in Faults : Classify(e) \notin Refusals
  /\ {Ok, Truncated} \cap Faults = {}

VARIABLES
  configTags,  \* the map the caller hands to New and may change afterwards
  defaultTags, \* [Senders -> SUBSET Tags]: the sender's own, empty until New
  call,        \* [Sends -> SUBSET (Senders \X Mails)]: empty until called
  verdict,     \* [Sends -> "none", "pending", "ok", "cancelled" or a kind]
  cancelled,   \* the sends whose context has ended
  tries,       \* [Sends -> Nat]: the attempts made so far
  wire,        \* requests the service has not handled: [send, try, mail, tags]
  replies,     \* answers to the current attempts: [send, err]
  outbox       \* the copies it has accepted: [send, try, mail, tags]

vars == <<configTags, defaultTags, call, verdict, cancelled, tries, wire, replies, outbox>>

validateTags(t) == \A n \in TagNames : t[n] # "bad"

messageTags(t, m) ==
  [n \in TagNames |-> IF TagsOf[m][n] = "absent" THEN t[n] ELSE TagsOf[m][n]]

Copy(g, try, m, t) == [send |-> g, try |-> try, mail |-> m, tags |-> t]

Init ==
  /\ configTags \in Configs
  /\ defaultTags = [s \in Senders |-> {}]
  /\ call = [g \in Sends |-> {}]
  /\ verdict = [g \in Sends |-> "none"]
  /\ cancelled = {}
  /\ tries = [g \in Sends |-> 0]
  /\ wire = {} /\ replies = {} /\ outbox = {}

\* The caller reuses its map for the next sender.
ChangeConfig ==
  /\ configTags' \in Configs \ {configTags}
  /\ UNCHANGED <<defaultTags, call, verdict, cancelled, tries, wire, replies, outbox>>

NewUnvalidated(s) ==
  /\ defaultTags[s] = {}
  /\ defaultTags' = [defaultTags EXCEPT ![s] = {configTags}]
  /\ UNCHANGED <<configTags, call, verdict, cancelled, tries, wire, replies, outbox>>

New(s) ==
  /\ defaultTags[s] = {}
  /\ validateTags(configTags)
  /\ defaultTags' = [defaultTags EXCEPT ![s] = {configTags}]
  /\ UNCHANGED <<configTags, call, verdict, cancelled, tries, wire, replies, outbox>>

\* What Send answers before it requests anything, "pending" when it goes on.
Checked(g, m) ==
  IF g \in cancelled THEN "cancelled"
  ELSE IF m \notin Ascii THEN "InvalidAddress"
  ELSE IF ~validateTags(TagsOf[m]) THEN "InvalidMessage"
  ELSE "pending"

\* A sender that merges the tags of a message into its own map.
SendMergingInPlace(g, s, m) ==
  /\ verdict[g] = "none" /\ defaultTags[s] # {}
  /\ call' = [call EXCEPT ![g] = {<<s, m>>}]
  /\ verdict' = [verdict EXCEPT ![g] = Checked(g, m)]
  /\ IF verdict'[g] = "pending"
       THEN /\ tries' = [tries EXCEPT ![g] = 1]
            /\ wire' = wire \cup {Copy(g, 1, m, messageTags(t, m)) : t \in defaultTags[s]}
            /\ defaultTags' = [defaultTags EXCEPT ![s] = {messageTags(t, m) : t \in @}]
       ELSE UNCHANGED <<tries, wire, defaultTags>>
  /\ UNCHANGED <<configTags, cancelled, replies, outbox>>

Send(g, s, m) ==
  /\ verdict[g] = "none" /\ defaultTags[s] # {}
  /\ call' = [call EXCEPT ![g] = {<<s, m>>}]
  /\ verdict' = [verdict EXCEPT ![g] = Checked(g, m)]
  /\ IF verdict'[g] = "pending"
       THEN /\ tries' = [tries EXCEPT ![g] = 1]
            /\ wire' = wire \cup {Copy(g, 1, m, messageTags(t, m)) : t \in defaultTags[s]}
       ELSE UNCHANGED <<tries, wire>>
  /\ UNCHANGED <<configTags, defaultTags, cancelled, replies, outbox>>

\* The context of a call ends: its deadline, or its caller gives up.
Cancel(g) ==
  /\ verdict[g] \in {"none", "pending"} /\ g \notin cancelled
  /\ cancelled' = cancelled \cup {g}
  /\ UNCHANGED <<configTags, defaultTags, call, verdict, tries, wire, replies, outbox>>

-----------------------------------------------------------------------------
(* The service and the network.                                            *)

\* An answer that nobody waits for any more is lost.
Answered(r, e) ==
  replies' = replies \cup {[send |-> g, err |-> e] :
    g \in {h \in Sends : h = r.send /\ verdict[h] = "pending" /\ tries[h] = r.try}}

Accept(r) ==
  /\ wire' = wire \ {r} /\ outbox' = outbox \cup {r}
  /\ \E e \in {Ok, Truncated} \cup Faults : Answered(r, e)
  /\ UNCHANGED <<configTags, defaultTags, call, verdict, cancelled, tries>>

Refuse(r) ==
  /\ wire' = wire \ {r}
  /\ \E e \in Refused \cup Faults : Answered(r, e)
  /\ UNCHANGED <<configTags, defaultTags, call, verdict, cancelled, tries, outbox>>

\* The request never arrives.
Drop(r) ==
  /\ wire' = wire \ {r}
  /\ UNCHANGED <<configTags, defaultTags, call, verdict, cancelled, tries, replies, outbox>>

-----------------------------------------------------------------------------
(* Send, once SendEmail has come back with an error of its last attempt.   *)

\* The error of the call.
Failed(g, e) == IF g \in cancelled THEN "cancelled" ELSE Classify(e)

NoReplies(g) == replies' = {p \in replies : p.send # g}

Fail(g, e) ==
  /\ verdict' = [verdict EXCEPT ![g] = Failed(g, e)]
  /\ NoReplies(g)
  /\ UNCHANGED <<configTags, defaultTags, call, cancelled, tries, wire, outbox>>

\* Another attempt of the SDK, with the same input.
Retry(g, e) ==
  /\ g \notin cancelled /\ Retryable(Classify(e))
  /\ \E p \in call[g] :
       /\ tries[g] < MaxAttempts[p[1]]
       /\ wire' = wire \cup {Copy(g, tries[g] + 1, p[2], messageTags(t, p[2])) : t \in defaultTags[p[1]]}
  /\ tries' = [tries EXCEPT ![g] = @ + 1]
  /\ NoReplies(g)
  /\ UNCHANGED <<configTags, defaultTags, call, verdict, cancelled, outbox>>

Succeed(g) ==
  /\ verdict' = [verdict EXCEPT ![g] = "ok"]
  /\ NoReplies(g)
  /\ UNCHANGED <<configTags, defaultTags, call, cancelled, tries, wire, outbox>>

\* The reply to the current attempt.
Receive(g) ==
  /\ verdict[g] = "pending"
  /\ \E p \in replies :
       /\ p.send = g
       /\ IF p.err = Ok THEN Succeed(g) ELSE Fail(g, p.err) \/ Retry(g, p.err)

\* The connection breaks, or the context ends, with the request on its way.
Break(g) ==
  /\ verdict[g] = "pending"
  /\ Fail(g, NoAnswer) \/ Retry(g, NoAnswer)

Next ==
  \/ ChangeConfig
  \/ \E s \in Senders : New(s)
  \/ \E g \in Sends : Cancel(g) \/ Receive(g) \/ Break(g)
  \/ \E g \in Sends, s \in Senders, m \in Mails : Send(g, s, m)
  \/ \E r \in wire : Accept(r) \/ Refuse(r) \/ Drop(r)

Spec == Init /\ [][Next]_vars

-----------------------------------------------------------------------------
(* Properties.                                                             *)

Kinds == {"Throttled", "Rejected", "InvalidMessage", "InvalidAddress", "Auth", "Transient", "Unknown"}
Requests == [send : Sends, try : Nat \ {0}, mail : Ascii, tags : Tags]

\* Type correctness.  What is requested has ASCII addresses and tags that SES
\* takes, whatever the caller puts into its maps (checkASCIIAddresses,
\* validateTags).
TypeOK ==
  /\ configTags \in Configs
  /\ defaultTags \in [Senders -> SUBSET Tags]
  /\ call \in [Sends -> SUBSET (Senders \X Mails)]
  /\ verdict \in [Sends -> Kinds \cup {"none", "pending", "ok", "cancelled"}]
  /\ cancelled \subseteq Sends
  /\ tries \in [Sends -> Nat]
  /\ wire \subseteq Requests /\ outbox \subseteq Requests
  /\ replies \subseteq [send : Sends, err : {Ok, Truncated} \cup Refused \cup Faults]

\* The verdict as a sender's user may read it.
Meaning(g) ==
  IF verdict[g] \in {"none", "pending", "ok"} THEN verdict[g]
  ELSE IF tries[g] = 0 THEN "rejected"
  ELSE IF verdict[g] \in Refusals THEN "refused"
  ELSE "unclear"

Mail == INSTANCE MailSpec WITH
  Attempts <- MaxAttempts, Tagged <- messageTags, defaults <- defaultTags,
  verdict <- [g \in Sends |-> Meaning(g)]

\* The sender keeps the promises of a mail sender: every accepted copy has the
\* message's tags over the defaults its sender was made with, whatever became
\* of the caller's map or other calls put into theirs; "ok" means a copy was
\* accepted; and after a refusal, as Classify tells one, fewer copies than
\* attempts are ever accepted: none, where the SDK's retries are off.
MailSafety == Mail!Spec

\* An error that was answered tells its caller whether, and when, to send
\* again.  A known error code has the same kind in every response: a rejection
\* behind an HTTP 503 stays one.  Without a known code only a 401, a 403 or a
\* 429 says that the mail was refused; a 429, a 5xx and a network that failed
\* before any response are worth trying again, and so is nothing else but,
\* perhaps, a response the network cut short: the comment of Classify has every
\* network error transient, the code makes that one Unknown, and the property
\* leaves it open.  A caller that waits for RetryAfter calls again at the instant
\* the header named, at once where that is past, missing or unreadable, as long
\* as a Duration can hold the wait (parseRetryAfter).
ErrorsTellWhatToDo ==
  (\E g \in Sends : verdict[g] \in Kinds) => KindsAgree /\ NeverTooEarly
=============================================================================
