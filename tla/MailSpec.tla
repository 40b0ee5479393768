------------------------------ MODULE MailSpec ------------------------------
(***************************************************************************)
(* What a mail sender promises, without its requests, its retries and the  *)
(* network.  A sender keeps the default tags it was made with.  Of a call  *)
(* to Send copies are accepted, before or after it has answered, at most   *)
(* as many as the sender may try and each with the tags of that mail over  *)
(* the defaults.  "ok" comes after an accepted copy, of a refused call one *)
(* try at least is never accepted, and of a call rejected before its first *)
(* request none is.                                                        *)
(***************************************************************************)
EXTENDS Naturals

CONSTANTS Senders, Sends, Mails, Tags,
          Attempts,    \* [Senders -> Nat]: how often a sender may try
          Tagged(_, _) \* Tagged(t, m): the tags of mail m over defaults t

VARIABLES defaults,  \* [Senders -> SUBSET Tags]: empty until the sender is made
          call,      \* [Sends -> SUBSET (Senders \X Mails)]: empty until called
          verdict,   \* [Sends -> "none", "pending", "ok", "refused", "rejected", "unclear"]
          outbox     \* accepted copies: [send, try, mail, tags]

vars == <<defaults, call, verdict, outbox>>

Taken(g) == {d.try : d \in {e \in outbox : e.send = g}}

Init ==
  /\ defaults = [s \in Senders |-> {}]
  /\ call = [g \in Sends |-> {}]
  /\ verdict = [g \in Sends |-> "none"]
  /\ outbox = {}

Make(s) ==
  /\ defaults[s] = {}
  /\ \E t \in Tags : defaults' = [defaults EXCEPT ![s] = {t}]
  /\ UNCHANGED <<call, verdict, outbox>>

Call(g) ==
  /\ verdict[g] = "none"
  /\ \E s \in Senders, m \in Mails, v \in {"pending", "rejected"} :
       /\ defaults[s] # {}
       /\ call' = [call EXCEPT ![g] = {<<s, m>>}]
       /\ verdict' = [verdict EXCEPT ![g] = v]
  /\ UNCHANGED <<defaults, outbox>>

Deliver(g) ==
  /\ verdict[g] \notin {"none", "rejected"}
  /\ \E s \in Senders, m \in Mails : \E try \in 1..Attempts[s], t \in defaults[s] :
       /\ call[g] = {<<s, m>>}
       /\ outbox' = outbox \cup {[send |-> g, try |-> try, mail |-> m, tags |-> Tagged(t, m)]}
       /\ try \notin Taken(g)
       /\ verdict[g] = "refused" => 1..Attempts[s] \ (Taken(g) \cup {try}) # {}
  /\ UNCHANGED <<defaults, call, verdict>>

Answer(g) ==
  /\ verdict[g] = "pending"
  /\ \E s \in Senders, m \in Mails, v \in {"ok", "refused", "unclear"} :
       /\ call[g] = {<<s, m>>}
       /\ v = "ok" => Taken(g) # {}
       /\ v = "refused" => 1..Attempts[s] \ Taken(g) # {}
       /\ verdict' = [verdict EXCEPT ![g] = v]
  /\ UNCHANGED <<defaults, call, outbox>>

Next ==
  \/ \E s \in Senders : Make(s)
  \/ \E g \in Sends : Call(g) \/ Deliver(g) \/ Answer(g)

Spec == Init /\ [][Next]_vars
=============================================================================
