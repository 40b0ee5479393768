-------------------------- MODULE KiroConversation --------------------------
(***************************************************************************)
(* What the Kiro collector makes of one snapshot of a conversation         *)
(* (omnidevx/conversation.go, estimate.go), as operators.                  *)
(*                                                                         *)
(* A text is its length.  A turn has the lengths of its texts of the user  *)
(* and of the assistant, its images (their bytes), the chunks that its     *)
(* request metadata counts, its tools, and the time its request started;   *)
(* a turn without metadata has no chunks and start 0.  A time is a natural *)
(* number of milliseconds, 0 for none, a period a set of times.            *)
(***************************************************************************)
EXTENDS Integers, Sequences, SequencesExt

SumOf(numbers) == FoldLeft(+, 0, numbers)
Joined(lists)  == FoldLeft(\o, <<>>, lists)

-----------------------------------------------------------------------------
(* Estimates, with per characters to a token.                              *)

tokensForRaw(lengths, per) == SumOf([i \in DOMAIN lengths |-> lengths[i] \div per])

imageTokens(images) == SumOf([i \in DOMAIN images |-> 1600 + images[i] \div 1500])

turnTextAndTools(turn, per) ==
  [user      |-> tokensForRaw(turn.user, per) + imageTokens(turn.images),
   assistant |-> tokensForRaw(turn.assistant, per)]

\* The loop over the turns: what has been said so far, and the last answer.
NextUsageForgettingAnswer(acc, turn, per) ==
  LET text == turnTextAndTools(turn, per) IN
  [usages |-> Append(acc.usages,
     [input      |-> text.user,
      output     |-> IF turn.chunks > 0 THEN turn.chunks ELSE text.assistant,
      cacheRead  |-> IF acc.usages = <<>> THEN 0 ELSE acc.cumulative,
      cacheWrite |-> text.user,
      start      |-> turn.start,
      tools      |-> turn.tools]),
   cumulative |-> acc.cumulative + text.user + text.assistant,
   prev       |-> text.assistant]

NextUsage(acc, turn, per) ==
  LET text == turnTextAndTools(turn, per) IN
  [usages |-> Append(acc.usages,
     [input      |-> text.user,
      output     |-> IF turn.chunks > 0 THEN turn.chunks ELSE text.assistant,
      cacheRead  |-> IF acc.usages = <<>> THEN 0 ELSE acc.cumulative,
      cacheWrite |-> text.user + IF acc.usages = <<>> THEN 0 ELSE acc.prev,
      start      |-> turn.start,
      tools      |-> turn.tools]),
   cumulative |-> acc.cumulative + text.user + text.assistant,
   prev       |-> text.assistant]

estimateUsages(turns, summary, per) ==
  LET Step(acc, turn) == NextUsage(acc, turn, per)
  IN FoldLeft(Step, [usages |-> <<>>, cumulative |-> tokensForRaw(<<summary>>, per), prev |-> 0],
              turns).usages

hasTimedUsage(usages) == \E i \in DOMAIN usages : usages[i].start # 0

-----------------------------------------------------------------------------
(* Events.                                                                 *)

\* First and last start of a request, or what stands in for them.
conversationBounds(starts, otherwise) ==
  LET known == {starts[i] : i \in DOMAIN starts} \ {0}
  IN IF known = {} THEN [first |-> otherwise, last |-> otherwise]
     ELSE [first |-> Min(known), last |-> Max(known)]

Event(type, i, j, time, tokens) ==
  [id |-> <<type, i, j>>, time |-> time, tokens |-> tokens]

At(time, period, event) == IF time > 0 /\ time \in period THEN <<event>> ELSE <<>>

Amount(u) == u.input + u.output + u.cacheRead + u.cacheWrite

\* The usage and the tools of every turn with a time of its own.
TurnEvents(usages, period) ==
  LET OfTurn(i) ==
        At(usages[i].start, period, Event("usage", i, 0, usages[i].start, Amount(usages[i])))
          \o Joined([j \in DOMAIN usages[i].tools |->
               At(usages[i].start, period, Event("tool", i, j, usages[i].start, 0))])
  IN Joined([i \in DOMAIN usages |-> OfTurn(i)])

\* All turns in one, for when none has a time: index 0 stands for the code's -1.
Aggregate(usages) ==
  Amount([input      |-> SumOf([i \in DOMAIN usages |-> usages[i].input]),
          output     |-> SumOf([i \in DOMAIN usages |-> usages[i].output]),
          cacheRead  |-> SumOf([i \in DOMAIN usages |-> usages[i].cacheRead]),
          cacheWrite |-> SumOf([i \in DOMAIN usages |-> usages[i].cacheWrite])])

\* snap: [created, updated, summary, turns].
parseSnapshot(snap, per, period) ==
  LET bounds  == conversationBounds([i \in DOMAIN snap.turns |-> snap.turns[i].start], 0)
      created == IF snap.created # 0 THEN snap.created ELSE bounds.first
      updated == IF snap.updated # 0 THEN snap.updated ELSE bounds.last
      usages  == estimateUsages(snap.turns, snap.summary, per)
      total   == IF usages = <<>> THEN 0 ELSE Aggregate(usages)
  IN At(created, period, Event("start", 0, 0, created, 0))
       \o TurnEvents(usages, period)
       \o (IF usages # <<>> /\ ~hasTimedUsage(usages)
           THEN At(updated, period, Event("usage", 0, 0, updated, total)) ELSE <<>>)
       \o At(updated, period, Event("end", 0, 0, updated, total))
=============================================================================
