---------------------------- MODULE KiroReports ----------------------------
(***************************************************************************)
(* What the events of a Collect of the Kiro collector say: of the          *)
(* snapshots it has taken, and of any snapshot by itself.                  *)
(***************************************************************************)
EXTENDS KiroCollector

CONSTANTS CharsPerToken,
          TurnOf,    \* [Conversations -> the turns they have, less their starts]
          SummaryOf, \* [Conversations -> length of the summary]
          Snaps,     \* snapshots of any conversation
          Periods    \* periods of a report

AllTime == 1..MaxTime

Turn == [user : Seq(Nat), assistant : Seq(Nat), images : Seq(Nat), chunks : Nat,
         tools : Seq(STRING), start : Nat]
Snap == [created : Nat, updated : Nat, summary : Nat, turns : Seq(Turn)]

ASSUME ReportsAssumption ==
  /\ CharsPerToken \in Nat \ {0}
  /\ TurnOf \in [Conversations -> [AllTime -> Turn]]
  /\ SummaryOf \in [Conversations -> Nat]
  /\ \A s \in Snaps : s \in Snap
  /\ Periods \in SUBSET SUBSET AllTime

-----------------------------------------------------------------------------
(* The events of a Collect.                                                *)

\* Kiro only adds turns: a snapshot has the first ones of its conversation.
Contents(s) ==
  [created |-> s.created, updated |-> s.updated, summary |-> SummaryOf[s.conv],
   turns |-> [i \in DOMAIN s.turns |-> [TurnOf[s.conv][i] EXCEPT !.start = s.turns[i]]]]

EventsOf(s) == parseSnapshot(Contents(s), CharsPerToken, AllTime)

\* Of two events of the result with one id the later one has the last word: it
\* is not older, and an end of a session comes later; it counts no fewer tokens,
\* the events that are about the whole session for conversations_v2, the others
\* always (the seen map of Collect, parseSnapshot).  Of a conversation of the older
\* table of which a snapshot had no time only the tokens of the turns are claimed.
LastWord ==
  at = "done" => \A i, j \in DOMAIN taken :
    (i < j /\ taken[i].conv = taken[j].conv) =>
      LET old == ToSet(EventsOf(taken[i]))  new == ToSet(EventsOf(taken[j])) IN
      \A e \in old, f \in new : (e.id = f.id /\ e.id[1] # "start") =>
        /\ taken[i].conv \in V2 \/ taken[i].conv \notin undated =>
             e.time <= f.time /\ (e.id[1] = "end" => e.time < f.time)
        /\ taken[i].conv \in V2 \/ e.id[2] # 0 => e.tokens <= f.tokens

-----------------------------------------------------------------------------
(* The numbers of a snapshot.                                              *)

\* Every token is written to the cache once, and every turn but the first reads
\* all that was said before it.
CacheSums ==
  \A s \in Snaps :
    LET usages == estimateUsages(s.turns, s.summary, CharsPerToken)
        Said(n) == SumOf([i \in 1..n |-> turnTextAndTools(s.turns[i], CharsPerToken).user
                                    + turnTextAndTools(s.turns[i], CharsPerToken).assistant])
        Written(n) == SumOf([i \in 1..n |-> usages[i].cacheWrite])
    IN \A n \in DOMAIN usages :
         /\ n > 1 => usages[n].cacheRead = s.summary \div CharsPerToken + Said(n - 1)
         /\ Written(n) = Said(n - 1) + usages[n].input

TokensOf(type, events) ==
  SumOf([i \in DOMAIN events |-> IF events[i].id[1] = type THEN events[i].tokens ELSE 0])

TotalsMatch ==
  \A s \in Snaps : \A events \in {parseSnapshot(s, CharsPerToken, AllTime)} :
    (/\ \/ \A i \in DOMAIN s.turns : s.turns[i].start = 0
        \/ \A i \in DOMAIN s.turns : s.turns[i].start \in AllTime
     /\ \E i \in DOMAIN events : events[i].id[1] = "end")
      => TokensOf("usage", events) = TokensOf("end", events)

PeriodsSplit ==
  \A s \in Snaps :
    \A all \in {ToSet(parseSnapshot(s, CharsPerToken, AllTime))}, period \in Periods :
      ToSet(parseSnapshot(s, CharsPerToken, period)) = {e \in all : e.time \in period}

\* The numbers of the events of a Collect add up.  Every token of a conversation
\* is written to the cache once, and every turn but the first reads all that was
\* said before it (estimateUsages).  The usage events of a session add up to the
\* total its end reports, when all of its turns have a time or none has.  A
\* period only selects: what reports of adjoining periods contain is what one
\* report of them all contains, with the same numbers (parseSnapshot).
EventsAddUp == at = "done" => CacheSums /\ TotalsMatch /\ PeriodsSplit
=============================================================================
