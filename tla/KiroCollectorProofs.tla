------------------------ MODULE KiroCollectorProofs ------------------------
(***************************************************************************)
(* Proofs about KiroCollector and KiroReports, for any number of           *)
(* conversations, files, turns and characters to a token and for any time: *)
(* types; the order in which snapshots are taken; a Collect without a      *)
(* diagnostic has taken everything; the numbers of a snapshot add up; and  *)
(* of two events with one id the later one has the last word.              *)
(***************************************************************************)
EXTENDS KiroReports, Folding, WellFoundedInduction, TLAPS

-----------------------------------------------------------------------------
(* Types.                                                                  *)

\* What Kiro and the archiver keep by a time: an archive may lack its dates.
KeptBy(t) == [conv : Conversations, created : 0..t, updated : 0..t, turns : Seq(0..t)]

\* What Collect takes has both its times, or not that of its last change.
Found == Dated \cup Undated

\* What the types of the collector's snapshots rest on: every time lies in the
\* past, and a row with turns and a file have dates.
DatesKnown ==
  /\ \A c \in Conversations : rows[c].turns \in Seq(0..clock)
  /\ \A c \in Conversations :
       rows[c].turns # <<>> => rows[c].created > 0 /\ rows[c].updated > 0 /\ dbTime > 0
  /\ copied \in SUBSET KeptBy(clock)
  /\ files \in [1..MaxFiles -> SUBSET [snap : KeptBy(clock), mtime : 1..clock]]
  /\ hand \in SUBSET [name : 1..MaxFiles, snap : KeptBy(clock)]

TypeInv == TypeOK /\ DatesKnown

\* A sequence over a set is one over a larger set.
LEMMA SeqGrows ==
  ASSUME NEW S, NEW T, S \subseteq T, NEW s \in Seq(S)
  PROVE  s \in Seq(T) /\ (\A i \in DOMAIN s : s[i] \in S)
  <1>1. DOMAIN s = 1..Len(s) /\ \A i \in 1..Len(s) : s[i] \in S
    OBVIOUS
  <1>2. \A i \in 1..Len(s) : s[i] \in T
    BY <1>1
  <1> QED BY <1>1, <1>2

\* What lies in the past stays there.
LEMMA PastGrows ==
  ASSUME NEW t \in Nat, NEW u \in Nat, t <= u
  PROVE  /\ Seq(0..t) \subseteq Seq(0..u)
         /\ KeptBy(t) \subseteq KeptBy(u)
  <1>1. 0..t \subseteq 0..u
    OBVIOUS
  <1>2. Seq(0..t) \subseteq Seq(0..u)
    BY <1>1, SeqGrows
  <1> QED BY <1>1, <1>2 DEF KeptBy

LEMMA KeptIsStored ==
  ASSUME TypeInv
  PROVE  KeptBy(clock) \subseteq Stored
  <1>1. clock \in Nat /\ MaxTime \in Nat /\ clock <= MaxTime
    BY KiroAssumption DEF TypeInv, TypeOK, Times
  <1>2. KeptBy(MaxTime) = Stored
    BY DEF KeptBy, Stored, Times
  <1> QED BY <1>1, <1>2, PastGrows

\* A snapshot that is taken has its types from its archive or its row.
LEMMA TakeTypes ==
  ASSUME TypeInv, NEW s \in Found, NEW unreadable \in BOOLEAN,
         Take(s, unreadable) \/ Diagnose
  PROVE  /\ seen' \in [Conversations -> 0..clock]
         /\ taken' \in Seq(Found)
         /\ diagnosed' \in BOOLEAN
         /\ undated' \in SUBSET Conversations
  <1>1. s.conv \in Conversations /\ s.updated \in 0..clock
    <2>1. clock \in Nat
      BY DEF TypeInv, TypeOK, Times
    <2> QED BY <2>1 DEF Found, Dated, Undated
  <1>2. /\ taken \in Seq(Found) /\ Append(taken, s) \in Seq(Found)
        /\ seen \in [Conversations -> 0..clock] /\ undated \in SUBSET Conversations
        /\ diagnosed \in BOOLEAN
    BY DEF TypeInv, TypeOK, Found
  <1> QED BY <1>1, <1>2 DEF Take, Unseen, Skip, Note, Parse, Diagnose

\* An archive without dates gets one from its file, if that can be had.
LEMMA ArchiveIsDated ==
  ASSUME TypeInv, NEW snap \in KeptBy(clock), NEW mtime \in 0..clock
  PROVE  /\ FromArchive(snap, mtime) \in Found
         /\ FromArchive(snap, mtime).conv = snap.conv
  <1>1. clock \in Nat /\ snap.turns \in Seq(Times) /\ snap.conv \in Conversations
    <2>1. clock \in Nat /\ MaxTime \in Nat /\ clock <= MaxTime
      BY KiroAssumption DEF TypeInv, TypeOK, Times
    <2> QED BY <2>1, PastGrows DEF KeptBy, Times
  <1>2. snap.created \in 0..clock /\ snap.updated \in 0..clock
    BY DEF KeptBy
  <1> QED BY <1>1, <1>2 DEF FromArchive, Snapshot, Found, Dated, Undated

\* A set of times has a first and a last one.
LEMMA FirstAndLast ==
  ASSUME NEW t \in Nat, NEW S \in SUBSET (1..t), S # {}
  PROVE  Min(S) \in S /\ Max(S) \in S
<1>1. \E x \in S : \A y \in S : x <= y
  <2>1. S \subseteq Nat
    OBVIOUS
  <2>2. \E x \in S : \A y \in S : ~(<<y, x>> \in OpToRel(<, Nat))
    BY <2>1, NatLessThanWellFounded, WFMin
  <2>3. PICK x \in S : \A y \in S : ~(y < x)
    BY <2>1, <2>2 DEF OpToRel
  <2> QED BY <2>1, <2>3
<1>2. \E x \in S : \A y \in S : x >= y
  <2> DEFINE T == {t - x : x \in S}
  <2>1. T \subseteq Nat /\ T # {}
    <3>1. \A x \in S : x \in Nat /\ t - x \in Nat
      OBVIOUS
    <3> QED BY <3>1
  <2>2. \E d \in T : \A e \in T : ~(<<e, d>> \in OpToRel(<, Nat))
    <3> HIDE DEF T
    <3> QED BY <2>1, NatLessThanWellFounded, WFMin
  <2>3. PICK d \in T : \A e \in T : ~(e < d)
    BY <2>1, <2>2 DEF OpToRel
  <2>4. PICK x \in S : d = t - x
    BY <2>3
  <2>5. ASSUME NEW y \in S PROVE x >= y
    <3>1. ~(t - y < t - x)
      BY <2>3, <2>4
    <3>2. x \in Nat /\ y \in Nat
      OBVIOUS
    <3> QED BY <3>1, <3>2
  <2> QED BY <2>5
<1> QED BY <1>1, <1>2 DEF Min, Max

\* A query dates every row, one of the older table by its turns or by the file,
\* when that has a time.
LEMMA RowsAreDated ==
  ASSUME TypeInv, NEW table \in {"v2", "legacy"}, at = table
  PROVE  RowsOf(table) \subseteq Found
<1>1. clock \in Nat /\ fallback \in 0..clock /\ Seq(0..clock) \subseteq Seq(Times)
  <2>1. clock \in Nat /\ MaxTime \in Nat /\ clock <= MaxTime
    BY KiroAssumption DEF TypeInv, TypeOK, Times
  <2> QED BY <2>1, PastGrows DEF TypeInv, TypeOK, DatesKnown, Times
<1>2. ASSUME NEW c \in Conversations, rows[c].turns # <<>>
      PROVE  /\ rows[c].turns \in Seq(0..clock)
             /\ rows[c].created \in 1..clock /\ rows[c].updated \in 1..clock
  BY <1>1, <1>2 DEF TypeInv, TypeOK, DatesKnown
<1>3. ASSUME NEW c \in Conversations, rows[c].turns # <<>>,
             NEW b, b = conversationBounds(rows[c].turns, fallback)
      PROVE  \/ b.first \in 1..clock /\ b.last \in 1..clock
             \/ b.first = 0 /\ b.last = 0
  <2> DEFINE known == {rows[c].turns[i] : i \in DOMAIN rows[c].turns} \ {0}
  <2>1. known \in SUBSET (1..clock)
    <3>1. rows[c].turns \in Seq(0..clock)
      BY <1>2, <1>3
    <3>2. \A i \in DOMAIN rows[c].turns : rows[c].turns[i] \in 0..clock
      BY <3>1, SeqGrows
    <3> QED BY <3>2, <1>1
  <2>2. CASE known = {}
    BY <1>1, <1>3, <2>2 DEF conversationBounds
  <2>3. CASE known # {}
    <3>1. b = [first |-> Min(known), last |-> Max(known)]
      BY <1>3, <2>3 DEF conversationBounds
    <3>2. Min(known) \in known /\ Max(known) \in known
      <4> HIDE DEF known
      <4> QED BY <1>1, <2>1, <2>3, FirstAndLast
    <3> QED BY <3>1, <3>2, <2>1
  <2> QED BY <2>2, <2>3
<1>4. ASSUME NEW c \in Conversations, rows[c].turns # <<>>
      PROVE  /\ Snapshot(c, rows[c].created, rows[c].updated, rows[c].turns) \in Found
             /\ LET bounds == conversationBounds(rows[c].turns, fallback) IN
                Snapshot(c, bounds.first, bounds.last, rows[c].turns) \in Found
  BY <1>1, <1>2, <1>3, <1>4 DEF Snapshot, Found, Dated, Undated
<1> QED BY <1>4 DEF RowsOf

\* A step keeps the types and the dates.
LEMMA WorldTypes ==
  ASSUME TypeInv, Kiro \/ Archiver \/ Cancel
  PROVE  TypeInv'
<1>1. clock \in Nat /\ MaxTime \in Nat /\ clock <= MaxTime /\ MaxFiles \in Nat
  BY KiroAssumption DEF TypeInv, TypeOK, Times
<1>2. clock' \in Nat /\ clock <= clock' /\ clock' <= MaxTime /\ clock' \in Times
  BY <1>1 DEF Kiro, Archiver, StoreTurn, Forget, CopyRow, WriteArchive, Cancel, ClockMoves, Now,
              world, Times
<1>3. /\ KeptBy(clock) \subseteq KeptBy(clock') /\ KeptBy(clock') \subseteq Stored
      /\ Seq(0..clock) \subseteq Seq(0..clock') /\ Seq(0..clock') \subseteq Seq(Times)
  <2>1. KeptBy(MaxTime) = Stored
    BY DEF KeptBy, Stored, Times
  <2> QED BY <1>1, <1>2, <2>1, PastGrows DEF Times
<1>4. Found \subseteq Found'
  BY <1>1, <1>2 DEF Found, Dated, Undated
<1>5. /\ UNCHANGED <<at, names, hand, left, fallback, seen, taken, diagnosed, undated>>
      /\ cancelled' \in BOOLEAN
  BY DEF Kiro, Archiver, StoreTurn, Forget, CopyRow, WriteArchive, Cancel, collector, TypeInv, TypeOK
<1>6. /\ rows' \in [Conversations -> [created : 0..clock', updated : 0..clock', turns : Seq(Times)]]
      /\ \A c \in Conversations : rows'[c].turns \in Seq(0..clock')
      /\ \A c \in Conversations :
           rows'[c].turns # <<>> => rows'[c].created > 0 /\ rows'[c].updated > 0 /\ dbTime' > 0
      /\ dbTime' \in 0..clock'
      /\ before' \in [Conversations -> Nat]
  <2>1. ASSUME NEW c \in Conversations, StoreTurn(c) PROVE <1>6
    <3>1. PICK start \in {0} \cup IF c \in Timed THEN (rows[c].updated + 1)..Now ELSE {} :
            rows' = [rows EXCEPT ![c] = Row(IF @.created = 0 THEN Now ELSE @.created, Now,
                                            Append(@.turns, start))]
      BY <2>1 DEF StoreTurn
    <3>2. /\ clock' = clock + 1 /\ dbTime' = clock + 1 /\ UNCHANGED before
          /\ \A d \in Conversations : rows[d].turns \in Seq(0..clock)
          /\ \A d \in Conversations : rows[d].created \in 0..clock /\ rows[d].updated \in 0..clock
      BY <2>1 DEF StoreTurn, ClockMoves, Now, TypeInv, TypeOK, DatesKnown
    <3>3. start \in 0..clock'
      BY <1>1, <3>2 DEF Now
    <3>4. Append(rows[c].turns, start) \in Seq(0..clock')
      <4>1. rows[c].turns \in Seq(0..clock')
        BY <1>3, <3>2
      <4> QED BY <3>3, <4>1
    <3>5. /\ rows'[c] = Row(IF rows[c].created = 0 THEN Now ELSE rows[c].created, Now,
                            Append(rows[c].turns, start))
          /\ \A d \in Conversations : d # c => rows'[d] = rows[d]
          /\ DOMAIN rows' = Conversations /\ rows' = [d \in Conversations |-> rows'[d]]
      BY <3>1 DEF TypeInv, TypeOK
    <3>6. /\ rows'[c] \in [created : 0..clock', updated : 0..clock', turns : Seq(Times)]
          /\ rows'[c].turns \in Seq(0..clock') /\ rows'[c].created > 0 /\ rows'[c].updated > 0
      <4>1. Append(rows[c].turns, start) \in Seq(Times)
        BY <1>3, <3>4
      <4>2. /\ (IF rows[c].created = 0 THEN Now ELSE rows[c].created) \in 1..clock'
            /\ Now \in 1..clock'
        BY <1>1, <3>2 DEF Now
      <4> QED BY <3>4, <3>5, <4>1, <4>2 DEF Row
    <3>7. ASSUME NEW d \in Conversations, d # c
          PROVE  /\ rows'[d] \in [created : 0..clock', updated : 0..clock', turns : Seq(Times)]
                 /\ rows'[d].turns \in Seq(0..clock')
                 /\ rows'[d].turns # <<>> => rows'[d].created > 0 /\ rows'[d].updated > 0
      <4>1. /\ rows[d] \in [created : 0..clock, updated : 0..clock, turns : Seq(Times)]
            /\ rows[d].turns # <<>> => rows[d].created > 0 /\ rows[d].updated > 0
        BY DEF TypeInv, TypeOK, DatesKnown
      <4>2. 0..clock \subseteq 0..clock'
        BY <1>1, <1>2
      <4>3. rows[d] \in [created : 0..clock', updated : 0..clock', turns : Seq(Times)]
        BY <4>1, <4>2
      <4>4. rows[d].turns \in Seq(0..clock') /\ rows'[d] = rows[d]
        BY <1>3, <3>2, <3>5, <3>7
      <4> QED BY <4>1, <4>3, <4>4
    <3>8. rows' \in [Conversations -> [created : 0..clock', updated : 0..clock', turns : Seq(Times)]]
      BY <3>5, <3>6, <3>7
    <3>9. dbTime' > 0 /\ dbTime' \in 0..clock'
      BY <1>1, <3>2
    <3> QED BY <3>2, <3>6, <3>7, <3>8, <3>9 DEF TypeInv, TypeOK
  <2>2. ASSUME NEW c \in Conversations, Forget(c) PROVE <1>6
    <3>1. /\ clock' = clock + 1 /\ dbTime' = clock + 1
          /\ rows' = [rows EXCEPT ![c].turns = <<>>] /\ before' = [before EXCEPT ![c] = 0]
      BY <2>2 DEF Forget, ClockMoves, Now
    <3>2. <<>> \in Seq(Times) /\ <<>> \in Seq(0..clock')
      OBVIOUS
    <3>3. /\ \A d \in Conversations : rows[d].turns \in Seq(0..clock')
          /\ \A d \in Conversations : rows[d] \in [created : 0..clock', updated : 0..clock', turns : Seq(Times)]
      BY <1>1, <1>2, <1>3 DEF TypeInv, TypeOK, DatesKnown
    <3>4. \A d \in Conversations :
            rows'[d] = [rows[d] EXCEPT !.turns = IF d = c THEN <<>> ELSE @]
      BY <3>1 DEF TypeInv, TypeOK
    <3>5. rows' \in [Conversations -> [created : 0..clock', updated : 0..clock', turns : Seq(Times)]]
      <4>1. rows' = [d \in Conversations |-> rows'[d]]
        BY <3>1 DEF TypeInv, TypeOK
      <4>2. \A d \in Conversations :
              rows'[d] \in [created : 0..clock', updated : 0..clock', turns : Seq(Times)]
        BY <3>2, <3>3, <3>4
      <4> QED BY <4>1, <4>2
    <3>6. \A d \in Conversations : rows'[d].turns \in Seq(0..clock')
      BY <3>2, <3>3, <3>4
    <3>7. \A d \in Conversations :
            rows'[d].turns # <<>> => rows'[d].created > 0 /\ rows'[d].updated > 0
      BY <3>3, <3>4 DEF TypeInv, DatesKnown
    <3>8. dbTime' > 0 /\ dbTime' \in 0..clock' /\ before' \in [Conversations -> Nat]
      BY <1>1, <3>1 DEF TypeInv, TypeOK
    <3> QED BY <3>5, <3>6, <3>7, <3>8
  <2>3. ASSUME UNCHANGED <<rows, dbTime, before>> PROVE <1>6
    BY <1>1, <1>2, <1>3, <2>3 DEF TypeInv, TypeOK, DatesKnown
  <2> QED BY <2>1, <2>2, <2>3 DEF Kiro, Archiver, CopyRow, WriteArchive, Cancel, world
<1>7. /\ copied' \in SUBSET KeptBy(clock')
      /\ files' \in [1..MaxFiles -> SUBSET [snap : KeptBy(clock'), mtime : 1..clock']]
  <2>1. ASSUME NEW c \in Conversations, CopyRow(c) PROVE <1>7
    <3>1. /\ Snapshot(c, rows[c].created, rows[c].updated, rows[c].turns) \in KeptBy(clock)
          /\ Snapshot(c, 0, 0, rows[c].turns) \in KeptBy(clock)
      BY <1>1 DEF Snapshot, KeptBy, TypeInv, TypeOK, DatesKnown
    <3> QED BY <2>1, <3>1, <1>3 DEF CopyRow, TypeInv, DatesKnown
  <2>2. ASSUME NEW n \in 1..MaxFiles, WriteArchive(n) PROVE <1>7
    <3>1. PICK s \in copied : files' = [files EXCEPT ![n] = {[snap |-> s, mtime |-> Now]}]
      BY <2>2 DEF WriteArchive
    <3>2. clock' = clock + 1 /\ copied' = {} /\ Now = clock'
      BY <2>2 DEF WriteArchive, ClockMoves, Now
    <3>3. {[snap |-> s, mtime |-> Now]} \in SUBSET [snap : KeptBy(clock'), mtime : 1..clock']
      BY <1>1, <1>3, <3>2 DEF TypeInv, DatesKnown
    <3>4. ASSUME NEW m \in 1..MaxFiles
          PROVE  files[m] \in SUBSET [snap : KeptBy(clock'), mtime : 1..clock']
      BY <1>1, <1>2, <1>3 DEF TypeInv, DatesKnown
    <3> QED BY <3>1, <3>2, <3>3, <3>4 DEF TypeInv, DatesKnown
  <2>3. ASSUME UNCHANGED <<copied, files>> PROVE <1>7
    BY <1>1, <1>2, <1>3, <2>3 DEF TypeInv, DatesKnown
  <2> QED BY <2>1, <2>2, <2>3 DEF Kiro, Archiver, StoreTurn, Forget, Cancel, world
<1>8. /\ copied' \in SUBSET Stored
      /\ files' \in [1..MaxFiles -> SUBSET [snap : Stored, mtime : 0..clock']]
      /\ hand' \in SUBSET [name : 1..MaxFiles, snap : KeptBy(clock')]
      /\ left' \in SUBSET Found' /\ taken' \in Seq(Found')
  <2>1. taken \in Seq(Found) /\ left \subseteq Found
    BY DEF TypeInv, TypeOK, Found
  <2>2. taken \in Seq(Found')
    BY <1>4, <2>1, SeqGrows
  <2> QED BY <1>2, <1>3, <1>4, <1>5, <1>7, <2>1, <2>2 DEF TypeInv, TypeOK, DatesKnown
<1>9. fallback' \in 0..clock' /\ seen' \in [Conversations -> 0..clock']
  BY <1>1, <1>2, <1>5 DEF TypeInv, TypeOK
<1> QED
  BY <1>2, <1>5, <1>6, <1>7, <1>8, <1>9 DEF TypeInv, TypeOK, DatesKnown, Found

LEMMA CollectTypes ==
  ASSUME TypeInv, Collect
  PROVE  TypeInv'
<1>1. clock \in Nat /\ MaxTime \in Nat /\ clock <= MaxTime /\ MaxFiles \in Nat
  BY KiroAssumption DEF TypeInv, TypeOK, Times
<1>2. UNCHANGED <<clock, rows, dbTime, copied, files, cancelled>>
  BY DEF Collect, CollectSQLite, ReadDir, ReadArchive, DateArchive, StopReading, StatDatabase,
         Query, ScanRow, EndRows, world
<1>11. Found' = Found /\ Dated' = Dated /\ Undated' = Undated
  BY <1>2 DEF Found, Dated, Undated
<1>3. CASE ReadDir
  <2>1. before' \in [Conversations -> Nat]
    <3>1. \A c \in Conversations : Len(rows[c].turns) \in Nat
      BY DEF TypeInv, TypeOK
    <3> QED BY <1>3, <3>1 DEF ReadDir
  <2>2. /\ names' \in SUBSET (1..MaxFiles) /\ diagnosed' \in BOOLEAN /\ at' = "files"
        /\ UNCHANGED <<hand, left, fallback, seen, taken, undated>>
    BY <1>3 DEF ReadDir, TypeInv, TypeOK
  <2> QED BY <1>2, <1>11, <2>1, <2>2 DEF TypeInv, TypeOK, DatesKnown
<1>4. CASE ReadArchive
  <2>1. PICK n \in names :
          /\ names' = names \ {n}
          /\ \/ \E file \in files[n] :
                  IF file.snap.updated = 0
                    THEN hand' = {[name |-> n, snap |-> file.snap]} /\ Skip
                    ELSE Take(FromArchive(file.snap, file.mtime), TRUE) /\ UNCHANGED hand
             \/ Diagnose /\ UNCHANGED hand
    BY <1>4 DEF ReadArchive
  <2>2. n \in 1..MaxFiles /\ names' \in SUBSET (1..MaxFiles)
    BY <2>1 DEF TypeInv, TypeOK
  <2>3. ASSUME NEW file \in files[n] PROVE file.snap \in KeptBy(clock) /\ file.mtime \in 1..clock
    BY <2>2 DEF TypeInv, DatesKnown
  <2>4. /\ seen' \in [Conversations -> 0..clock] /\ taken' \in Seq(Found)
        /\ diagnosed' \in BOOLEAN /\ undated' \in SUBSET Conversations
        /\ hand' \in SUBSET [name : 1..MaxFiles, snap : KeptBy(clock)]
    <3>1. ASSUME NEW file \in files[n], file.snap.updated = 0,
                 hand' = {[name |-> n, snap |-> file.snap]} /\ Skip
          PROVE  <2>4
      BY <2>2, <2>3, <3>1 DEF Skip, TypeInv, TypeOK, Found
    <3>2. ASSUME NEW file \in files[n],
                 Take(FromArchive(file.snap, file.mtime), TRUE) /\ UNCHANGED hand
          PROVE  <2>4
      <4>1. FromArchive(file.snap, file.mtime) \in Found
        <5>1. file.snap \in KeptBy(clock) /\ file.mtime \in 0..clock
          BY <1>1, <2>3, <3>2
        <5> QED BY <5>1, ArchiveIsDated
      <4> QED BY <3>2, <4>1, TakeTypes DEF TypeInv, DatesKnown
    <3>3. ASSUME Diagnose /\ UNCHANGED hand PROVE <2>4
      BY <3>3 DEF Diagnose, TypeInv, TypeOK, DatesKnown, Found
    <3> QED BY <2>1, <3>1, <3>2, <3>3
  <2>5. UNCHANGED <<at, left, fallback, before>>
    BY <1>4 DEF ReadArchive
  <2> QED BY <1>1, <1>2, <1>11, <2>2, <2>4, <2>5, KeptIsStored DEF TypeInv, TypeOK, DatesKnown, Found
<1>5. CASE DateArchive
  <2>1. PICK h \in hand : \E mtime \in ModUnixMS(h.name) : Take(FromArchive(h.snap, mtime), TRUE)
    BY <1>5 DEF DateArchive
  <2>2. PICK mtime \in ModUnixMS(h.name) : Take(FromArchive(h.snap, mtime), TRUE)
    BY <2>1
  <2>3. h.name \in 1..MaxFiles /\ h.snap \in KeptBy(clock) /\ mtime \in 0..clock
    BY <1>1, <2>1, <2>2 DEF TypeInv, DatesKnown, ModUnixMS
  <2>4. /\ seen' \in [Conversations -> 0..clock] /\ taken' \in Seq(Found)
        /\ diagnosed' \in BOOLEAN /\ undated' \in SUBSET Conversations
    BY <2>2, <2>3, ArchiveIsDated, TakeTypes
  <2>5. hand' = {} /\ UNCHANGED <<at, names, left, fallback, before>>
    BY <1>5 DEF DateArchive
  <2>7. TypeOK'
    <3>1. /\ at' \in {"idle", "files", "v2", "scanV2", "legacy", "scanLegacy", "done", "failed"}
          /\ names' \in SUBSET (1..MaxFiles)
          /\ hand' \in SUBSET [name : 1..MaxFiles, snap : Stored]
          /\ left' \in SUBSET (Dated \cup Undated)' /\ taken' \in Seq(Dated \cup Undated)'
          /\ undated' \in SUBSET Conversations
      BY <1>11, <2>4, <2>5 DEF TypeInv, TypeOK, Found
    <3>2. fallback' \in 0..clock' /\ seen' \in [Conversations -> 0..clock'] /\ before' \in [Conversations -> Nat]
      BY <1>2, <2>4, <2>5 DEF TypeInv, TypeOK
    <3>3. /\ clock' \in Times /\ dbTime' \in 0..clock'
          /\ rows' \in [Conversations -> [created : 0..clock', updated : 0..clock', turns : Seq(Times)]]
          /\ copied' \in SUBSET Stored
          /\ files' \in [1..MaxFiles -> SUBSET [snap : Stored, mtime : 0..clock']]
          /\ cancelled' \in BOOLEAN
      BY <1>2 DEF TypeInv, TypeOK
    <3> QED BY <2>4, <3>1, <3>2, <3>3 DEF TypeOK
  <2>8. DatesKnown'
    BY <1>2, <2>5 DEF TypeInv, DatesKnown
  <2> QED BY <2>7, <2>8 DEF TypeInv
<1>6. CASE StopReading
  BY <1>2, <1>11, <1>6 DEF StopReading, Skip, TypeInv, TypeOK, DatesKnown
<1>7. CASE StatDatabase
  BY <1>1, <1>2, <1>11, <1>7 DEF StatDatabase, Skip, TypeInv, TypeOK, DatesKnown
<1>8. ASSUME NEW table \in {"v2", "legacy"}, Query(table) PROVE TypeInv'
  <2>1. left' \in SUBSET Found
    BY <1>8, RowsAreDated DEF Query, TypeInv, TypeOK, Found
  <2>2. /\ diagnosed' \in BOOLEAN
        /\ at \in {"v2", "legacy"} /\ at' \in {"scanV2", "scanLegacy", "legacy", "done"}
        /\ UNCHANGED <<names, hand, fallback, seen, taken, undated, before>>
    BY <1>8 DEF Query, After, Scanning, TypeInv, TypeOK
  <2> QED BY <1>2, <1>11, <2>1, <2>2 DEF TypeInv, TypeOK, DatesKnown, Found
<1>9. ASSUME NEW table \in {"v2", "legacy"}, ScanRow(table) PROVE TypeInv'
  <2>1. PICK s \in left : left' = left \ {s} /\ (Take(s, table = "v2") \/ Diagnose)
    BY <1>9 DEF ScanRow
  <2>2. s \in Found /\ left' \in SUBSET Found
    BY <2>1 DEF TypeInv, TypeOK, Found
  <2>3. /\ seen' \in [Conversations -> 0..clock] /\ taken' \in Seq(Found)
        /\ diagnosed' \in BOOLEAN /\ undated' \in SUBSET Conversations
    BY <2>1, <2>2, TakeTypes
  <2>4. UNCHANGED <<at, names, hand, fallback, before>>
    BY <1>9 DEF ScanRow
  <2> QED BY <1>2, <1>11, <2>2, <2>3, <2>4 DEF TypeInv, TypeOK, DatesKnown, Found
<1>10. ASSUME NEW table \in {"v2", "legacy"}, EndRows(table) PROVE TypeInv'
  <2>1. /\ left' = {} /\ at \in {"scanV2", "scanLegacy"} /\ at' \in {"legacy", "done", "failed"}
        /\ UNCHANGED <<names, hand, fallback, seen, taken, diagnosed, undated, before>>
    BY <1>10 DEF EndRows, Skip, After, Scanning
  <2> QED BY <1>2, <1>11, <2>1 DEF TypeInv, TypeOK, DatesKnown
<1> QED
  BY <1>3, <1>4, <1>5, <1>6, <1>7, <1>8, <1>9, <1>10 DEF Collect, CollectSQLite

LEMMA InitTypes ==
  ASSUME Init
  PROVE  TypeInv
<1>1. <<>> \in Seq(Times) /\ <<>> \in Seq(0..0) /\ <<>> \in Seq(Dated \cup Undated)
  OBVIOUS
<1>2. clock = 0 /\ clock \in Times
  BY KiroAssumption DEF Init, Times
<1>3. /\ rows \in [Conversations -> [created : 0..clock, updated : 0..clock, turns : Seq(Times)]]
      /\ \A c \in Conversations : rows[c].turns = <<>> /\ rows[c].turns \in Seq(0..clock)
  <2>1. [created |-> 0, updated |-> 0, turns |-> <<>>]
          \in [created : 0..clock, updated : 0..clock, turns : Seq(Times)]
    BY <1>1, <1>2
  <2>2. rows = [c \in Conversations |-> [created |-> 0, updated |-> 0, turns |-> <<>>]]
    BY DEF Init, Row
  <2>3. \A c \in Conversations : rows[c].turns = <<>>
    BY <2>2
  <2> QED BY <1>1, <1>2, <2>1, <2>2, <2>3
<1>4. /\ files \in [1..MaxFiles -> SUBSET [snap : Stored, mtime : 0..clock]]
      /\ files \in [1..MaxFiles -> SUBSET [snap : KeptBy(clock), mtime : 1..clock]]
      /\ seen \in [Conversations -> 0..clock] /\ before \in [Conversations -> Nat]
  BY <1>2 DEF Init
<1>5. DatesKnown
  BY <1>3, <1>4 DEF Init, DatesKnown
<1>6. TypeOK
  <2>1. taken \in Seq(Dated \cup Undated) /\ undated \in SUBSET Conversations
    BY <1>1 DEF Init
  <2>2. /\ dbTime \in 0..clock /\ fallback \in 0..clock
        /\ copied = {} /\ names = {} /\ hand = {} /\ left = {}
        /\ at = "idle" /\ cancelled \in BOOLEAN /\ diagnosed \in BOOLEAN
    <3>1. /\ dbTime = 0 /\ fallback = 0 /\ cancelled = FALSE /\ diagnosed = FALSE
          /\ copied = {} /\ names = {} /\ hand = {} /\ left = {} /\ at = "idle"
      BY Zenon DEF Init
    <3>2. dbTime \in 0..clock /\ fallback \in 0..clock
      BY <1>2, <3>1
    <3> QED BY <3>1, <3>2, Zenon
  <2> QED BY <1>2, <1>3, <1>4, <2>1, <2>2 DEF TypeOK
<1> QED BY <1>5, <1>6 DEF TypeInv

LEMMA TypeKept ==
  ASSUME TypeInv, [Next]_vars
  PROVE  TypeInv'
  <1>1. ASSUME UNCHANGED vars PROVE TypeInv'
    BY <1>1 DEF vars, world, collector, TypeInv, TypeOK, DatesKnown, Dated, Undated
  <1> QED BY <1>1, WorldTypes, CollectTypes DEF Next

\* Every variable has its type: TypeOK of KiroCollector.
THEOREM TypeCorrect == Spec => []TypeOK
<1>1. Init => TypeInv
  BY InitTypes
<1>2. TypeInv /\ [Next]_vars => TypeInv'
  BY TypeKept
<1> QED
  BY <1>1, <1>2, PTL DEF Spec, TypeInv

-----------------------------------------------------------------------------
(* From old to new.                                                        *)

\* The row of a conversation of conversations_v2, as everybody reads it.
Present(c) == Snapshot(c, rows[c].created, rows[c].updated, rows[c].turns)

Archives == UNION {files[n] : n \in 1..MaxFiles}

\* Every snapshot of conversations_v2, wherever it is kept.
Known ==
  {s \in copied \cup {file.snap : file \in Archives}
           \cup left \cup {taken[i] : i \in DOMAIN taken}
           \cup {Present(c) : c \in {d \in Conversations : rows[d].turns # <<>>}} :
     s.conv \in V2}

\* They have dates of their own, none later than their row.
OwnDates ==
  \A s \in Known :
    /\ s.conv \in Conversations
    /\ s.created > 0 /\ s.updated > 0 /\ s.updated <= rows[s.conv].updated
    /\ rows[s.conv].created > 0

\* The newer one has more turns: this is why dates can stand for contents.
Ordered ==
  \A s, t \in Known :
    s.conv = t.conv => (s.updated < t.updated <=> Len(s.turns) < Len(t.turns))

\* Only the older conversations are asked for the date of their file.
UndatedIsOld == \A h \in hand : h.snap.conv \notin V2

\* Only they may be without a time when they are taken.
UndatedNoted ==
  /\ \A i \in DOMAIN taken : taken[i].updated = 0 => taken[i].conv \in undated
  /\ undated \cap V2 = {}

\* seen never falls behind what was taken, but for a snapshot without a time.
SeenIsLast ==
  \A i \in DOMAIN taken :
    taken[i].conv \in undated \/ taken[i].updated <= seen[taken[i].conv]

OrderInv == OwnDates /\ Ordered /\ UndatedIsOld /\ UndatedNoted /\ SeenIsLast /\ NewestLast

\* Times of snapshots and lengths are numbers.
LEMMA KnownTypes ==
  ASSUME TypeInv, NEW s \in Known
  PROVE  s.updated \in Nat /\ Len(s.turns) \in Nat /\ s.conv \in V2
<1>1. clock \in Nat /\ MaxTime \in Nat
  BY KiroAssumption DEF TypeInv, TypeOK, Times
<1>2. ASSUME s \in KeptBy(clock) \/ s \in Found PROVE s.updated \in Nat /\ Len(s.turns) \in Nat
  BY <1>1, <1>2 DEF KeptBy, Found, Dated, Undated
<1>3. ASSUME NEW c \in Conversations, rows[c].turns # <<>> PROVE Present(c) \in KeptBy(clock)
  BY DEF TypeInv, TypeOK, DatesKnown, Present, Snapshot, KeptBy
<1>4. \A i \in DOMAIN taken : taken[i] \in Found
  BY SeqGrows DEF TypeInv, TypeOK, Found
<1>5. copied \subseteq KeptBy(clock) /\ left \subseteq Found /\ \A f \in Archives : f.snap \in KeptBy(clock)
  BY DEF Archives, TypeInv, TypeOK, DatesKnown, Found
<1> QED BY <1>2, <1>3, <1>4, <1>5 DEF Known

\* Nothing changes the order but a new turn.
LEMMA NothingNew ==
  ASSUME OwnDates, Ordered, Known' \subseteq Known,
         \A c \in Conversations : rows'[c].created = rows[c].created /\ rows'[c].updated = rows[c].updated
  PROVE  OwnDates' /\ Ordered'
  BY DEF OwnDates, Ordered

\* Whatever takes a snapshot takes it in order.
LEMMA TakesInOrder ==
  ASSUME TypeInv, OwnDates, Ordered, UndatedNoted, SeenIsLast, NewestLast,
         NEW s \in Found, s.conv \in V2 => s \in Known,
         NEW unreadable \in BOOLEAN, Take(s, unreadable) \/ Diagnose
  PROVE  /\ UndatedNoted' /\ SeenIsLast' /\ NewestLast'
         /\ \A i \in DOMAIN taken' : taken'[i] = s \/ \E j \in DOMAIN taken : taken'[i] = taken[j]
<1>1. /\ clock \in Nat /\ s.updated \in 0..clock /\ s.conv \in Conversations
      /\ seen \in [Conversations -> 0..clock] /\ taken \in Seq(Found)
      /\ \A i \in DOMAIN taken : taken[i] \in Found
  <2>1. clock \in Nat
    BY KiroAssumption DEF TypeInv, TypeOK, Times
  <2>2. s.updated \in 0..clock /\ s.conv \in Conversations
    BY <2>1 DEF Found, Dated, Undated
  <2>3. seen \in [Conversations -> 0..clock] /\ taken \in Seq(Found)
    BY DEF TypeInv, TypeOK, Found
  <2> QED BY <2>1, <2>2, <2>3, SeqGrows
<1>2. CASE UNCHANGED <<seen, taken, undated>>
  BY <1>2 DEF UndatedNoted, SeenIsLast, NewestLast
<1>3. ASSUME Note(s), Unseen(s),
             undated' = IF s.updated = 0 THEN undated \cup {s.conv} ELSE undated,
             taken' = taken \/ taken' = Append(taken, s)
      PROVE  /\ UndatedNoted' /\ SeenIsLast' /\ NewestLast'
             /\ \A i \in DOMAIN taken' : taken'[i] = s \/ \E j \in DOMAIN taken : taken'[i] = taken[j]
  <2>1. /\ seen'[s.conv] = s.updated
        /\ \A c \in Conversations : c # s.conv => seen'[c] = seen[c]
    BY <1>1, <1>3 DEF Note
  <2>2. s.conv \notin undated' => seen[s.conv] < s.updated
    BY <1>1, <1>3 DEF Unseen
  <2>3. undated \subseteq undated' /\ (s.updated = 0 => s.conv \in undated')
    BY <1>3
  <2>4. undated' \cap V2 = {}
    <3>1. s.conv \in V2 => s.updated # 0
      BY <1>1 DEF OwnDates
    <3> QED BY <1>3, <3>1 DEF UndatedNoted
  <2>5. \A i \in DOMAIN taken :
          /\ taken[i].conv \in Conversations /\ taken[i].updated \in Nat
          /\ taken[i].conv \in undated' \/ taken[i].updated <= seen'[taken[i].conv]
    <3>1. ASSUME NEW d \in Found PROVE d.conv \in Conversations /\ d.updated \in Nat
      BY <1>1 DEF Found, Dated, Undated
    <3>2. \A c \in Conversations : seen[c] \in Nat
      BY <1>1
    <3>3. ASSUME NEW i \in DOMAIN taken, taken[i].conv \notin undated'
          PROVE  taken[i].updated <= seen'[taken[i].conv]
      <4>1. taken[i].conv \in Conversations /\ taken[i].updated \in Nat
        BY <1>1, <3>1
      <4>2. taken[i].updated <= seen[taken[i].conv]
        BY <2>3, <3>3 DEF SeenIsLast
      <4>3. CASE taken[i].conv = s.conv
        BY <1>1, <2>1, <2>2, <3>2, <3>3, <4>1, <4>2, <4>3
      <4>4. CASE taken[i].conv # s.conv
        BY <2>1, <4>1, <4>2, <4>4
      <4> QED BY <4>3, <4>4
    <3> QED BY <1>1, <3>1, <3>3
  <2>6. CASE taken' = taken
    <3>1. UndatedNoted'
      BY <2>3, <2>4, <2>6 DEF UndatedNoted
    <3>2. SeenIsLast'
      BY <2>5, <2>6 DEF SeenIsLast
    <3>3. NewestLast'
      BY <2>3, <2>6 DEF NewestLast
    <3> QED BY <2>6, <3>1, <3>2, <3>3
  <2>7. CASE taken' = Append(taken, s)
    <3>1. /\ DOMAIN taken' = 1..(Len(taken) + 1) /\ Len(taken) \in Nat
          /\ DOMAIN taken = 1..Len(taken)
          /\ taken'[Len(taken) + 1] = s /\ \A i \in DOMAIN taken : taken'[i] = taken[i]
      BY <1>1, <2>7
    <3>2. UndatedNoted'
      BY <2>3, <2>4, <3>1 DEF UndatedNoted
    <3>3. SeenIsLast'
      BY <1>1, <2>1, <2>5, <3>1 DEF SeenIsLast
    <3>4. ASSUME NEW i \in DOMAIN taken, taken[i].conv = s.conv
          PROVE  /\ s.conv \in V2 \/ s.conv \notin undated' => taken[i].updated < s.updated
                 /\ s.conv \in V2 => Len(taken[i].turns) < Len(s.turns)
      <4>1. s.conv \in V2 \/ s.conv \notin undated' => taken[i].updated < s.updated
        <5>1. SUFFICES ASSUME s.conv \notin undated' PROVE taken[i].updated < s.updated
          BY <2>4
        <5>2. taken[i].updated <= seen[s.conv]
          BY <2>3, <3>4, <5>1 DEF SeenIsLast
        <5>3. taken[i].updated \in Nat /\ seen[s.conv] \in Nat
          BY <1>1, <2>5
        <5> QED BY <1>1, <2>2, <5>1, <5>2, <5>3
      <4>2. s.conv \in V2 => taken[i] \in Known
        BY <3>4 DEF Known
      <4> QED BY <3>4, <4>1, <4>2 DEF Ordered
    <3>5. ASSUME NEW i \in DOMAIN taken', NEW j \in DOMAIN taken',
                 i < j, taken'[i].conv = taken'[j].conv
          PROVE  /\ taken'[i].conv \in V2 \/ taken'[i].conv \notin undated' =>
                      taken'[i].updated < taken'[j].updated
                 /\ taken'[i].conv \in V2 => Len(taken'[i].turns) < Len(taken'[j].turns)
      <4>1. i \in DOMAIN taken
        BY <3>1, <3>5
      <4>2. CASE j \in DOMAIN taken
        BY <2>3, <3>1, <3>5, <4>1, <4>2 DEF NewestLast
      <4>3. CASE j = Len(taken) + 1
        BY <3>1, <3>4, <3>5, <4>1, <4>3
      <4> QED BY <3>1, <4>2, <4>3
    <3>6. NewestLast'
      BY <3>5 DEF NewestLast
    <3> QED BY <3>1, <3>2, <3>3, <3>6
  <2> QED BY <1>3, <2>6, <2>7
<1> QED BY <1>2, <1>3 DEF Take, Skip, Parse, Diagnose

LEMMA OrderInWorld ==
  ASSUME TypeInv, OrderInv, Kiro \/ Archiver \/ Cancel
  PROVE  OrderInv'
<1>1. clock \in Nat /\ MaxFiles \in Nat /\ UNCHANGED <<hand, left, seen, taken, undated>>
  BY KiroAssumption DEF Kiro, Archiver, StoreTurn, Forget, CopyRow, WriteArchive, Cancel,
     collector, TypeInv, TypeOK, Times
<1>2. UndatedIsOld' /\ UndatedNoted' /\ SeenIsLast' /\ NewestLast'
  BY <1>1 DEF OrderInv, UndatedIsOld, UndatedNoted, SeenIsLast, NewestLast
<1>3. OwnDates' /\ Ordered'
  <2>1. ASSUME NEW c \in Conversations, StoreTurn(c) PROVE OwnDates' /\ Ordered'
    <3>1. /\ clock' = clock + 1 /\ UNCHANGED <<copied, files>>
          /\ rows[c].turns # <<>> \/ rows[c].created = 0
          /\ \E start \in {0} \cup IF c \in Timed THEN (rows[c].updated + 1)..Now ELSE {} :
               rows' = [rows EXCEPT ![c] = Row(IF @.created = 0 THEN Now ELSE @.created, Now,
                                               Append(@.turns, start))]
      BY <2>1 DEF StoreTurn, ClockMoves, Now
    <3>2. PICK start : rows' = [rows EXCEPT ![c] =
                          Row(IF rows[c].created = 0 THEN Now ELSE rows[c].created, Now,
                              Append(rows[c].turns, start))]
      BY <3>1
    <3>3. /\ \A d \in Conversations : d # c => rows'[d] = rows[d]
          /\ rows'[c].updated = clock + 1 /\ rows'[c].created > 0
          /\ rows'[c].turns = Append(rows[c].turns, start)
      BY <1>1, <3>2 DEF Row, Now, TypeInv, TypeOK
    <3>4. /\ rows[c].turns \in Seq(Times) /\ rows[c].updated \in 0..clock
          /\ rows[c].created \in 0..clock
      BY DEF TypeInv, TypeOK
    <3>5. Len(rows'[c].turns) = Len(rows[c].turns) + 1 /\ Len(rows[c].turns) \in Nat
      BY <3>3, <3>4
    <3>6. ASSUME NEW s \in Known'
          PROVE  s.conv \in V2 /\ (s \in Known \/ (s.conv = c /\ s = Present(c)'))
      <4>1. UNCHANGED <<copied, files, left, taken>>
        BY <1>1, <3>1
      <4>2. ASSUME NEW d \in Conversations, d # c, rows'[d].turns # <<>>
            PROVE  rows[d].turns # <<>> /\ Present(d)' = Present(d)
        BY <3>3, <4>2 DEF Present
      <4>3. \A d \in Conversations : Present(d)'.conv = d
        BY DEF Present, Snapshot
      <4>4. /\ s.conv \in V2
            /\ s \in Known \/ \E d \in Conversations : rows'[d].turns # <<>> /\ s = Present(d)'
        BY <4>1 DEF Known, Archives
      <4>5. ASSUME NEW d \in Conversations, d # c, rows'[d].turns # <<>>, s = Present(d)'
            PROVE  s \in Known
        BY <4>2, <4>4, <4>5 DEF Known
      <4> QED BY <4>3, <4>4, <4>5
    <3>7. ASSUME NEW s \in Known, s.conv = c
          PROVE  s.updated < rows'[c].updated /\ Len(s.turns) < Len(rows'[c].turns)
      <4>1. s.updated \in Nat /\ Len(s.turns) \in Nat /\ c \in V2
        BY <3>7, KnownTypes
      <4>2. s.updated <= rows[c].updated /\ rows[c].turns # <<>>
        BY <3>1, <3>7 DEF OrderInv, OwnDates
      <4>3. /\ Present(c) \in Known /\ Present(c).conv = c
            /\ Present(c).updated = rows[c].updated /\ Present(c).turns = rows[c].turns
        BY <4>1, <4>2 DEF Known, Present, Snapshot
      <4>4. ~(Len(rows[c].turns) < Len(s.turns))
        BY <3>4, <3>7, <4>1, <4>2, <4>3 DEF OrderInv, Ordered
      <4> QED BY <1>1, <3>3, <3>4, <3>5, <4>1, <4>2, <4>4
    <3>8. /\ Present(c)'.conv = c /\ Present(c)'.updated = clock + 1
          /\ Present(c)'.created > 0 /\ Present(c)'.turns = rows'[c].turns
      BY <3>3 DEF Present, Snapshot
    <3>9. OwnDates'
      <4>1. ASSUME NEW s \in Known, s.conv = c
            PROVE  /\ s.created > 0 /\ s.updated > 0 /\ s.updated <= rows'[c].updated
        <5>1. s.updated \in Nat /\ s.updated < clock + 1
          BY <3>3, <3>7, <4>1, KnownTypes
        <5> QED BY <1>1, <3>3, <4>1, <5>1 DEF OrderInv, OwnDates
      <4>2. ASSUME NEW s \in Known, s.conv # c
            PROVE  /\ s.conv \in Conversations
                   /\ s.created > 0 /\ s.updated > 0 /\ s.updated <= rows'[s.conv].updated
                   /\ rows'[s.conv].created > 0
        BY <3>3, <4>2 DEF OrderInv, OwnDates
      <4>3. clock + 1 > 0
        BY <1>1
      <4>4. ASSUME NEW s \in Known'
            PROVE  /\ s.conv \in Conversations
                   /\ s.created > 0 /\ s.updated > 0 /\ s.updated <= rows'[s.conv].updated
                   /\ rows'[s.conv].created > 0
        <5>1. CASE s \in Known
          BY <3>3, <4>1, <4>2, <5>1
        <5>2. CASE s \notin Known
          BY <1>1, <3>3, <3>6, <3>8, <4>3, <5>2
        <5> QED BY <5>1, <5>2
      <4> QED BY <4>4 DEF OwnDates
    <3>10. Ordered'
      <4> SUFFICES ASSUME NEW s \in Known', NEW t \in Known', s.conv = t.conv
                   PROVE  s.updated < t.updated <=> Len(s.turns) < Len(t.turns)
        BY DEF Ordered
      <4>1. CASE s \in Known /\ t \in Known
        BY <4>1 DEF OrderInv, Ordered
      <4>2. CASE s \in Known /\ t \notin Known
        <5>1. s.updated < t.updated /\ Len(s.turns) < Len(t.turns)
          BY <3>3, <3>6, <3>7, <3>8, <4>2
        <5> QED BY <5>1
      <4>3. CASE s \notin Known /\ t \in Known
        <5>1. t.updated \in Nat /\ Len(t.turns) \in Nat
          BY <4>3, KnownTypes
        <5>2. t.updated < s.updated /\ Len(t.turns) < Len(s.turns)
          BY <3>3, <3>6, <3>7, <3>8, <4>3
        <5>3. s.updated \in Nat /\ Len(s.turns) \in Nat
          BY <1>1, <3>5, <3>6, <3>8, <4>3
        <5> QED BY <5>1, <5>2, <5>3
      <4>4. CASE s \notin Known /\ t \notin Known
        BY <1>1, <3>5, <3>6, <3>8, <4>4
      <4> QED BY <4>1, <4>2, <4>3, <4>4
    <3> QED BY <3>9, <3>10
  <2>2. ASSUME NEW c \in Conversations, Forget(c) PROVE OwnDates' /\ Ordered'
    <3>1. UNCHANGED <<copied, files>> /\ rows' = [rows EXCEPT ![c].turns = <<>>]
      BY <2>2 DEF Forget
    <3>2. \A d \in Conversations :
            /\ rows'[d].created = rows[d].created /\ rows'[d].updated = rows[d].updated
            /\ rows'[d].turns # <<>> => rows'[d] = rows[d]
      BY <3>1 DEF TypeInv, TypeOK
    <3>3. Known' \subseteq Known
      BY <1>1, <3>1, <3>2 DEF Known, Archives, Present
    <3> QED BY <3>2, <3>3, NothingNew DEF OrderInv
  <2>3. ASSUME NEW c \in Conversations, CopyRow(c) PROVE OwnDates' /\ Ordered'
    <3>1. /\ UNCHANGED <<rows, files>> /\ rows[c].turns # <<>>
          /\ copied' = {IF c \in V2 THEN Present(c) ELSE Snapshot(c, 0, 0, rows[c].turns)}
      BY <2>3 DEF CopyRow, Present
    <3>2. ASSUME NEW s \in copied', s.conv \in V2 PROVE s = Present(c)
      BY <3>1, <3>2 DEF Snapshot
    <3>3. Known' \subseteq Known
      BY <1>1, <3>1, <3>2 DEF Known, Archives, Present
    <3> QED BY <3>1, <3>3, NothingNew DEF OrderInv
  <2>4. ASSUME NEW n \in 1..MaxFiles, WriteArchive(n) PROVE OwnDates' /\ Ordered'
    <3>1. PICK s \in copied : files' = [files EXCEPT ![n] = {[snap |-> s, mtime |-> Now]}]
      BY <2>4 DEF WriteArchive
    <3>2. copied' = {} /\ UNCHANGED rows
      BY <2>4 DEF WriteArchive
    <3>3. ASSUME NEW f \in Archives' PROVE f.snap = s \/ f \in Archives
      BY <3>1 DEF Archives, TypeInv, TypeOK
    <3>4. Known' \subseteq Known
      BY <1>1, <3>2, <3>3 DEF Known, Present
    <3> QED BY <3>2, <3>4, NothingNew DEF OrderInv
  <2>5. CASE Cancel
    <3>1. UNCHANGED <<rows, files, copied>>
      BY <2>5 DEF Cancel, world
    <3>2. Known' \subseteq Known
      BY <1>1, <3>1 DEF Known, Archives, Present
    <3> QED BY <3>1, <3>2, NothingNew DEF OrderInv
  <2> QED BY <2>1, <2>2, <2>3, <2>4, <2>5 DEF Kiro, Archiver
<1> QED BY <1>2, <1>3 DEF OrderInv

LEMMA OrderInCollect ==
  ASSUME TypeInv, OrderInv, Collect
  PROVE  OrderInv'
<1>1. UNCHANGED <<rows, copied, files>>
  BY DEF Collect, CollectSQLite, ReadDir, ReadArchive, DateArchive, StopReading, StatDatabase,
         Query, ScanRow, EndRows, world
<1>2. ASSUME left' \subseteq left \cup {Present(c) : c \in {d \in Conversations : rows[d].turns # <<>>}}
               \cup {s \in Found : s.conv \notin V2},
             \A i \in DOMAIN taken' :
               \/ taken'[i] \in Known \/ taken'[i].conv \notin V2
               \/ \E j \in DOMAIN taken : taken'[i] = taken[j]
      PROVE  OwnDates' /\ Ordered'
  <2>1. Known' \subseteq Known
    BY <1>1, <1>2 DEF Known, Archives, Present
  <2> QED BY <1>1, <2>1, NothingNew DEF OrderInv
<1>3. ASSUME UNCHANGED <<hand, left, seen, taken, undated>> PROVE OrderInv'
  <2>1. OwnDates' /\ Ordered'
    BY <1>2, <1>3
  <2> QED BY <1>3, <2>1 DEF OrderInv, UndatedIsOld, UndatedNoted, SeenIsLast, NewestLast
<1>4. ASSUME NEW s \in Found, NEW unreadable \in BOOLEAN, Take(s, unreadable) \/ Diagnose,
             s.conv \in V2 => s \in Known, left' \subseteq left, hand' \subseteq hand
      PROVE  OrderInv'
  <2>1. /\ UndatedNoted' /\ SeenIsLast' /\ NewestLast'
        /\ \A i \in DOMAIN taken' : taken'[i] = s \/ \E j \in DOMAIN taken : taken'[i] = taken[j]
    BY <1>4, TakesInOrder DEF OrderInv
  <2>2. OwnDates' /\ Ordered'
    BY <1>2, <1>4, <2>1
  <2>3. UndatedIsOld'
    BY <1>4 DEF OrderInv, UndatedIsOld
  <2> QED BY <2>1, <2>2, <2>3 DEF OrderInv
<1>5. ASSUME ReadArchive PROVE OrderInv'
  <2>1. PICK n \in names :
          \/ \E file \in files[n] :
               IF file.snap.updated = 0
                 THEN hand' = {[name |-> n, snap |-> file.snap]} /\ Skip
                 ELSE Take(FromArchive(file.snap, file.mtime), TRUE) /\ UNCHANGED hand
          \/ Diagnose /\ UNCHANGED hand
    BY <1>5 DEF ReadArchive
  <2>2. UNCHANGED left /\ n \in 1..MaxFiles
    BY <1>5 DEF ReadArchive, TypeInv, TypeOK
  <2>3. ASSUME NEW file \in files[n]
        PROVE  /\ file.snap \in KeptBy(clock) /\ file.mtime \in 1..clock
               /\ file.snap.conv \in V2 => file.snap \in Known
    BY <2>2 DEF TypeInv, DatesKnown, Known, Archives
  <2>4. ASSUME NEW file \in files[n], file.snap.updated = 0,
               hand' = {[name |-> n, snap |-> file.snap]}, Skip
        PROVE  OrderInv'
    <3>1. file.snap.conv \notin V2
      BY <2>3, <2>4 DEF OrderInv, OwnDates
    <3>2. UndatedIsOld'
      BY <2>4, <3>1 DEF UndatedIsOld
    <3>3. OwnDates' /\ Ordered'
      BY <1>2, <2>2, <2>4 DEF Skip
    <3> QED BY <2>4, <3>2, <3>3 DEF Skip, OrderInv, UndatedNoted, SeenIsLast, NewestLast
  <2>5. ASSUME NEW file \in files[n], Take(FromArchive(file.snap, file.mtime), TRUE), UNCHANGED hand
        PROVE  OrderInv'
    <3>1. FromArchive(file.snap, file.mtime) \in Found
      <4>1. file.mtime \in 0..clock
        BY <2>3 DEF TypeInv, TypeOK, Times
      <4> QED BY <2>3, <4>1, ArchiveIsDated
    <3>2. FromArchive(file.snap, file.mtime).conv \in V2 => FromArchive(file.snap, file.mtime) \in Known
      <4>1. FromArchive(file.snap, file.mtime).conv = file.snap.conv
        BY DEF FromArchive, Snapshot
      <4>2. ASSUME file.snap.conv \in V2 PROVE FromArchive(file.snap, file.mtime) = file.snap
        <5>1. file.snap.created > 0 /\ file.snap.updated > 0
          BY <2>3, <4>2 DEF OrderInv, OwnDates
        <5>2. file.snap.created # 0 /\ file.snap.updated # 0
          BY <5>1
        <5> QED BY <2>3, <5>2 DEF FromArchive, Snapshot, KeptBy
      <4> QED BY <2>3, <4>1, <4>2
    <3> QED BY <1>4, <2>2, <2>5, <3>1, <3>2
  <2>6. ASSUME Diagnose, UNCHANGED hand PROVE OrderInv'
    BY <1>3, <2>2, <2>6 DEF Diagnose
  <2> QED BY <2>1, <2>4, <2>5, <2>6
<1>6. ASSUME DateArchive PROVE OrderInv'
  <2>1. PICK h \in hand : \E mtime \in ModUnixMS(h.name) : Take(FromArchive(h.snap, mtime), TRUE)
    BY <1>6 DEF DateArchive
  <2>2. PICK mtime \in ModUnixMS(h.name) : Take(FromArchive(h.snap, mtime), TRUE)
    BY <2>1
  <2>3. h.snap \in KeptBy(clock) /\ mtime \in 0..clock
    BY <2>1, <2>2 DEF TypeInv, TypeOK, Times, DatesKnown, ModUnixMS
  <2>4. FromArchive(h.snap, mtime) \in Found /\ FromArchive(h.snap, mtime).conv \notin V2
    BY <2>1, <2>3, ArchiveIsDated DEF OrderInv, UndatedIsOld
  <2>5. hand' = {} /\ UNCHANGED left
    BY <1>6 DEF DateArchive
  <2> QED BY <1>4, <2>2, <2>4, <2>5
<1>7. ASSUME NEW table \in {"v2", "legacy"}, Query(table) PROVE OrderInv'
  <2>1. UNCHANGED <<hand, seen, taken, undated>> /\ (left' = RowsOf(table) \/ left' = left) /\ at = table
    BY <1>7 DEF Query
  <2>2. RowsOf(table) \subseteq Found
    BY <2>1, RowsAreDated
  <2>3. ASSUME NEW s \in RowsOf(table), s.conv \in V2
        PROVE  s \in {Present(c) : c \in {d \in Conversations : rows[d].turns # <<>>}}
    BY <2>3 DEF RowsOf, Present, Snapshot
  <2>4. OwnDates' /\ Ordered'
    BY <1>2, <2>1, <2>2, <2>3
  <2> QED BY <2>1, <2>4 DEF OrderInv, UndatedIsOld, UndatedNoted, SeenIsLast, NewestLast
<1>8. ASSUME NEW table \in {"v2", "legacy"}, ScanRow(table) PROVE OrderInv'
  <2>1. PICK s \in left : left' = left \ {s} /\ (Take(s, table = "v2") \/ Diagnose)
    BY <1>8 DEF ScanRow
  <2>2. s \in Found /\ (s.conv \in V2 => s \in Known) /\ UNCHANGED hand
    BY <1>8 DEF ScanRow, TypeInv, TypeOK, Found, Known
  <2> QED BY <1>4, <2>1, <2>2
<1>9. ASSUME NEW table \in {"v2", "legacy"}, EndRows(table) PROVE OrderInv'
  <2>1. UNCHANGED <<hand, seen, taken, undated>> /\ left' = {}
    BY <1>9 DEF EndRows, Skip
  <2>2. OwnDates' /\ Ordered'
    BY <1>2, <2>1
  <2> QED BY <2>1, <2>2 DEF OrderInv, UndatedIsOld, UndatedNoted, SeenIsLast, NewestLast
<1>10. ASSUME ReadDir \/ StopReading \/ StatDatabase PROVE OrderInv'
  BY <1>3, <1>10 DEF ReadDir, StopReading, StatDatabase, Skip
<1> QED
  BY <1>5, <1>6, <1>7, <1>8, <1>9, <1>10 DEF Collect, CollectSQLite

LEMMA InitOrder ==
  ASSUME Init
  PROVE  OrderInv
<1>1. copied = {} /\ hand = {} /\ left = {} /\ taken = <<>> /\ Archives = {} /\ undated = {}
  BY DEF Init, Archives
<1>2. \A c \in Conversations : rows[c].turns = <<>>
  BY DEF Init, Row
<1>3. Known = {}
  BY <1>1, <1>2 DEF Known
<1> QED BY <1>1, <1>3 DEF OrderInv, OwnDates, Ordered, UndatedIsOld, UndatedNoted, SeenIsLast, NewestLast

LEMMA OrderKept ==
  ASSUME TypeInv, OrderInv, [Next]_vars
  PROVE  OrderInv'
<1>1. ASSUME UNCHANGED vars PROVE OrderInv'
  <2>1. UNCHANGED <<rows, copied, files, hand, left, seen, taken, undated>>
    BY <1>1 DEF vars, world, collector
  <2>2. Known' = Known
    BY <2>1 DEF Known, Archives, Present
  <2> QED BY <2>1, <2>2 DEF OrderInv, OwnDates, Ordered, UndatedIsOld, UndatedNoted, SeenIsLast, NewestLast
<1> QED BY <1>1, OrderInWorld, OrderInCollect DEF Next

\* The snapshots of a conversation are taken from old to new, whatever Kiro and
\* the archiver do meanwhile: NewestLast of KiroCollector.
THEOREM TakenInOrder == Spec => []NewestLast
<1>1. Init => OrderInv
  BY InitOrder
<1>2. OrderInv => NewestLast
  BY DEF OrderInv
<1>3. TypeInv /\ OrderInv /\ [Next]_vars => TypeInv' /\ OrderInv'
  BY TypeKept, OrderKept
<1> QED
  BY <1>1, <1>2, <1>3, InitTypes, PTL DEF Spec

-----------------------------------------------------------------------------
(* Nothing lost.                                                           *)

Covered(c) == \E i \in DOMAIN taken : taken[i].conv = c /\ Len(taken[i].turns) >= before[c]
Awaited(c) == \E s \in left : s.conv = c /\ Len(s.turns) >= before[c]

\* Without a diagnostic, what seen notes was taken; a conversation of the older
\* table is noted early only when it is archived, and so is one whose archive
\* waits for its date.
SeenRight ==
  /\ ~diagnosed => \A c \in Conversations :
       seen[c] > 0 => \E i \in DOMAIN taken : taken[i].conv = c /\ taken[i].updated = seen[c]
  /\ at \in {"idle", "files", "v2", "scanV2", "legacy"} =>
       \A c \in Conversations \ V2 : seen[c] > 0 => Archived(c)
  /\ \A h \in hand : at = "files" /\ Archived(h.snap.conv)

\* A query has one row of a conversation of its table.
RowsRight ==
  /\ \A s, t \in left : s.conv = t.conv => s = t
  /\ \A s \in left : s.conv \in V2 <=> at = "scanV2"
  /\ left # {} => at \in {"scanV2", "scanLegacy"}

\* What was there when Collect began, and was not dropped since, is there.
StillThere ==
  \A c \in Conversations : before[c] > 0 =>
    at # "idle" /\ rows[c].turns # <<>> /\ Len(rows[c].turns) >= before[c]

\* It waits in the rows of the query or is taken, from the query on.
V2Covered ==
  ~diagnosed => \A c \in V2 : before[c] > 0 =>
    /\ at = "scanV2" => Awaited(c) \/ Covered(c)
    /\ at \in {"legacy", "scanLegacy", "done"} => Covered(c)

OlderCovered ==
  ~diagnosed => \A c \in Conversations \ V2 : (before[c] > 0 /\ ~Archived(c)) =>
    /\ at = "scanLegacy" => (Awaited(c) /\ seen[c] = 0) \/ Covered(c)
    /\ at = "done" => Covered(c)

CoverInv == SeenRight /\ RowsRight /\ StillThere /\ V2Covered /\ OlderCovered

LEMMA CoverInWorld ==
  ASSUME TypeInv, CoverInv, Kiro \/ Archiver \/ Cancel
  PROVE  CoverInv'
<1>1. MaxFiles \in Nat /\ UNCHANGED <<at, hand, left, seen, taken, diagnosed>>
  BY KiroAssumption DEF Kiro, Archiver, StoreTurn, Forget, CopyRow, WriteArchive, Cancel, collector
<1>2. ASSUME NEW c, Archived(c) PROVE Archived(c)'
  <2>1. PICK n \in 1..MaxFiles : \E file \in files[n] : file.snap.conv = c
    BY <1>2 DEF Archived
  <2>2. CASE UNCHANGED files
    BY <1>2, <2>2 DEF Archived
  <2>3. ASSUME NEW m \in 1..MaxFiles, WriteArchive(m) PROVE Archived(c)'
    <3>1. PICK s \in copied : /\ \A old \in files[m] : old.snap.conv = s.conv
                              /\ files' = [files EXCEPT ![m] = {[snap |-> s, mtime |-> Now]}]
      BY <2>3 DEF WriteArchive
    <3>2. CASE m = n
      <4>1. s.conv = c /\ [snap |-> s, mtime |-> Now] \in files'[n]
        BY <2>1, <3>1, <3>2 DEF TypeInv, TypeOK
      <4> QED BY <4>1 DEF Archived
    <3>3. CASE m # n
      BY <2>1, <3>1, <3>3 DEF Archived, TypeInv, TypeOK
    <3> QED BY <3>2, <3>3
  <2> QED BY <2>2, <2>3 DEF Kiro, Archiver, StoreTurn, Forget, CopyRow, Cancel, world
<1>3. SeenRight' /\ RowsRight'
  BY <1>1, <1>2 DEF CoverInv, SeenRight, RowsRight
<1>4. ASSUME NEW c \in Conversations
      PROVE  /\ before'[c] = before[c] \/ before'[c] = 0
             /\ (before'[c] > 0 /\ rows[c].turns # <<>>) =>
                  rows'[c].turns # <<>> /\ Len(rows'[c].turns) >= Len(rows[c].turns)
  <2>1. before[c] \in Nat /\ rows[c].turns \in Seq(Times) /\ DOMAIN rows = Conversations
        /\ DOMAIN before = Conversations
    BY DEF TypeInv, TypeOK
  <2>2. CASE UNCHANGED <<rows, before>>
    <3>1. Len(rows[c].turns) \in Nat
      BY <2>1
    <3> QED BY <2>1, <2>2, <3>1
  <2>3. ASSUME NEW d \in Conversations, StoreTurn(d)
        PROVE  /\ UNCHANGED before
               /\ rows[c].turns # <<>> =>
                    rows'[c].turns # <<>> /\ Len(rows'[c].turns) >= Len(rows[c].turns)
    <3>1. PICK start : rows' = [rows EXCEPT ![d] =
                          Row(IF @.created = 0 THEN Now ELSE @.created, Now, Append(@.turns, start))]
      BY <2>3 DEF StoreTurn
    <3>2. rows'[c].turns = IF c = d THEN Append(rows[c].turns, start) ELSE rows[c].turns
      BY <2>1, <3>1 DEF Row
    <3>3. /\ Append(rows[c].turns, start) # <<>> /\ Len(rows[c].turns) \in Nat
          /\ Len(Append(rows[c].turns, start)) = Len(rows[c].turns) + 1
      BY <2>1
    <3>4. UNCHANGED before
      BY <2>3 DEF StoreTurn
    <3> QED BY <3>2, <3>3, <3>4
  <2>4. ASSUME NEW d \in Conversations, Forget(d)
        PROVE  /\ before'[c] = before[c] \/ before'[c] = 0
               /\ before'[c] > 0 => rows'[c] = rows[c]
    BY <2>1, <2>4 DEF Forget
  <2>5. Len(rows[c].turns) >= Len(rows[c].turns)
    <3>1. Len(rows[c].turns) \in Nat
      BY <2>1
    <3> QED BY <3>1
  <2> QED BY <2>2, <2>3, <2>4, <2>5 DEF Kiro, Archiver, CopyRow, WriteArchive, Cancel, world
<1>5. StillThere'
  <2> SUFFICES ASSUME NEW c \in Conversations, before'[c] > 0
               PROVE  at # "idle" /\ rows'[c].turns # <<>> /\ Len(rows'[c].turns) >= before[c]
                        /\ before'[c] = before[c]
    BY <1>1 DEF StillThere
  <2>1. before'[c] = before[c] /\ before[c] \in Nat
    BY <1>4 DEF TypeInv, TypeOK
  <2>2. /\ at # "idle" /\ rows[c].turns # <<>> /\ Len(rows[c].turns) >= before[c]
    BY <2>1 DEF CoverInv, StillThere
  <2>3. rows'[c].turns # <<>> /\ Len(rows'[c].turns) >= Len(rows[c].turns)
    BY <1>4, <2>2
  <2>4. Len(rows[c].turns) \in Nat /\ Len(rows'[c].turns) \in Nat
    <3>1. TypeInv'
      BY WorldTypes
    <3>2. rows[c].turns \in Seq(Times) /\ rows'[c].turns \in Seq(Times)
      BY <3>1 DEF TypeInv, TypeOK
    <3> QED BY <3>2
  <2> QED BY <2>1, <2>2, <2>3, <2>4
<1>6. V2Covered' /\ OlderCovered'
  <2>1. ASSUME NEW c \in Conversations, before'[c] > 0
        PROVE  before'[c] = before[c] /\ (Awaited(c) => Awaited(c)') /\ (Covered(c) => Covered(c)')
    <3>1. before'[c] = before[c]
      BY <1>4, <2>1
    <3> QED BY <1>1, <3>1 DEF Awaited, Covered
  <2>2. V2Covered'
    BY <1>1, <2>1, KiroAssumption DEF CoverInv, V2Covered
  <2>3. OlderCovered'
    BY <1>1, <1>2, <2>1 DEF CoverInv, OlderCovered
  <2> QED BY <2>2, <2>3
<1> QED BY <1>3, <1>5, <1>6 DEF CoverInv

\* What taking a snapshot does to seen and to what was taken.
LEMMA TakeEffect ==
  ASSUME TypeInv, SeenRight, NEW s \in Found, NEW unreadable \in BOOLEAN,
         Take(s, unreadable) \/ Diagnose
  PROVE  /\ ~diagnosed' =>
              /\ ~diagnosed
              /\ s.updated > 0 => seen'[s.conv] > 0 /\ seen'[s.conv] >= s.updated
              /\ seen[s.conv] = 0 => \E i \in DOMAIN taken' : taken'[i] = s
         /\ \A c \in Conversations : c # s.conv => seen'[c] = seen[c]
         /\ \A i \in DOMAIN taken : i \in DOMAIN taken' /\ taken'[i] = taken[i]
         /\ ~diagnosed' => \A c \in Conversations :
              seen'[c] > 0 => \E i \in DOMAIN taken' : taken'[i].conv = c /\ taken'[i].updated = seen'[c]
<1>1. /\ clock \in Nat /\ s.updated \in 0..clock /\ s.conv \in Conversations
      /\ seen \in [Conversations -> 0..clock] /\ taken \in Seq(Found)
  <2>1. clock \in Nat
    BY KiroAssumption DEF TypeInv, TypeOK, Times
  <2>2. s.updated \in 0..clock /\ s.conv \in Conversations
    BY <2>1 DEF Found, Dated, Undated
  <2> QED BY <2>1, <2>2 DEF TypeInv, TypeOK, Found
<1>2. CASE diagnosed' = TRUE /\ UNCHANGED <<seen, taken>>
  BY <1>2
<1>3. CASE seen[s.conv] >= s.updated /\ s.updated > 0 /\ UNCHANGED <<seen, taken, diagnosed>>
  BY <1>1, <1>3 DEF SeenRight
<1>4. CASE seen' = [seen EXCEPT ![s.conv] = s.updated] /\ taken' = Append(taken, s) /\ UNCHANGED diagnosed
  <2>1. /\ DOMAIN taken' = 1..(Len(taken) + 1) /\ DOMAIN taken = 1..Len(taken) /\ Len(taken) \in Nat
        /\ taken'[Len(taken) + 1] = s /\ \A i \in DOMAIN taken : taken'[i] = taken[i]
    BY <1>1, <1>4
  <2>2. \A i \in DOMAIN taken : i \in DOMAIN taken' /\ taken'[i] = taken[i]
    BY <2>1
  <2>3. Len(taken) + 1 \in DOMAIN taken'
    BY <2>1
  <2>4. /\ seen'[s.conv] = s.updated
        /\ \A c \in Conversations : c # s.conv => seen'[c] = seen[c]
    BY <1>1, <1>4
  <2>5. s.updated >= s.updated
    BY <1>1
  <2> QED BY <1>4, <2>1, <2>2, <2>3, <2>4, <2>5 DEF SeenRight
<1>5. CASE seen' = [seen EXCEPT ![s.conv] = s.updated] /\ diagnosed' = TRUE /\ UNCHANGED taken
  BY <1>1, <1>5
<1> QED BY <1>1, <1>2, <1>3, <1>4, <1>5 DEF Take, Unseen, Skip, Note, Parse, Diagnose

\* Taking a snapshot leaves nothing uncovered that was covered; it covers what
\* a row of the query holds.
LEMMA TakeCovers ==
  ASSUME TypeInv, OrderInv, SeenRight, NEW s \in Found, NEW unreadable \in BOOLEAN,
         Take(s, unreadable) \/ Diagnose, UNCHANGED before, ~diagnosed'
  PROVE  /\ \A c \in Conversations : Covered(c) => Covered(c)'
         /\ Len(s.turns) >= before[s.conv] =>
              /\ s \in Known => Covered(s.conv)'
              /\ seen[s.conv] = 0 => Covered(s.conv)'
<1>1. \A c \in Conversations : Covered(c) => Covered(c)'
  BY TakeEffect DEF Covered
<1>2. ASSUME Len(s.turns) >= before[s.conv], seen[s.conv] = 0 PROVE Covered(s.conv)'
  BY <1>2, TakeEffect DEF Covered
<1>3. ASSUME Len(s.turns) >= before[s.conv], s \in Known PROVE Covered(s.conv)'
  <2>1. s.conv \in Conversations
    BY DEF Found, Dated, Undated
  <2>2. CASE UNCHANGED <<seen, taken>>
    <3>1. ~diagnosed /\ seen[s.conv] > 0 /\ seen[s.conv] >= s.updated
      <4>1. s.updated > 0
        BY <1>3 DEF OrderInv, OwnDates
      <4> QED BY <2>2, <4>1, TakeEffect
    <3>2. PICK i \in DOMAIN taken : taken[i].conv = s.conv /\ taken[i].updated = seen[s.conv]
      BY <2>1, <3>1 DEF SeenRight
    <3>3. taken[i] \in Known
      BY <1>3, <3>2 DEF Known
    <3>4. /\ taken[i].updated \in Nat /\ s.updated \in Nat
          /\ Len(taken[i].turns) \in Nat /\ Len(s.turns) \in Nat /\ before[s.conv] \in Nat
      BY <1>3, <2>1, <3>3, KnownTypes DEF TypeInv, TypeOK
    <3>5. ~(taken[i].updated < s.updated)
      BY <3>1, <3>2, <3>4
    <3>6. ~(Len(taken[i].turns) < Len(s.turns))
      BY <1>3, <3>2, <3>3, <3>5 DEF OrderInv, Ordered
    <3>7. Len(taken[i].turns) >= before[s.conv]
      BY <1>3, <3>4, <3>6
    <3> QED BY <2>2, <3>2, <3>7 DEF Covered
  <2>3. CASE taken' = Append(taken, s)
    <3>1. taken \in Seq(Found)
      BY DEF TypeInv, TypeOK, Found
    <3>2. Len(taken) + 1 \in DOMAIN taken' /\ taken'[Len(taken) + 1] = s
      BY <2>3, <3>1
    <3> QED BY <1>3, <3>2 DEF Covered
  <2> QED BY <2>2, <2>3 DEF Take, Skip, Parse, Diagnose
<1> QED BY <1>1, <1>2, <1>3

LEMMA CoverInCollect ==
  ASSUME TypeInv, OrderInv, CoverInv, Collect
  PROVE  CoverInv'
<1>1. UNCHANGED <<clock, rows, dbTime, copied, files, cancelled>>
  BY DEF Collect, CollectSQLite, ReadDir, ReadArchive, DateArchive, StopReading, StatDatabase,
         Query, ScanRow, EndRows, world
<1>2. \A c : Archived(c)' <=> Archived(c)
  BY <1>1 DEF Archived
<1>3. \A c \in Conversations : before[c] \in Nat /\ seen[c] \in Nat /\ Len(rows[c].turns) \in Nat
  <2>1. \A c \in Conversations : rows[c].turns \in Seq(Times)
    BY DEF TypeInv, TypeOK
  <2>2. \A c \in Conversations : Len(rows[c].turns) \in Nat
    BY <2>1
  <2>3. clock \in Nat
    BY KiroAssumption DEF TypeInv, TypeOK, Times
  <2> QED BY <2>2, <2>3 DEF TypeInv, TypeOK
<1>4. CASE ReadDir
  <2>1. /\ at' = "files" /\ UNCHANGED <<hand, left, seen, taken>>
        /\ \A c \in Conversations : before'[c] = Len(rows[c].turns)
        /\ ~diagnosed' => ~diagnosed
        /\ at = "idle"
    BY <1>4 DEF ReadDir
  <2>2. StillThere'
    <3>1. ASSUME NEW c \in Conversations, before'[c] > 0
          PROVE  rows[c].turns # <<>> /\ Len(rows[c].turns) >= before'[c]
      BY <1>3, <2>1, <3>1
    <3> QED BY <1>1, <2>1, <3>1 DEF StillThere
  <2>3. V2Covered' /\ OlderCovered'
    BY <2>1 DEF V2Covered, OlderCovered
  <2>4. SeenRight'
    BY <1>2, <2>1 DEF CoverInv, SeenRight
  <2>5. RowsRight'
    BY <2>1 DEF CoverInv, RowsRight
  <2> QED BY <2>2, <2>3, <2>4, <2>5 DEF CoverInv
<1>5. ASSUME at = "files", UNCHANGED <<at, left, before>>,
             NEW s \in Found, Archived(s.conv), Take(s, TRUE) \/ Diagnose,
             hand' \subseteq hand
      PROVE  CoverInv'
  <2>1. /\ \A c \in Conversations : c # s.conv => seen'[c] = seen[c]
        /\ ~diagnosed' => \A c \in Conversations :
             seen'[c] > 0 => \E i \in DOMAIN taken' : taken'[i].conv = c /\ taken'[i].updated = seen'[c]
    BY <1>5, TakeEffect DEF CoverInv
  <2>2. SeenRight'
    BY <1>2, <1>5, <2>1 DEF CoverInv, SeenRight
  <2>3. RowsRight' /\ StillThere'
    BY <1>1, <1>5 DEF CoverInv, RowsRight, StillThere
  <2>4. V2Covered' /\ OlderCovered'
    BY <1>5 DEF V2Covered, OlderCovered
  <2> QED BY <2>2, <2>3, <2>4 DEF CoverInv
<1>6. CASE ReadArchive
  <2>1. PICK n \in names :
          \/ \E file \in files[n] :
               IF file.snap.updated = 0
                 THEN hand' = {[name |-> n, snap |-> file.snap]} /\ Skip
                 ELSE Take(FromArchive(file.snap, file.mtime), TRUE) /\ UNCHANGED hand
          \/ Diagnose /\ UNCHANGED hand
    BY <1>6 DEF ReadArchive
  <2>2. n \in 1..MaxFiles /\ at = "files" /\ UNCHANGED <<at, left, before>>
    BY <1>6 DEF ReadArchive, TypeInv, TypeOK
  <2>3. ASSUME NEW file \in files[n]
        PROVE  /\ FromArchive(file.snap, file.mtime) \in Found
               /\ FromArchive(file.snap, file.mtime).conv = file.snap.conv
               /\ Archived(file.snap.conv)
    <3>1. file.snap \in KeptBy(clock) /\ file.mtime \in 0..clock
      BY <2>2 DEF TypeInv, TypeOK, Times, DatesKnown
    <3> QED BY <2>2, <3>1, ArchiveIsDated DEF Archived
  <2>4. ASSUME NEW h, hand' = {h} \/ hand' = hand, Archived(h.snap.conv) \/ hand' = hand,
               UNCHANGED <<seen, taken>>, ~diagnosed' => ~diagnosed
        PROVE  CoverInv'
    <3>1. SeenRight'
      BY <1>2, <2>2, <2>4 DEF CoverInv, SeenRight
    <3>2. RowsRight' /\ StillThere' /\ V2Covered' /\ OlderCovered'
      BY <1>1, <2>2 DEF CoverInv, RowsRight, StillThere, V2Covered, OlderCovered
    <3> QED BY <3>1, <3>2 DEF CoverInv
  <2>5. ASSUME NEW file \in files[n], hand' = {[name |-> n, snap |-> file.snap]},
               Skip
        PROVE  CoverInv'
    BY <2>3, <2>4, <2>5 DEF Skip
  <2>6. ASSUME NEW file \in files[n], Take(FromArchive(file.snap, file.mtime), TRUE), UNCHANGED hand
        PROVE  CoverInv'
    BY <1>5, <2>2, <2>3, <2>6
  <2>7. ASSUME Diagnose, UNCHANGED hand PROVE CoverInv'
    BY <2>4, <2>7 DEF Diagnose
  <2> QED BY <2>1, <2>5, <2>6, <2>7
<1>7. CASE DateArchive
  <2>1. PICK h \in hand : \E mtime \in ModUnixMS(h.name) : Take(FromArchive(h.snap, mtime), TRUE)
    BY <1>7 DEF DateArchive
  <2>2. PICK mtime \in ModUnixMS(h.name) : Take(FromArchive(h.snap, mtime), TRUE)
    BY <2>1
  <2>3. h.snap \in KeptBy(clock) /\ mtime \in 0..clock
    BY <2>1, <2>2 DEF TypeInv, TypeOK, Times, DatesKnown, ModUnixMS
  <2>4. /\ FromArchive(h.snap, mtime) \in Found
        /\ FromArchive(h.snap, mtime).conv = h.snap.conv /\ Archived(h.snap.conv)
    BY <2>1, <2>3, ArchiveIsDated DEF CoverInv, SeenRight
  <2>5. hand' = {} /\ UNCHANGED <<at, left, before>> /\ at = "files"
    BY <1>7, <2>1 DEF DateArchive, CoverInv, SeenRight
  <2> QED BY <1>5, <2>2, <2>4, <2>5
<1>8. CASE StopReading
  <2>1. at' = "failed" /\ at = "files" /\ hand = {} /\ UNCHANGED <<hand, left, seen, taken, diagnosed, before>>
    BY <1>8 DEF StopReading, Skip
  <2> QED BY <1>1, <1>2, <2>1
        DEF CoverInv, SeenRight, RowsRight, StillThere, V2Covered, OlderCovered
<1>9. CASE StatDatabase
  <2>1. /\ at = "files" /\ hand = {} /\ UNCHANGED <<hand, left, seen, taken, diagnosed, before>>
        /\ at' \in {"done", "v2"} /\ (at' = "done" => dbTime = 0)
    BY <1>9 DEF StatDatabase, Skip
  <2>2. ASSUME at' = "done", NEW c \in Conversations PROVE ~(before[c] > 0)
    <3>1. rows[c].turns = <<>>
      BY <1>1, <2>1, <2>2 DEF TypeInv, DatesKnown
    <3> QED BY <3>1 DEF CoverInv, StillThere
  <2>3. SeenRight' /\ RowsRight' /\ StillThere'
    BY <1>1, <1>2, <2>1 DEF CoverInv, SeenRight, RowsRight, StillThere
  <2>4. V2Covered' /\ OlderCovered'
    BY <2>1, <2>2, KiroAssumption DEF V2Covered, OlderCovered
  <2> QED BY <2>3, <2>4 DEF CoverInv
<1>10. ASSUME NEW table \in {"v2", "legacy"}, Query(table) PROVE CoverInv'
  <2>1. at = table /\ hand = {} /\ left = {} /\ UNCHANGED <<hand, seen, taken, before>>
    BY <1>10 DEF Query, CoverInv, SeenRight, RowsRight
  <2>2. StillThere'
    BY <1>1, <1>10, <2>1 DEF Query, CoverInv, StillThere, After, Scanning
  <2>3. ASSUME diagnosed' = TRUE, at' = After(table), UNCHANGED left PROVE CoverInv'
    <3>1. SeenRight'
      BY <1>2, <1>10, <2>1, <2>3 DEF CoverInv, SeenRight, After
    <3> QED BY <2>1, <2>2, <2>3, <3>1 DEF CoverInv, RowsRight, V2Covered, OlderCovered
  <2>4. ASSUME left' = RowsOf(table), at' = Scanning(table), UNCHANGED diagnosed PROVE CoverInv'
    <3>1. ASSUME NEW s \in left'
          PROVE  /\ s.conv \in Conversations /\ rows[s.conv].turns # <<>>
                 /\ s.conv \in V2 <=> table = "v2"
                 /\ s.turns = rows[s.conv].turns
      BY <2>4 DEF RowsOf, Snapshot
    <3>2. ASSUME NEW s \in left', NEW t \in left', s.conv = t.conv PROVE s = t
      BY <2>4, <3>2 DEF RowsOf, Snapshot
    <3>3. ASSUME NEW c \in Conversations, rows[c].turns # <<>>, c \in V2 <=> table = "v2"
          PROVE  \E s \in left' : s.conv = c /\ s.turns = rows[c].turns
      <4> DEFINE bounds == conversationBounds(rows[c].turns, fallback)
                 s == IF c \in V2
                      THEN Snapshot(c, rows[c].created, rows[c].updated, rows[c].turns)
                      ELSE Snapshot(c, bounds.first, bounds.last, rows[c].turns)
      <4>1. s \in left'
        BY <2>4, <3>3 DEF RowsOf
      <4>2. s.conv = c /\ s.turns = rows[c].turns
        BY DEF Snapshot
      <4> QED BY <4>1, <4>2
    <3>4. ASSUME NEW c \in Conversations, before[c] > 0, c \in V2 <=> table = "v2"
          PROVE  Awaited(c)'
      <4>1. rows[c].turns # <<>> /\ Len(rows[c].turns) >= before[c]
        BY <3>4 DEF CoverInv, StillThere
      <4> QED BY <2>1, <3>3, <3>4, <4>1 DEF Awaited
    <3>5. SeenRight'
      BY <1>2, <2>1, <2>4, <1>10 DEF CoverInv, SeenRight, Scanning
    <3>6. RowsRight'
      BY <1>10, <2>1, <2>4, <3>1, <3>2 DEF RowsRight, Scanning
    <3>7. V2Covered'
      <4>1. CASE table = "v2"
        BY <2>1, <2>4, <3>4, <4>1, KiroAssumption DEF V2Covered, Scanning
      <4>2. CASE table = "legacy"
        BY <2>1, <2>4, <4>2 DEF CoverInv, V2Covered, Scanning, Covered
      <4> QED BY <4>1, <4>2
    <3>8. OlderCovered'
      <4>1. CASE table = "v2"
        BY <2>4, <4>1 DEF OlderCovered, Scanning
      <4>2. CASE table = "legacy"
        <5>1. ASSUME NEW c \in Conversations \ V2, ~Archived(c) PROVE seen[c] = 0
          BY <1>3, <2>1, <4>2, <5>1 DEF CoverInv, SeenRight
        <5> QED BY <1>2, <2>1, <2>4, <3>4, <4>2, <5>1 DEF OlderCovered, Scanning
      <4> QED BY <4>1, <4>2
    <3> QED BY <2>2, <3>5, <3>6, <3>7, <3>8 DEF CoverInv
  <2> QED BY <1>10, <2>3, <2>4 DEF Query
<1>11. ASSUME NEW table \in {"v2", "legacy"}, ScanRow(table) PROVE CoverInv'
  <2>1. PICK s \in left : left' = left \ {s} /\ (Take(s, table = "v2") \/ Diagnose)
    BY <1>11 DEF ScanRow
  <2>2. at = Scanning(table) /\ hand = {} /\ UNCHANGED <<at, hand, before>>
    BY <1>11 DEF ScanRow, Scanning, CoverInv, SeenRight
  <2>3. s \in Found /\ s.conv \in Conversations
    BY <2>1 DEF TypeInv, TypeOK, Found, Dated, Undated
  <2>4. /\ \A c \in Conversations : c # s.conv => seen'[c] = seen[c]
        /\ ~diagnosed' => ~diagnosed
        /\ ~diagnosed' => \A c \in Conversations :
             seen'[c] > 0 => \E i \in DOMAIN taken' : taken'[i].conv = c /\ taken'[i].updated = seen'[c]
    BY <2>1, <2>3, TakeEffect DEF CoverInv
  <2>5. ~diagnosed' =>
          /\ \A c \in Conversations : Covered(c) => Covered(c)'
          /\ Len(s.turns) >= before[s.conv] =>
               /\ s \in Known => Covered(s.conv)'
               /\ seen[s.conv] = 0 => Covered(s.conv)'
    BY <2>1, <2>2, <2>3, TakeCovers DEF CoverInv
  <2>6. s.conv \in V2 <=> at = "scanV2"
    BY <2>1 DEF CoverInv, RowsRight
  <2>7. SeenRight'
    BY <1>2, <2>2, <2>4, <2>6 DEF CoverInv, SeenRight, Scanning
  <2>8. RowsRight' /\ StillThere'
    BY <1>1, <2>1, <2>2 DEF CoverInv, RowsRight, StillThere
  <2>9. V2Covered'
    <3> SUFFICES ASSUME ~diagnosed', NEW c \in V2, before[c] > 0
                 PROVE  /\ at = "scanV2" => Awaited(c)' \/ Covered(c)'
                        /\ at \in {"legacy", "scanLegacy", "done"} => Covered(c)'
      BY <2>2 DEF V2Covered
    <3>1. c \in Conversations /\ (Covered(c) => Covered(c)')
      BY <2>5, KiroAssumption
    <3>2. ASSUME Awaited(c), at = "scanV2" PROVE Awaited(c)' \/ Covered(c)'
      <4>1. PICK t \in left : t.conv = c /\ Len(t.turns) >= before[c]
        BY <3>2 DEF Awaited
      <4>2. CASE t = s
        <5>1. s \in Known
          BY <2>1, <4>1, <4>2 DEF Known
        <5> QED BY <2>5, <4>1, <4>2, <5>1
      <4>3. CASE t # s
        BY <2>1, <2>2, <4>1, <4>3 DEF Awaited
      <4> QED BY <4>2, <4>3
    <3> QED BY <2>4, <3>1, <3>2 DEF CoverInv, V2Covered
  <2>10. OlderCovered'
    <3> SUFFICES ASSUME ~diagnosed', NEW c \in Conversations \ V2, before[c] > 0, ~Archived(c)
                 PROVE  /\ at = "scanLegacy" => (Awaited(c)' /\ seen'[c] = 0) \/ Covered(c)'
                        /\ at = "done" => Covered(c)'
      BY <1>2, <2>2 DEF OlderCovered
    <3>1. Covered(c) => Covered(c)'
      BY <2>5
    <3>2. ASSUME Awaited(c), seen[c] = 0 PROVE (Awaited(c)' /\ seen'[c] = 0) \/ Covered(c)'
      <4>1. PICK t \in left : t.conv = c /\ Len(t.turns) >= before[c]
        BY <3>2 DEF Awaited
      <4>2. CASE t = s
        BY <2>5, <3>2, <4>1, <4>2
      <4>3. CASE t # s
        <5>1. s.conv # c
          BY <2>1, <4>1, <4>3 DEF CoverInv, RowsRight
        <5> QED BY <2>1, <2>2, <2>4, <3>2, <4>1, <4>3, <5>1 DEF Awaited
      <4> QED BY <4>2, <4>3
    <3> QED BY <2>4, <3>1, <3>2 DEF CoverInv, OlderCovered
  <2> QED BY <2>7, <2>8, <2>9, <2>10 DEF CoverInv
<1>12. ASSUME NEW table \in {"v2", "legacy"}, EndRows(table) PROVE CoverInv'
  <2>1. /\ at = Scanning(table) /\ left' = {} /\ UNCHANGED <<hand, seen, taken, diagnosed, before>>
        /\ (left = {} /\ at' = After(table)) \/ at' = "failed"
    BY <1>12 DEF EndRows, Skip
  <2>2. hand = {}
    BY <1>12, <2>1 DEF Scanning, CoverInv, SeenRight
  <2>3. SeenRight'
    BY <1>2, <1>12, <2>1, <2>2 DEF CoverInv, SeenRight, Scanning, After
  <2>4. RowsRight' /\ StillThere'
    BY <1>1, <1>12, <2>1 DEF CoverInv, RowsRight, StillThere, After
  <2>5. \A c : (Covered(c) => Covered(c)') /\ (Awaited(c) => at' = "failed")
    BY <2>1 DEF Covered, Awaited
  <2>6. V2Covered'
    BY <1>12, <2>1, <2>5 DEF CoverInv, V2Covered, After, Scanning
  <2>7. OlderCovered'
    BY <1>2, <1>12, <2>1, <2>5 DEF CoverInv, OlderCovered, After, Scanning
  <2> QED BY <2>3, <2>4, <2>6, <2>7 DEF CoverInv
<1> QED
  BY <1>4, <1>6, <1>7, <1>8, <1>9, <1>10, <1>11, <1>12 DEF Collect, CollectSQLite

LEMMA CoverKept ==
  ASSUME TypeInv, OrderInv, CoverInv, [Next]_vars
  PROVE  CoverInv'
<1>1. ASSUME UNCHANGED vars PROVE CoverInv'
  BY <1>1 DEF vars, world, collector, CoverInv, SeenRight, RowsRight, StillThere, V2Covered,
              OlderCovered, Archived, Covered, Awaited
<1> QED BY <1>1, CoverInWorld, CoverInCollect DEF Next

\* A Collect without a diagnostic has taken every turn that was there when it
\* began and is not dropped since: NothingLost of KiroCollector.
THEOREM AllIsTaken == Spec => []NothingLost
<1>1. Init => OrderInv
  BY InitOrder
<1>2. Init => CoverInv
  <2> SUFFICES ASSUME Init PROVE CoverInv
    OBVIOUS
  <2>1. /\ hand = {} /\ left = {} /\ taken = <<>> /\ at = "idle"
        /\ \A c \in Conversations : ~(seen[c] > 0) /\ ~(before[c] > 0)
    BY DEF Init
  <2> QED BY <2>1, KiroAssumption
          DEF CoverInv, SeenRight, RowsRight, StillThere, V2Covered, OlderCovered
<1>3. CoverInv => NothingLost
  BY DEF CoverInv, V2Covered, OlderCovered, NothingLost, Covered
<1>4. TypeInv /\ OrderInv /\ CoverInv /\ [Next]_vars => TypeInv' /\ OrderInv' /\ CoverInv'
  BY TypeKept, OrderKept, CoverKept
<1> QED
  BY <1>1, <1>2, <1>3, <1>4, InitTypes, PTL DEF Spec

-----------------------------------------------------------------------------
(* Sums.                                                                   *)

\* f[k] is the sum of the first k numbers.
Adds(s, f) ==
  /\ f \in [0..Len(s) -> Nat] /\ f[0] = 0
  /\ \A k \in 1..Len(s) : f[k] = f[k - 1] + s[k]

\* SumOf adds number after number.
LEMMA SumRuns ==
  ASSUME NEW s \in Seq(Nat)
  PROVE  \E f : Adds(s, f) /\ SumOf(s) = f[Len(s)]
<1> DEFINE n == Len(s)
           none == 0
           Add(a, b) == a + b
           step == [p \in (1..n) \X Nat |-> Add(p[2], s[p[1]])]
<1>1. n \in Nat /\ DOMAIN s = 1..n /\ \A i \in 1..n : s[i] \in Nat
  OBVIOUS
<1>0. none \in Nat /\ none = 0
  OBVIOUS
<1> HIDE DEF n, none
<1>2. step \in [(1..n) \X Nat -> Nat] /\ \A k \in 1..n, a \in Nat : step[<<k, a>>] = Add(a, s[k])
  <2>1. \A k \in 1..n, a \in Nat : Add(a, s[k]) \in Nat
    BY <1>1
  <2> QED BY <2>1
<1> HIDE DEF step
<1>3. PICK f : Folds(Nat, none, step, n, f)
  BY <1>0, <1>1, <1>2, FoldExists
<1>4. f = [x \in SUBSET (1..n) |-> IF x = {} THEN 0 ELSE Add(f[x \ {Max(x)}], s[Max(x)])]
  <2>1. ASSUME NEW x \in SUBSET (1..n), x # {}
        PROVE  f[x] = Add(f[x \ {Max(x)}], s[Max(x)])
    <3>1. Max(x) \in 1..n /\ x \ {Max(x)} \in SUBSET (1..n)
      BY <1>1, <2>1, MaxIsLast
    <3>2. f[x \ {Max(x)}] \in Nat /\ f[x] = step[<<Max(x), f[x \ {Max(x)}]>>]
      BY <1>3, <2>1, <3>1 DEF Folds
    <3> HIDE DEF Add
    <3> QED BY <1>2, <3>1, <3>2
  <2>2. f \in [SUBSET (1..n) -> Nat] /\ f[{}] = 0
    BY <1>0, <1>3 DEF Folds
  <2> HIDE DEF Add
  <2> QED BY <2>1, <2>2
<1> DEFINE g == CHOOSE g : g = [x \in SUBSET (1..n) |->
                  IF x = {} THEN 0 ELSE Add(g[x \ {Max(x)}], s[Max(x)])]
<1>5. g = [x \in SUBSET (1..n) |-> IF x = {} THEN 0 ELSE Add(g[x \ {Max(x)}], s[Max(x)])]
  <2> HIDE DEF Add
  <2> QED BY <1>4
<1>6. SumOf(s) = g[1..n]
  BY <1>1 DEF SumOf, FoldLeft, MapThenFoldSet
<1> HIDE DEF g
<1>7. RunsAlong(Nat, step, n, g) /\ g[{}] = 0
  <2>1. ASSUME NEW x \in SUBSET (1..n), x # {}, g[x \ {Max(x)}] \in Nat
        PROVE  g[x] = step[<<Max(x), g[x \ {Max(x)}]>>]
    <3>1. Max(x) \in 1..n
      BY <1>1, <2>1, MaxIsLast
    <3> HIDE DEF Add
    <3> QED BY <1>2, <1>5, <2>1, <3>1
  <2>2. g[{}] = 0
    BY <1>5
  <2>3. Iterates(Nat, none, step, n, g)
    BY <1>0, <2>1, <2>2 DEF Iterates
  <2> QED BY <1>0, <1>1, <1>2, <2>2, <2>3, FoldRuns
<1> DEFINE h == [k \in 0..n |-> g[1..k]]
<1>8. h \in [0..n -> Nat] /\ h[0] = 0 /\ h[n] = SumOf(s)
  <2>1. 1..0 = {} /\ 0 \in 0..n /\ n \in 0..n
    BY <1>1
  <2> QED BY <1>6, <1>7, <2>1 DEF RunsAlong
<1>9. ASSUME NEW k \in 1..n PROVE h[k] = h[k - 1] + s[k]
  <2>1. k - 1 \in 0..n /\ k \in 0..n
    BY <1>1
  <2>2. g[1..(k - 1)] \in Nat /\ g[1..k] = step[<<k, g[1..(k - 1)]>>]
    BY <1>7, <2>1 DEF RunsAlong
  <2> QED BY <1>2, <2>1, <2>2
<1> HIDE DEF h
<1> QED BY <1>8, <1>9 DEF Adds, n

\* What adds up the numbers ends with their sum.
LEMMA SumIs ==
  ASSUME NEW s \in Seq(Nat), NEW f, Adds(s, f)
  PROVE  SumOf(s) = f[Len(s)] /\ SumOf(s) \in Nat
<1>1. PICK g : Adds(s, g) /\ SumOf(s) = g[Len(s)]
  BY SumRuns
<1> DEFINE n == Len(s)
           S == {k \in 0..n : f[k] = g[k]}
<1>2. /\ n \in Nat /\ f[0] = 0 /\ g[0] = 0
      /\ \A k \in 1..n : f[k] = f[k - 1] + s[k] /\ g[k] = g[k - 1] + s[k]
  BY <1>1 DEF Adds
<1> HIDE DEF n
<1>3. 0 \in S
  BY <1>2
<1>4. ASSUME NEW k \in 0..n, k \in S, k < n PROVE k + 1 \in S
  <2>1. k + 1 \in 1..n /\ k + 1 \in 0..n /\ (k + 1) - 1 = k
    BY <1>2, <1>4
  <2>2. f[k + 1] = f[k] + s[k + 1] /\ g[k + 1] = g[k] + s[k + 1]
    BY <1>2, <2>1
  <2> QED BY <1>4, <2>1, <2>2
<1>5. n \in S
  <2>1. 0..n \subseteq S
    <3> HIDE DEF S
    <3> QED BY <1>2, <1>3, <1>4, CountUp
  <2> QED BY <1>2, <2>1
<1> QED BY <1>1, <1>5 DEF Adds, n

\* The sum of the first numbers.
LEMMA SumOfFirst ==
  ASSUME NEW s \in Seq(Nat), NEW f, Adds(s, f), NEW t \in Seq(Nat),
         Len(t) <= Len(s), \A i \in 1..Len(t) : t[i] = s[i]
  PROVE  SumOf(t) = f[Len(t)]
<1> DEFINE k == Len(t)
           n == Len(s)
           g == [i \in 0..k |-> f[i]]
<1>1. k \in Nat /\ n \in Nat /\ k <= n
  OBVIOUS
<1>2. f \in [0..n -> Nat] /\ f[0] = 0 /\ \A i \in 1..n : f[i] = f[i - 1] + s[i]
  BY DEF Adds
<1>3. \A i \in 1..k : t[i] = s[i]
  OBVIOUS
<1> HIDE DEF k, n
<1>4. g \in [0..k -> Nat] /\ g[0] = 0 /\ g[k] = f[k]
  BY <1>1, <1>2
<1>5. ASSUME NEW i \in 1..k PROVE g[i] = g[i - 1] + t[i]
  <2>1. i \in 1..n /\ i - 1 \in 0..k /\ i \in 0..k
    BY <1>1
  <2> QED BY <1>2, <1>3, <2>1
<1> HIDE DEF g
<1>6. Adds(t, g)
  BY <1>4, <1>5 DEF Adds, k
<1> QED BY <1>4, <1>6, SumIs DEF k

\* No numbers, and zeros.
LEMMA SumOfNone ==
  ASSUME NEW s \in Seq(Nat), \A i \in 1..Len(s) : s[i] = 0
  PROVE  SumOf(s) = 0
<1> DEFINE f == [k \in 0..Len(s) |-> 0]
<1>1. Adds(s, f) /\ f[Len(s)] = 0
  BY DEF Adds
<1> HIDE DEF f
<1> QED BY <1>1, SumIs

\* The sum of one number is the number.
LEMMA SumOfOne ==
  ASSUME NEW x \in Nat
  PROVE  SumOf(<<x>>) = x
<1> DEFINE f == [k \in 0..1 |-> IF k = 0 THEN 0 ELSE x]
<1>1. Adds(<<x>>, f) /\ f[1] = x /\ <<x>> \in Seq(Nat) /\ Len(<<x>>) = 1
  BY DEF Adds
<1> HIDE DEF f
<1> QED BY <1>1, SumIs

\* Numbers in pairs.
LEMMA SumOfPairs ==
  ASSUME NEW n \in Nat, NEW a \in [1..n -> Nat], NEW b \in [1..n -> Nat]
  PROVE  SumOf([i \in 1..n |-> a[i] + b[i]]) = SumOf(a) + SumOf(b)
<1> DEFINE c == [i \in 1..n |-> a[i] + b[i]]
<1>1. /\ a \in Seq(Nat) /\ Len(a) = n /\ b \in Seq(Nat) /\ Len(b) = n
      /\ c \in Seq(Nat) /\ Len(c) = n /\ \A i \in 1..n : c[i] = a[i] + b[i]
  OBVIOUS
<1> HIDE DEF c
<1>2. PICK f : Adds(a, f)
  BY <1>1, SumRuns
<1>3. PICK g : Adds(b, g)
  BY <1>1, SumRuns
<1> DEFINE h == [k \in 0..n |-> f[k] + g[k]]
<1>0. /\ f \in [0..n -> Nat] /\ f[0] = 0 /\ \A k \in 1..n : f[k] = f[k - 1] + a[k]
      /\ g \in [0..n -> Nat] /\ g[0] = 0 /\ \A k \in 1..n : g[k] = g[k - 1] + b[k]
  BY <1>1, <1>2, <1>3 DEF Adds
<1>4. Adds(c, h)
  <2>1. h \in [0..n -> Nat] /\ h[0] = 0
    BY <1>0
  <2>2. ASSUME NEW k \in 1..n PROVE h[k] = h[k - 1] + c[k]
    <3>1. /\ k - 1 \in 0..n /\ k \in 0..n /\ f[k - 1] \in Nat /\ g[k - 1] \in Nat
          /\ a[k] \in Nat /\ b[k] \in Nat
      BY <1>0
    <3>2. f[k] = f[k - 1] + a[k] /\ g[k] = g[k - 1] + b[k]
      BY <1>0
    <3>3. h[k] = f[k] + g[k] /\ h[k - 1] = f[k - 1] + g[k - 1] /\ c[k] = a[k] + b[k]
      BY <1>1, <3>1
    <3> HIDE DEF h
    <3> QED BY <3>1, <3>2, <3>3
  <2> HIDE DEF h
  <2> QED BY <1>1, <2>1, <2>2 DEF Adds
<1>5. h[n] = f[n] + g[n]
  OBVIOUS
<1> HIDE DEF h
<1> QED BY <1>1, <1>2, <1>3, <1>4, <1>5, SumIs DEF c

\* One list after the other.
LEMMA SumOfBoth ==
  ASSUME NEW a \in Seq(Nat), NEW b \in Seq(Nat)
  PROVE  SumOf(a \o b) = SumOf(a) + SumOf(b)
<1> DEFINE c == a \o b
           m == Len(a)
           n == Len(b)
<1>1. /\ m \in Nat /\ n \in Nat /\ c \in Seq(Nat) /\ Len(c) = m + n
      /\ \A i \in 1..m : c[i] = a[i]
      /\ \A i \in (m + 1)..(m + n) : c[i] = b[i - m]
  OBVIOUS
<1> HIDE DEF c
<1>2. PICK f : Adds(a, f)
  BY SumRuns
<1>3. PICK g : Adds(b, g)
  BY SumRuns
<1> DEFINE h == [k \in 0..(m + n) |-> IF k <= m THEN f[k] ELSE f[m] + g[k - m]]
<1>4. /\ f \in [0..m -> Nat] /\ f[0] = 0 /\ \A k \in 1..m : f[k] = f[k - 1] + a[k]
      /\ g \in [0..n -> Nat] /\ g[0] = 0 /\ \A k \in 1..n : g[k] = g[k - 1] + b[k]
  BY <1>2, <1>3 DEF Adds
<1> HIDE DEF m, n
<1>5. h \in [0..(m + n) -> Nat] /\ h[0] = 0 /\ h[m + n] = f[m] + g[n]
  <2>1. ASSUME NEW k \in 0..(m + n) PROVE h[k] \in Nat
    <3>1. CASE k <= m
      BY <1>1, <1>4, <3>1
    <3>2. CASE ~(k <= m)
      <4>1. k - m \in 0..n /\ m \in 0..m
        BY <1>1, <3>2
      <4>2. f[m] \in Nat /\ g[k - m] \in Nat
        BY <1>4, <4>1
      <4> QED BY <3>2, <4>2
    <3> QED BY <3>1, <3>2
  <2>2. h[m + n] = f[m] + g[n]
    <3>1. CASE n = 0
      <4>1. m + n = m /\ f[m] \in Nat /\ m \in 0..(m + n) /\ m <= m
        BY <1>1, <1>4, <3>1
      <4>2. h[m + n] = f[m]
        BY <4>1
      <4> QED BY <1>4, <3>1, <4>1, <4>2
    <3>2. CASE n # 0
      <4>1. ~(m + n <= m) /\ (m + n) - m = n /\ m + n \in 0..(m + n)
        BY <1>1, <3>2
      <4> QED BY <4>1
    <3> QED BY <3>1, <3>2
  <2>3. h[0] = 0
    BY <1>1, <1>4
  <2> QED BY <2>1, <2>2, <2>3
<1>6. ASSUME NEW k \in 1..(m + n) PROVE h[k] = h[k - 1] + c[k]
  <2>1. CASE k <= m
    BY <1>1, <1>4, <2>1
  <2>2. CASE k > m
    <3>1. /\ k - m \in 1..n /\ k \in (m + 1)..(m + n) /\ (k - 1) - m = (k - m) - 1
          /\ k - 1 \in 0..(m + n) /\ k \in 0..(m + n)
      BY <1>1, <2>2
    <3>2. g[k - m] = g[(k - m) - 1] + b[k - m] /\ g[(k - m) - 1] \in Nat /\ b[k - m] \in Nat
      <4>1. b[k - m] \in Nat
        BY <3>1 DEF n
      <4>2. (k - m) - 1 \in 0..n
        BY <1>1, <3>1
      <4> QED BY <1>4, <3>1, <4>1, <4>2
    <3>3. h[k] = f[m] + g[k - m] /\ c[k] = b[k - m] /\ f[m] \in Nat
      <4>1. c[k] = b[k - m]
        BY <1>1, <3>1
      <4>2. f[m] \in Nat
        BY <1>1, <1>4
      <4>3. ~(k <= m)
        BY <1>1, <2>2, <3>1
      <4> QED BY <3>1, <4>1, <4>2, <4>3
    <3>4. h[k - 1] = f[m] + g[(k - m) - 1]
      <4>1. CASE k = m + 1
        BY <1>1, <1>4, <3>1, <3>3, <4>1
      <4>2. CASE k # m + 1
        <5>1. ~(k - 1 <= m)
          <6>1. ASSUME NEW p \in Int, NEW q \in Int, p > q, p # q + 1 PROVE ~(p - 1 <= q)
            BY <6>1
          <6>2. k \in Int /\ m \in Int
            <7> HIDE DEF c, h
            <7> QED BY <1>1
          <6> QED BY <2>2, <4>2, <6>1, <6>2
        <5> QED BY <3>1, <5>1
      <4> QED BY <4>1, <4>2
    <3> HIDE DEF h
    <3> QED BY <3>2, <3>3, <3>4
  <2> QED BY <1>1, <2>1, <2>2
<1>7. Adds(c, h)
  <2> HIDE DEF h
  <2> QED BY <1>1, <1>5, <1>6 DEF Adds
<1> HIDE DEF h
<1> QED BY <1>1, <1>2, <1>3, <1>5, <1>7, SumIs DEF c, m, n

\* More, and larger, numbers.
LEMMA SumOfMore ==
  ASSUME NEW a \in Seq(Nat), NEW b \in Seq(Nat), Len(a) <= Len(b),
         \A i \in 1..Len(a) : a[i] <= b[i]
  PROVE  SumOf(a) <= SumOf(b)
<1>1. PICK f : Adds(a, f)
  BY SumRuns
<1>2. PICK g : Adds(b, g)
  BY SumRuns
<1> DEFINE m == Len(a)
           n == Len(b)
           F(k) == IF k <= m THEN f[k] ELSE f[m]
           S == {k \in 0..n : F(k) <= g[k]}
<1>3. /\ m \in Nat /\ n \in Nat /\ m <= n
      /\ f \in [0..m -> Nat] /\ f[0] = 0 /\ \A k \in 1..m : f[k] = f[k - 1] + a[k]
      /\ g \in [0..n -> Nat] /\ g[0] = 0 /\ \A k \in 1..n : g[k] = g[k - 1] + b[k]
      /\ \A i \in 1..m : a[i] \in Nat /\ a[i] <= b[i]
      /\ \A i \in 1..n : b[i] \in Nat
  <2>1. m \in Nat /\ n \in Nat
    OBVIOUS
  <2>2. (\A i \in 1..m : a[i] \in Nat) /\ (\A i \in 1..n : b[i] \in Nat)
    OBVIOUS
  <2> QED BY <1>1, <1>2, <2>1, <2>2 DEF Adds
<1> HIDE DEF m, n
<1>4. 0 \in S
  BY <1>3
<1>5. ASSUME NEW k \in 0..n, k \in S, k < n PROVE k + 1 \in S
  <2>1. k + 1 \in 1..n /\ k + 1 \in 0..n /\ (k + 1) - 1 = k /\ k \in Nat
    BY <1>3, <1>5
  <2>2. g[k + 1] = g[k] + b[k + 1] /\ g[k] \in Nat /\ b[k + 1] \in Nat
    BY <1>3, <2>1
  <2>3. CASE k < m
    <3>1. k + 1 \in 1..m /\ k <= m /\ k + 1 <= m
      BY <1>3, <2>1, <2>3
    <3>2. f[k + 1] = f[k] + a[k + 1] /\ f[k] \in Nat /\ a[k + 1] <= b[k + 1] /\ a[k + 1] \in Nat
      <4>1. k \in 0..m
        BY <1>3, <2>1, <3>1
      <4>2. f[k + 1] = f[k] + a[k + 1]
        BY <1>3, <2>1, <3>1
      <4> QED BY <1>3, <3>1, <4>1, <4>2
    <3>3. f[k] <= g[k]
      BY <1>5, <3>1
    <3>4. f[k + 1] <= g[k + 1]
      <4> HIDE DEF S
      <4>1. ASSUME NEW p \in Nat, NEW q \in Nat, NEW x \in Nat, NEW y \in Nat, p <= q, x <= y
            PROVE  p + x <= q + y
        BY <4>1
      <4> QED BY <2>2, <3>2, <3>3, <4>1
    <3> QED BY <2>1, <3>1, <3>4
  <2>4. CASE ~(k < m)
    <3>1. F(k) = f[m] /\ F(k + 1) = f[m] /\ f[m] \in Nat
      BY <1>3, <2>1, <2>4
    <3> QED BY <1>5, <2>1, <2>2, <3>1
  <2> QED BY <2>3, <2>4
<1>6. n \in S
  <2>1. 0..n \subseteq S
    <3> HIDE DEF S, F
    <3> QED BY <1>3, <1>4, <1>5, CountUp
  <2> QED BY <1>3, <2>1
<1>7. f[m] <= g[n]
  BY <1>3, <1>6
<1> QED BY <1>1, <1>2, <1>7, SumIs DEF m, n

-----------------------------------------------------------------------------
(* Estimates.                                                              *)

\* Texts and images have numbers of tokens.
LEMMA TokenTypes ==
  ASSUME NEW per \in Nat \ {0}, NEW lengths \in Seq(Nat)
  PROVE  /\ tokensForRaw(lengths, per) \in Nat
         /\ imageTokens(lengths) \in Nat
<1>1. ASSUME NEW d \in Nat \ {0}, NEW x \in Nat PROVE x \div d \in Nat
  OBVIOUS
<1>2. DOMAIN lengths = 1..Len(lengths) /\ \A i \in 1..Len(lengths) : lengths[i] \in Nat
  OBVIOUS
<1> DEFINE a == [i \in DOMAIN lengths |-> lengths[i] \div per]
           b == [i \in DOMAIN lengths |-> 1600 + lengths[i] \div 1500]
<1>3. a \in Seq(Nat)
  <2>1. \A i \in 1..Len(lengths) : lengths[i] \div per \in Nat
    BY <1>1, <1>2
  <2> QED BY <1>2, <2>1
<1>4. b \in Seq(Nat)
  <2>1. \A i \in 1..Len(lengths) : 1600 + lengths[i] \div 1500 \in Nat
    BY <1>1, <1>2
  <2> QED BY <1>2, <2>1
<1>5. ASSUME NEW s \in Seq(Nat) PROVE SumOf(s) \in Nat
  <2>1. PICK f : Adds(s, f)
    BY SumRuns
  <2> QED BY <2>1, SumIs
<1> QED BY <1>3, <1>4, <1>5 DEF tokensForRaw, imageTokens

\* So do the two sides of a turn.
LEMMA TurnTypes ==
  ASSUME NEW per \in Nat \ {0}, NEW turn \in Turn
  PROVE  turnTextAndTools(turn, per) \in [user : Nat, assistant : Nat]
<1>1. turn.user \in Seq(Nat) /\ turn.assistant \in Seq(Nat) /\ turn.images \in Seq(Nat)
  BY DEF Turn
<1>2. /\ tokensForRaw(turn.user, per) \in Nat /\ imageTokens(turn.images) \in Nat
      /\ tokensForRaw(turn.assistant, per) \in Nat
  BY <1>1, TokenTypes
<1> QED BY <1>2 DEF turnTextAndTools

Usage == [input : Nat, output : Nat, cacheRead : Nat, cacheWrite : Nat,
          start : Nat, tools : Seq(STRING)]

\* The tokens of user and assistant in every turn.
Said(turns, per) ==
  [i \in 1..Len(turns) |-> turnTextAndTools(turns[i], per).user
                             + turnTextAndTools(turns[i], per).assistant]

\* The usage of a turn, when f adds up what was said.
UsageOf(turns, summary, per, f, i) ==
  LET text == turnTextAndTools(turns[i], per) IN
  [input      |-> text.user,
   output     |-> IF turns[i].chunks > 0 THEN turns[i].chunks ELSE text.assistant,
   cacheRead  |-> IF i = 1 THEN 0 ELSE summary \div per + f[i - 1],
   cacheWrite |-> text.user + IF i = 1 THEN 0 ELSE turnTextAndTools(turns[i - 1], per).assistant,
   start      |-> turns[i].start,
   tools      |-> turns[i].tools]

Estimates(usages, turns, summary, per, f) ==
  /\ usages \in Seq(Usage) /\ Len(usages) = Len(turns)
  /\ Adds(Said(turns, per), f)
  /\ \A i \in 1..Len(turns) : usages[i] = UsageOf(turns, summary, per, f, i)

\* What was said is counted turn by turn.
LEMMA SaidTypes ==
  ASSUME NEW per \in Nat \ {0}, NEW turns \in Seq(Turn)
  PROVE  Said(turns, per) \in Seq(Nat) /\ Len(Said(turns, per)) = Len(turns)
<1>1. \A i \in 1..Len(turns) : turnTextAndTools(turns[i], per) \in [user : Nat, assistant : Nat]
  <2>1. \A i \in 1..Len(turns) : turns[i] \in Turn
    OBVIOUS
  <2> QED BY <2>1, TurnTypes
<1>2. \A i \in 1..Len(turns) : turnTextAndTools(turns[i], per).user
                               + turnTextAndTools(turns[i], per).assistant \in Nat
  BY <1>1
<1>3. Len(turns) \in Nat
  OBVIOUS
<1> QED BY <1>2, <1>3 DEF Said

\* What the loop of estimateUsages has after every turn.
Acc == [usages : Seq(Usage), cumulative : Nat, prev : Nat]
EstimateRuns(turns, summary, per, h) ==
  /\ h \in [0..Len(turns) -> Acc]
  /\ h[0] = [usages |-> <<>>, cumulative |-> tokensForRaw(<<summary>>, per), prev |-> 0]
  /\ \A k \in 1..Len(turns) : h[k] = NextUsage(h[k - 1], turns[k], per)

\* The loop keeps the types of what it carries.
LEMMA NextUsageTypes ==
  ASSUME NEW per \in Nat \ {0}, NEW acc \in Acc, NEW turn \in Turn
  PROVE  NextUsage(acc, turn, per) \in Acc
<1> DEFINE text == turnTextAndTools(turn, per)
           u == [input      |-> text.user,
                 output     |-> IF turn.chunks > 0 THEN turn.chunks ELSE text.assistant,
                 cacheRead  |-> IF acc.usages = <<>> THEN 0 ELSE acc.cumulative,
                 cacheWrite |-> text.user + IF acc.usages = <<>> THEN 0 ELSE acc.prev,
                 start      |-> turn.start,
                 tools      |-> turn.tools]
<1>1. text.user \in Nat /\ text.assistant \in Nat
  BY TurnTypes
<1>2. turn.chunks \in Nat /\ turn.start \in Nat /\ turn.tools \in Seq(STRING)
  BY DEF Turn
<1>3. acc.usages \in Seq(Usage) /\ acc.cumulative \in Nat /\ acc.prev \in Nat
  BY DEF Acc
<1> HIDE DEF text
<1>4. u \in Usage
  BY <1>1, <1>2, <1>3 DEF Usage
<1>5. NextUsage(acc, turn, per) = [usages |-> Append(acc.usages, u),
                                   cumulative |-> acc.cumulative + text.user + text.assistant,
                                   prev |-> text.assistant]
  BY DEF NextUsage, text
<1> HIDE DEF u
<1>6. Append(acc.usages, u) \in Seq(Usage)
  BY <1>3, <1>4
<1>7. acc.cumulative + text.user + text.assistant \in Nat
  BY <1>1, <1>3
<1> QED BY <1>1, <1>5, <1>6, <1>7 DEF Acc

\* The loop of estimateUsages goes from turn to turn.
LEMMA EstimatesRun ==
  ASSUME NEW per \in Nat \ {0}, NEW turns \in Seq(Turn), NEW summary \in Nat
  PROVE  \E h : /\ EstimateRuns(turns, summary, per, h)
                /\ estimateUsages(turns, summary, per) = h[Len(turns)].usages
<1> DEFINE n == Len(turns)
           none == [usages |-> <<>>, cumulative |-> tokensForRaw(<<summary>>, per), prev |-> 0]
           Step(acc, turn) == NextUsage(acc, turn, per)
           step == [p \in (1..n) \X Acc |-> Step(p[2], turns[p[1]])]
<1>1. n \in Nat /\ DOMAIN turns = 1..n /\ \A i \in 1..n : turns[i] \in Turn
  OBVIOUS
<1>2. none \in Acc
  <2>1. <<summary>> \in Seq(Nat) /\ <<>> \in Seq(Usage)
    OBVIOUS
  <2> QED BY <2>1, TokenTypes DEF Acc
<1>3. \A k \in 1..n, acc \in Acc : Step(acc, turns[k]) \in Acc
  BY <1>1, NextUsageTypes
<1>4. FoldLeft(Step, none, turns) =
        (CHOOSE g : g = [x \in SUBSET (1..n) |->
                     IF x = {} THEN none ELSE Step(g[x \ {Max(x)}], turns[Max(x)])])[1..n]
  BY <1>1 DEF FoldLeft, MapThenFoldSet
<1>5. estimateUsages(turns, summary, per) = FoldLeft(Step, none, turns).usages
  BY DEF estimateUsages
<1> HIDE DEF n, none, Step
<1>6. step \in [(1..n) \X Acc -> Acc] /\ \A k \in 1..n, a \in Acc : step[<<k, a>>] = Step(a, turns[k])
  BY <1>1, <1>3
<1> HIDE DEF step
<1>7. PICK f : Folds(Acc, none, step, n, f)
  BY <1>1, <1>2, <1>6, FoldExists
<1>8. f = [x \in SUBSET (1..n) |-> IF x = {} THEN none ELSE Step(f[x \ {Max(x)}], turns[Max(x)])]
  <2>1. ASSUME NEW x \in SUBSET (1..n), x # {}
        PROVE  f[x] = Step(f[x \ {Max(x)}], turns[Max(x)])
    <3>1. Max(x) \in 1..n /\ x \ {Max(x)} \in SUBSET (1..n)
      BY <1>1, <2>1, MaxIsLast
    <3>2. f[x \ {Max(x)}] \in Acc /\ f[x] = step[<<Max(x), f[x \ {Max(x)}]>>]
      BY <1>7, <2>1, <3>1 DEF Folds
    <3> QED BY <1>6, <3>1, <3>2
  <2>2. f \in [SUBSET (1..n) -> Acc] /\ f[{}] = none
    BY <1>7 DEF Folds
  <2> QED BY <2>1, <2>2
<1> DEFINE g == CHOOSE g : g = [x \in SUBSET (1..n) |->
                  IF x = {} THEN none ELSE Step(g[x \ {Max(x)}], turns[Max(x)])]
<1>9. g = [x \in SUBSET (1..n) |-> IF x = {} THEN none ELSE Step(g[x \ {Max(x)}], turns[Max(x)])]
  BY <1>8
<1>10. estimateUsages(turns, summary, per) = g[1..n].usages
  BY <1>4, <1>5
<1> HIDE DEF g
<1>11. RunsAlong(Acc, step, n, g) /\ g[{}] = none
  <2>1. ASSUME NEW x \in SUBSET (1..n), x # {}, g[x \ {Max(x)}] \in Acc
        PROVE  g[x] = step[<<Max(x), g[x \ {Max(x)}]>>]
    <3>1. Max(x) \in 1..n
      BY <1>1, <2>1, MaxIsLast
    <3> QED BY <1>6, <1>9, <2>1, <3>1
  <2>2. g[{}] = none
    BY <1>9
  <2>3. Iterates(Acc, none, step, n, g)
    BY <2>1, <2>2 DEF Iterates
  <2> QED BY <1>1, <1>2, <1>6, <2>2, <2>3, FoldRuns
<1> DEFINE h == [k \in 0..n |-> g[1..k]]
<1>12. h \in [0..n -> Acc] /\ h[0] = none /\ h[n].usages = estimateUsages(turns, summary, per)
  <2>1. 1..0 = {} /\ 0 \in 0..n /\ n \in 0..n
    BY <1>1
  <2> QED BY <1>10, <1>11, <2>1 DEF RunsAlong
<1>13. ASSUME NEW k \in 1..n PROVE h[k] = Step(h[k - 1], turns[k])
  <2>1. k - 1 \in 0..n /\ k \in 0..n
    BY <1>1
  <2>2. g[1..(k - 1)] \in Acc /\ g[1..k] = step[<<k, g[1..(k - 1)]>>]
    BY <1>11, <2>1 DEF RunsAlong
  <2> QED BY <1>6, <2>1, <2>2
<1> HIDE DEF h
<1> QED BY <1>12, <1>13 DEF EstimateRuns, n, none, Step

\* Every turn reads what was said before it, and the summary, and writes what
\* it says and the answer before.
LEMMA UsagesAre ==
  ASSUME NEW per \in Nat \ {0}, NEW turns \in Seq(Turn), NEW summary \in Nat
  PROVE  \E f : Estimates(estimateUsages(turns, summary, per), turns, summary, per, f)
<1>1. PICK h : /\ EstimateRuns(turns, summary, per, h)
               /\ estimateUsages(turns, summary, per) = h[Len(turns)].usages
  BY EstimatesRun
<1>2. PICK f : Adds(Said(turns, per), f)
  BY SaidTypes, SumRuns
<1> DEFINE n == Len(turns)
           base == summary \div per
           Text(i) == turnTextAndTools(turns[i], per)
           S == {k \in 0..n :
                   /\ Len(h[k].usages) = k /\ h[k].cumulative = base + f[k]
                   /\ k > 0 => h[k].prev = Text(k).assistant
                   /\ \A i \in 1..k : h[k].usages[i] = UsageOf(turns, summary, per, f, i)}
<1>3. /\ n \in Nat /\ base \in Nat /\ \A i \in 1..n : turns[i] \in Turn
      /\ \A i \in 1..n : Text(i).user \in Nat /\ Text(i).assistant \in Nat
      /\ f \in [0..n -> Nat] /\ f[0] = 0
      /\ \A k \in 1..n : f[k] = f[k - 1] + (Text(k).user + Text(k).assistant)
  <2>1. n \in Nat /\ base \in Nat /\ \A i \in 1..n : turns[i] \in Turn
    OBVIOUS
  <2>2. \A i \in 1..n : Text(i).user \in Nat /\ Text(i).assistant \in Nat
    BY <2>1, TurnTypes
  <2>3. Len(Said(turns, per)) = n
    BY SaidTypes
  <2>4. f \in [0..n -> Nat] /\ f[0] = 0
    BY <1>2, <2>3 DEF Adds
  <2>5. \A k \in 1..n : f[k] = f[k - 1] + (Text(k).user + Text(k).assistant)
    BY <1>2, <2>3 DEF Adds, Said
  <2> QED BY <2>1, <2>2, <2>4, <2>5
<1>4. /\ h \in [0..n -> Acc] /\ h[0].usages = <<>> /\ h[0].cumulative = base
      /\ \A k \in 1..n : h[k] = NextUsage(h[k - 1], turns[k], per)
  <2>1. tokensForRaw(<<summary>>, per) = base
    <3>1. [i \in DOMAIN <<summary>> |-> <<summary>>[i] \div per] = <<base>>
      OBVIOUS
    <3> QED BY <1>3, <3>1, SumOfOne DEF tokensForRaw
  <2> QED BY <1>1, <2>1 DEF EstimateRuns
<1> HIDE DEF n, base
<1>5. 0 \in S
  <2>1. 0 \in 0..n /\ 1..0 = {} /\ ~(0 > 0) /\ Len(<<>>) = 0
    BY <1>3
  <2> QED BY <1>3, <1>4, <2>1
<1>6. ASSUME NEW k \in 0..n, k \in S, k < n PROVE k + 1 \in S
  <2> DEFINE acc == h[k]
             t   == turns[k + 1]
             new == UsageOf(turns, summary, per, f, k + 1)
  <2>1. k + 1 \in 1..n /\ k + 1 \in 0..n /\ (k + 1) - 1 = k /\ k \in Nat
    <3> HIDE DEF S
    <3> QED BY <1>3, <1>6
  <2>2. /\ acc.usages \in Seq(Usage) /\ Len(acc.usages) = k
        /\ acc.cumulative = base + f[k] /\ f[k] \in Nat
        /\ k > 0 => acc.prev = Text(k).assistant
        /\ \A i \in 1..k : acc.usages[i] = UsageOf(turns, summary, per, f, i)
    BY <1>3, <1>4, <1>6 DEF Acc
  <2>3. h[k + 1] = NextUsage(acc, t, per)
    BY <1>4, <2>1
  <2>4. acc.usages = <<>> <=> k + 1 = 1
    <3>1. acc.usages = <<>> <=> Len(acc.usages) = 0
      BY <2>2
    <3> QED BY <2>1, <2>2, <3>1
  <2>5. /\ h[k + 1].usages = Append(acc.usages, new)
        /\ h[k + 1].cumulative = acc.cumulative + Text(k + 1).user + Text(k + 1).assistant
        /\ h[k + 1].prev = Text(k + 1).assistant
    <3>1. k + 1 # 1 => acc.prev = Text(k).assistant /\ acc.cumulative = base + f[k]
      BY <2>1, <2>2
    <3> DEFINE text == Text(k + 1)
               made == [input      |-> text.user,
                        output     |-> IF t.chunks > 0 THEN t.chunks ELSE text.assistant,
                        cacheRead  |-> IF acc.usages = <<>> THEN 0 ELSE acc.cumulative,
                        cacheWrite |-> text.user + IF acc.usages = <<>> THEN 0 ELSE acc.prev,
                        start      |-> t.start,
                        tools      |-> t.tools]
    <3>2. made = new
      BY <2>1, <2>4, <3>1 DEF UsageOf, base
    <3>3. NextUsage(acc, t, per) = [usages     |-> Append(acc.usages, made),
                                    cumulative |-> acc.cumulative + text.user + text.assistant,
                                    prev       |-> text.assistant]
      BY DEF NextUsage
    <3> HIDE DEF made, new, text, acc, t
    <3>4. /\ h[k + 1].usages = Append(acc.usages, new)
          /\ h[k + 1].cumulative = acc.cumulative + text.user + text.assistant
          /\ h[k + 1].prev = text.assistant
      BY <2>3, <3>2, <3>3
    <3> QED BY <3>4 DEF text
  <2>6. h[k + 1].cumulative = base + f[k + 1]
    <3>1. Text(k + 1).user \in Nat /\ Text(k + 1).assistant \in Nat /\ f[k] \in Nat
      BY <1>3, <2>1, <2>2
    <3>2. f[k + 1] = f[k] + (Text(k + 1).user + Text(k + 1).assistant)
      BY <1>3, <2>1
    <3>3. h[k + 1].cumulative = (base + f[k]) + Text(k + 1).user + Text(k + 1).assistant
      BY <2>2, <2>5
    <3> HIDE DEF Text, acc
    <3> QED BY <1>3, <3>1, <3>2, <3>3
  <2> HIDE DEF new, acc
  <2>7. /\ Len(h[k + 1].usages) = k + 1
        /\ \A i \in 1..(k + 1) : h[k + 1].usages[i] = IF i = k + 1 THEN new ELSE acc.usages[i]
    BY <2>1, <2>2, <2>5
  <2>8. \A i \in 1..(k + 1) : h[k + 1].usages[i] = UsageOf(turns, summary, per, f, i)
    <3>1. ASSUME NEW i \in 1..(k + 1), i # k + 1 PROVE i \in 1..k
      BY <2>1, <3>1
    <3> QED BY <2>2, <2>7, <3>1 DEF new
  <2> QED BY <2>1, <2>5, <2>6, <2>7, <2>8
<1>7. n \in S
  <2>1. 0..n \subseteq S
    <3> HIDE DEF S
    <3> QED BY <1>3, <1>5, <1>6, CountUp
  <2> HIDE DEF S
  <2> QED BY <1>3, <2>1
<1>8. h[n].usages \in Seq(Usage)
  BY <1>3, <1>4 DEF Acc
<1> QED BY <1>1, <1>2, <1>7, <1>8 DEF Estimates, n

\* Cache reads and writes of a snapshot add up: CacheSums of KiroReports.
LEMMA CacheAddsUp == CacheSums
<1> SUFFICES ASSUME NEW s \in Snaps, NEW per, per = CharsPerToken,
                    NEW usages, usages = estimateUsages(s.turns, s.summary, per),
                    NEW n \in DOMAIN usages
             PROVE  LET Told(m) == SumOf([i \in 1..m |-> turnTextAndTools(s.turns[i], per).user
                                            + turnTextAndTools(s.turns[i], per).assistant])
                    IN  /\ n > 1 => usages[n].cacheRead = s.summary \div per + Told(n - 1)
                        /\ SumOf([i \in 1..n |-> usages[i].cacheWrite]) = Told(n - 1) + usages[n].input
  BY DEF CacheSums
<1>1. per \in Nat \ {0} /\ s.turns \in Seq(Turn) /\ s.summary \in Nat
  BY ReportsAssumption DEF Snap
<1> DEFINE turns == s.turns
           N == Len(turns)
           Text(i) == turnTextAndTools(turns[i], per)
<1>2. PICK f : Estimates(usages, turns, s.summary, per, f)
  BY <1>1, UsagesAre
<1>3. /\ N \in Nat /\ n \in 1..N /\ n - 1 \in 0..N
      /\ usages \in Seq(Usage) /\ Len(usages) = N
  <2>1. N \in Nat /\ usages \in Seq(Usage) /\ Len(usages) = N
    BY <1>1, <1>2 DEF Estimates
  <2> QED BY <2>1
<1>4. /\ \A i \in 1..N : Text(i).user \in Nat /\ Text(i).assistant \in Nat
      /\ f \in [0..N -> Nat] /\ f[0] = 0
      /\ \A k \in 1..N : f[k] = f[k - 1] + (Text(k).user + Text(k).assistant)
  <2>1. \A i \in 1..N : turns[i] \in Turn
    BY <1>1
  <2>2. \A i \in 1..N : Text(i).user \in Nat /\ Text(i).assistant \in Nat
    BY <1>1, <2>1, TurnTypes
  <2>3. Len(Said(turns, per)) = N /\ Adds(Said(turns, per), f)
    BY <1>1, <1>2, SaidTypes DEF Estimates
  <2>4. f \in [0..N -> Nat] /\ f[0] = 0
    BY <2>3 DEF Adds
  <2>5. \A k \in 1..N : f[k] = f[k - 1] + (Text(k).user + Text(k).assistant)
    BY <2>3 DEF Adds, Said
  <2> QED BY <2>2, <2>4, <2>5
<1>5. SumOf([i \in 1..(n - 1) |-> Text(i).user + Text(i).assistant]) = f[n - 1]
  <2> DEFINE t == [i \in 1..(n - 1) |-> Text(i).user + Text(i).assistant]
             q == Said(turns, per)
  <2>1. /\ n - 1 \in Nat /\ n - 1 <= N
        /\ \A i \in 1..(n - 1) : i \in 1..N /\ Text(i).user + Text(i).assistant \in Nat
    <3> HIDE DEF Text, N
    <3>1. n - 1 \in Nat /\ n - 1 <= N
      BY <1>3
    <3>2. \A i \in 1..(n - 1) : i \in 1..N
      BY <1>3
    <3>3. \A i \in 1..N : Text(i).user + Text(i).assistant \in Nat
      BY <1>4
    <3> QED BY <3>1, <3>2, <3>3
  <2>2. t \in Seq(Nat) /\ Len(t) = n - 1
    <3> HIDE DEF Text
    <3> QED BY <2>1
  <2>3. \A i \in 1..(n - 1) : t[i] = q[i]
    BY <2>1 DEF Said
  <2>4. q \in Seq(Nat) /\ Len(q) = N /\ Adds(q, f)
    BY <1>1, <1>2, SaidTypes DEF Estimates
  <2> HIDE DEF t, q, N
  <2>5. SumOf(t) = f[n - 1]
    BY <2>1, <2>2, <2>3, <2>4, SumOfFirst
  <2> QED BY <2>5 DEF t
<1>6. /\ usages[n].input = Text(n).user
      /\ n > 1 => usages[n].cacheRead = s.summary \div per + f[n - 1]
      /\ \A i \in 1..N : usages[i].cacheWrite = Text(i).user + IF i = 1 THEN 0 ELSE Text(i - 1).assistant
  <2>1. \A i \in 1..N : usages[i] = UsageOf(turns, s.summary, per, f, i)
    BY <1>2 DEF Estimates
  <2>2. ASSUME NEW i \in 1..N
        PROVE  /\ usages[i].input = Text(i).user
               /\ usages[i].cacheRead = IF i = 1 THEN 0 ELSE s.summary \div per + f[i - 1]
               /\ usages[i].cacheWrite = Text(i).user + IF i = 1 THEN 0 ELSE Text(i - 1).assistant
    <3>1. usages[i] = UsageOf(turns, s.summary, per, f, i)
      BY <2>1
    <3> QED BY <3>1 DEF UsageOf
  <2>3. n > 1 => n # 1
    BY <1>3
  <2> QED BY <1>3, <2>2, <2>3
<1> DEFINE w == [i \in 1..N |-> usages[i].cacheWrite]
           g == [k \in 0..N |-> IF k = 0 THEN 0 ELSE f[k - 1] + Text(k).user]
<1>7. SumOf([i \in 1..n |-> usages[i].cacheWrite]) = g[n]
  <2>1. w \in Seq(Nat) /\ Len(w) = N
    <3>1. \A i \in 1..N : usages[i].cacheWrite \in Nat
      <4>1. \A i \in 1..N : usages[i] \in Usage
        BY <1>3
      <4> QED BY <4>1 DEF Usage
    <3> QED BY <1>3, <3>1
  <2>2. Adds(w, g)
    <3>1. g \in [0..N -> Nat] /\ g[0] = 0
      <4>1. ASSUME NEW k \in 0..N, k # 0 PROVE f[k - 1] + Text(k).user \in Nat
        <5>1. k \in 1..N /\ k - 1 \in 0..N
          BY <1>3, <4>1
        <5>2. Text(k).user \in Nat /\ f[k - 1] \in Nat
          BY <1>4, <5>1
        <5> HIDE DEF Text
        <5> QED BY <5>2
      <4> HIDE DEF Text
      <4> QED BY <1>3, <4>1
    <3>2. ASSUME NEW k \in 1..N PROVE g[k] = g[k - 1] + w[k]
      <4>1. k - 1 \in 0..N /\ k \in 0..N /\ k # 0 /\ w[k] = usages[k].cacheWrite
        BY <1>3
      <4>2. g[k] = f[k - 1] + Text(k).user
        BY <4>1
      <4>3. CASE k = 1
        BY <1>4, <1>6, <4>1, <4>2, <4>3
      <4>4. CASE k # 1
        <5>1. k - 1 \in 1..N /\ k - 1 # 0 /\ (k - 1) - 1 \in 0..N
          BY <1>3, <4>4
        <5>2. g[k - 1] = f[(k - 1) - 1] + Text(k - 1).user
          BY <4>1, <5>1
        <5>3. w[k] = Text(k).user + Text(k - 1).assistant
          BY <1>6, <4>1, <4>4
        <5>4. f[k - 1] = f[(k - 1) - 1] + (Text(k - 1).user + Text(k - 1).assistant)
          BY <1>4, <5>1
        <5>5. /\ Text(k).user \in Nat /\ Text(k - 1).user \in Nat /\ Text(k - 1).assistant \in Nat
              /\ f[(k - 1) - 1] \in Nat
          BY <1>4, <5>1
        <5> HIDE DEF g, w, Text
        <5> QED BY <4>2, <5>2, <5>3, <5>4, <5>5
      <4> QED BY <4>3, <4>4
    <3> HIDE DEF g, w
    <3> QED BY <2>1, <3>1, <3>2 DEF Adds
  <2> DEFINE t == [i \in 1..n |-> usages[i].cacheWrite]
  <2>3. n \in Nat /\ n <= N /\ \A i \in 1..n : i \in 1..N
    BY <1>3
  <2>4. t \in Seq(Nat) /\ Len(t) = n /\ \A i \in 1..n : t[i] = w[i]
    <3>1. \A i \in 1..n : usages[i].cacheWrite = w[i] /\ w[i] \in Nat
      <4>1. \A i \in 1..n : usages[i].cacheWrite = w[i]
        BY <2>3
      <4>2. \A i \in 1..n : w[i] \in Nat
        <5> HIDE DEF w
        <5> QED BY <2>1, <2>3
      <4> QED BY <4>1, <4>2
    <3> HIDE DEF w
    <3> QED BY <2>3, <3>1
  <2> HIDE DEF g, w, t, N
  <2>5. SumOf(t) = g[n]
    BY <2>1, <2>2, <2>3, <2>4, SumOfFirst
  <2> QED BY <2>5 DEF t
<1>8. g[n] = f[n - 1] + Text(n).user
  BY <1>3
<1> QED BY <1>5, <1>6, <1>7, <1>8

-----------------------------------------------------------------------------
(* Lists of events.                                                        *)

Joins(E, lists, h) ==
  /\ h \in [0..Len(lists) -> Seq(E)] /\ h[0] = <<>>
  /\ \A k \in 1..Len(lists) : h[k] = h[k - 1] \o lists[k]

\* Joined puts list behind list.
LEMMA JoinRuns ==
  ASSUME NEW E, NEW lists \in Seq(Seq(E))
  PROVE  \E h : Joins(E, lists, h) /\ Joined(lists) = h[Len(lists)]
<1> DEFINE n == Len(lists)
           M == Seq(E)
           none == <<>>
           Add(a, b) == a \o b
           step == [p \in (1..n) \X M |-> Add(p[2], lists[p[1]])]
<1>1. n \in Nat /\ DOMAIN lists = 1..n /\ \A i \in 1..n : lists[i] \in M
  OBVIOUS
<1>2. none \in M /\ none = <<>> /\ \A a, b \in M : Add(a, b) \in M
  OBVIOUS
<1>3. Joined(lists) =
        (CHOOSE g : g = [x \in SUBSET (1..n) |->
                     IF x = {} THEN none ELSE Add(g[x \ {Max(x)}], lists[Max(x)])])[1..n]
  BY <1>1 DEF Joined, FoldLeft, MapThenFoldSet
<1>4. \A a, b : Add(a, b) = a \o b
  OBVIOUS
<1> HIDE DEF n, none, M, Add
<1>5. step \in [(1..n) \X M -> M] /\ \A k \in 1..n, a \in M : step[<<k, a>>] = Add(a, lists[k])
  BY <1>1, <1>2
<1> HIDE DEF step
<1>6. PICK f : Folds(M, none, step, n, f)
  BY <1>1, <1>2, <1>5, FoldExists
<1>7. f = [x \in SUBSET (1..n) |-> IF x = {} THEN none ELSE Add(f[x \ {Max(x)}], lists[Max(x)])]
  <2>1. ASSUME NEW x \in SUBSET (1..n), x # {}
        PROVE  f[x] = Add(f[x \ {Max(x)}], lists[Max(x)])
    <3>1. Max(x) \in 1..n /\ x \ {Max(x)} \in SUBSET (1..n)
      BY <1>1, <2>1, MaxIsLast
    <3>2. f[x \ {Max(x)}] \in M /\ f[x] = step[<<Max(x), f[x \ {Max(x)}]>>]
      BY <1>6, <2>1, <3>1 DEF Folds
    <3> QED BY <1>5, <3>1, <3>2
  <2>2. f \in [SUBSET (1..n) -> M] /\ f[{}] = none
    BY <1>6 DEF Folds
  <2> QED BY <2>1, <2>2
<1> DEFINE g == CHOOSE g : g = [x \in SUBSET (1..n) |->
                  IF x = {} THEN none ELSE Add(g[x \ {Max(x)}], lists[Max(x)])]
<1>8. g = [x \in SUBSET (1..n) |-> IF x = {} THEN none ELSE Add(g[x \ {Max(x)}], lists[Max(x)])]
  BY <1>7
<1>9. Joined(lists) = g[1..n]
  BY <1>3
<1> HIDE DEF g
<1>10. RunsAlong(M, step, n, g) /\ g[{}] = none
  <2>1. ASSUME NEW x \in SUBSET (1..n), x # {}, g[x \ {Max(x)}] \in M
        PROVE  g[x] = step[<<Max(x), g[x \ {Max(x)}]>>]
    <3>1. Max(x) \in 1..n
      BY <1>1, <2>1, MaxIsLast
    <3> QED BY <1>5, <1>8, <2>1, <3>1
  <2>2. g[{}] = none
    BY <1>8
  <2>3. Iterates(M, none, step, n, g)
    BY <2>1, <2>2 DEF Iterates
  <2> QED BY <1>1, <1>2, <1>5, <2>2, <2>3, FoldRuns
<1> DEFINE h == [k \in 0..n |-> g[1..k]]
<1>11. h \in [0..n -> M] /\ h[0] = none /\ h[n] = Joined(lists)
  <2>1. 1..0 = {} /\ 0 \in 0..n /\ n \in 0..n
    BY <1>1
  <2> QED BY <1>9, <1>10, <2>1 DEF RunsAlong
<1>12. ASSUME NEW k \in 1..n PROVE h[k] = h[k - 1] \o lists[k]
  <2>1. k - 1 \in 0..n /\ k \in 0..n
    BY <1>1
  <2>2. g[1..(k - 1)] \in M /\ g[1..k] = step[<<k, g[1..(k - 1)]>>]
    BY <1>10, <2>1 DEF RunsAlong
  <2> QED BY <1>4, <1>5, <2>1, <2>2
<1> HIDE DEF h
<1> QED BY <1>2, <1>11, <1>12 DEF Joins, n, M

\* What is in one list or the other is in both together.
LEMMA SetOfBoth ==
  ASSUME NEW E, NEW a \in Seq(E), NEW b \in Seq(E)
  PROVE  a \o b \in Seq(E) /\ ToSet(a \o b) = ToSet(a) \cup ToSet(b)
<1> DEFINE c == a \o b
           m == Len(a)
           n == Len(b)
<1>1. /\ m \in Nat /\ n \in Nat /\ c \in Seq(E) /\ Len(c) = m + n
      /\ DOMAIN a = 1..m /\ DOMAIN b = 1..n /\ DOMAIN c = 1..(m + n)
      /\ \A i \in 1..m : c[i] = a[i]
      /\ \A i \in (m + 1)..(m + n) : c[i] = b[i - m]
  OBVIOUS
<1> HIDE DEF c, m, n
<1>2. ASSUME NEW i \in 1..m PROVE i \in 1..(m + n) /\ c[i] = a[i]
  BY <1>1
<1>3. ASSUME NEW i \in 1..n PROVE i + m \in 1..(m + n) /\ c[i + m] = b[i]
  <2>1. i + m \in (m + 1)..(m + n) /\ (i + m) - m = i /\ i + m \in 1..(m + n)
    BY <1>1
  <2> QED BY <1>1, <2>1
<1>4. ASSUME NEW i \in 1..(m + n), i \notin 1..m PROVE i - m \in 1..n /\ c[i] = b[i - m]
  <2>1. i \in (m + 1)..(m + n) /\ i - m \in 1..n
    BY <1>1, <1>4
  <2> QED BY <1>1, <2>1
<1>5. ToSet(c) = ToSet(a) \cup ToSet(b)
  <2>1. /\ ToSet(c) = {c[i] : i \in 1..(m + n)}
        /\ ToSet(a) = {a[i] : i \in 1..m} /\ ToSet(b) = {b[i] : i \in 1..n}
    BY <1>1 DEF ToSet
  <2>2. ToSet(a) \subseteq ToSet(c)
    BY <1>2, <2>1
  <2>3. ToSet(b) \subseteq ToSet(c)
    BY <1>3, <2>1
  <2>4. ToSet(c) \subseteq ToSet(a) \cup ToSet(b)
    BY <1>2, <1>4, <2>1
  <2> QED BY <2>2, <2>3, <2>4
<1> QED BY <1>1, <1>5 DEF c

\* What is in one of many lists is in all of them joined.
LEMMA SetOfJoined ==
  ASSUME NEW E, NEW lists \in Seq(Seq(E))
  PROVE  /\ Joined(lists) \in Seq(E)
         /\ ToSet(Joined(lists)) = UNION {ToSet(lists[i]) : i \in 1..Len(lists)}
<1>1. PICK h : Joins(E, lists, h) /\ Joined(lists) = h[Len(lists)]
  BY JoinRuns
<1> DEFINE n == Len(lists)
           S == {k \in 0..n : ToSet(h[k]) = UNION {ToSet(lists[i]) : i \in 1..k}}
<1>2. /\ n \in Nat /\ h \in [0..n -> Seq(E)] /\ h[0] = <<>>
      /\ \A k \in 1..n : h[k] = h[k - 1] \o lists[k]
      /\ \A k \in 1..n : lists[k] \in Seq(E)
  <2>1. n \in Nat /\ \A k \in 1..n : lists[k] \in Seq(E)
    OBVIOUS
  <2> QED BY <1>1, <2>1 DEF Joins
<1> HIDE DEF n
<1>3. 0 \in S
  <2>1. ToSet(<<>>) = {} /\ 1..0 = {}
    BY DEF ToSet
  <2> QED BY <1>2, <2>1
<1>4. ASSUME NEW k \in 0..n, k \in S, k < n PROVE k + 1 \in S
  <2>1. k + 1 \in 1..n /\ k + 1 \in 0..n /\ (k + 1) - 1 = k /\ 1..(k + 1) = (1..k) \cup {k + 1}
    <3> HIDE DEF S
    <3>1. k + 1 \in 1..n /\ k + 1 \in 0..n /\ (k + 1) - 1 = k /\ k \in Nat
      BY <1>2, <1>4
    <3>2. 1..(k + 1) = (1..k) \cup {k + 1}
      BY <3>1
    <3> QED BY <3>1, <3>2
  <2>2. h[k + 1] = h[k] \o lists[k + 1] /\ h[k] \in Seq(E) /\ lists[k + 1] \in Seq(E)
    BY <1>2, <2>1
  <2>3. ToSet(h[k + 1]) = ToSet(h[k]) \cup ToSet(lists[k + 1])
    BY <2>2, SetOfBoth
  <2>4. UNION {ToSet(lists[i]) : i \in 1..(k + 1)}
          = (UNION {ToSet(lists[i]) : i \in 1..k}) \cup ToSet(lists[k + 1])
    BY <2>1
  <2> QED BY <1>4, <2>1, <2>3, <2>4
<1>5. n \in S
  <2>1. 0..n \subseteq S
    <3> HIDE DEF S
    <3> QED BY <1>2, <1>3, <1>4, CountUp
  <2> HIDE DEF S
  <2> QED BY <1>2, <2>1
<1>6. h[n] \in Seq(E)
  BY <1>2
<1> QED BY <1>1, <1>5, <1>6 DEF n

Kinds == {"start", "usage", "tool", "end"}
Ev == [id : Kinds \X Nat \X Nat, time : Nat, tokens : Nat]

TokensIn(type, events) ==
  [i \in DOMAIN events |-> IF events[i].id[1] = type THEN events[i].tokens ELSE 0]

\* The tokens of the events of one type, event by event.
LEMMA TokensInTypes ==
  ASSUME NEW type, NEW a \in Seq(Ev)
  PROVE  TokensIn(type, a) \in Seq(Nat) /\ Len(TokensIn(type, a)) = Len(a)
<1>1. DOMAIN a = 1..Len(a) /\ Len(a) \in Nat /\ \A i \in 1..Len(a) : a[i] \in Ev
  OBVIOUS
<1>2. \A i \in 1..Len(a) : (IF a[i].id[1] = type THEN a[i].tokens ELSE 0) \in Nat
  BY <1>1 DEF Ev
<1> QED BY <1>1, <1>2 DEF TokensIn

\* The tokens of two lists of events add up.
LEMMA TokensOfBoth ==
  ASSUME NEW type, NEW a \in Seq(Ev), NEW b \in Seq(Ev)
  PROVE  /\ TokensOf(type, a) \in Nat
         /\ TokensOf(type, a \o b) = TokensOf(type, a) + TokensOf(type, b)
<1>1. \A s : TokensOf(type, s) = SumOf(TokensIn(type, s))
  BY DEF TokensOf, TokensIn
<1> DEFINE c == a \o b
           x == TokensIn(type, a)
           y == TokensIn(type, b)
           z == TokensIn(type, c)
           m == Len(a)
           n == Len(b)
<1>2. /\ m \in Nat /\ n \in Nat /\ c \in Seq(Ev) /\ Len(c) = m + n
      /\ DOMAIN a = 1..m /\ DOMAIN b = 1..n /\ DOMAIN c = 1..(m + n)
      /\ \A i \in 1..m : c[i] = a[i]
      /\ \A i \in (m + 1)..(m + n) : c[i] = b[i - m]
  OBVIOUS
<1> HIDE DEF c, m, n
<1>3. x \in Seq(Nat) /\ Len(x) = m /\ y \in Seq(Nat) /\ Len(y) = n /\ z \in Seq(Nat) /\ Len(z) = m + n
  BY <1>2, TokensInTypes DEF m, n
<1>4. \A i \in 1..m : z[i] = x[i]
  <2>1. ASSUME NEW i \in 1..m PROVE z[i] = x[i]
    <3>1. i \in 1..(m + n) /\ c[i] = a[i]
      BY <1>2
    <3> QED BY <1>2, <3>1 DEF TokensIn
  <2> QED BY <2>1
<1>5. \A i \in (m + 1)..(m + n) : z[i] = y[i - m]
  <2>1. ASSUME NEW i \in (m + 1)..(m + n) PROVE z[i] = y[i - m]
    <3>1. i \in 1..(m + n) /\ i - m \in 1..n /\ c[i] = b[i - m]
      BY <1>2
    <3> QED BY <1>2, <3>1 DEF TokensIn
  <2> QED BY <2>1
<1> HIDE DEF x, y, z
<1>6. z = x \o y
  <2> DEFINE w == x \o y
  <2>1. /\ w \in Seq(Nat) /\ Len(w) = m + n
        /\ \A i \in 1..m : w[i] = x[i]
        /\ \A i \in (m + 1)..(m + n) : w[i] = y[i - m]
    <3>1. ASSUME NEW u \in Seq(Nat), NEW v \in Seq(Nat)
          PROVE  /\ u \o v \in Seq(Nat) /\ Len(u \o v) = Len(u) + Len(v)
                 /\ \A i \in 1..Len(u) : (u \o v)[i] = u[i]
                 /\ \A i \in (Len(u) + 1)..(Len(u) + Len(v)) : (u \o v)[i] = v[i - Len(u)]
      OBVIOUS
    <3> QED BY <1>3, <3>1
  <2> HIDE DEF w
  <2>2. \A i \in 1..(m + n) : i \in 1..m \/ i \in (m + 1)..(m + n)
    BY <1>2
  <2>3. \A i \in 1..(m + n) : z[i] = w[i]
    BY <1>4, <1>5, <2>1, <2>2
  <2>4. z = w
    BY <1>2, <1>3, <2>1, <2>3
  <2> QED BY <2>4 DEF w
<1>7. SumOf(z) = SumOf(x) + SumOf(y)
  BY <1>3, <1>6, SumOfBoth
<1>8. SumOf(x) \in Nat
  <2>1. PICK f : Adds(x, f)
    BY <1>3, SumRuns
  <2> QED BY <1>3, <2>1, SumIs
<1> QED BY <1>1, <1>7, <1>8 DEF c, x, y, z

\* So do those of many lists.
LEMMA TokensOfJoined ==
  ASSUME NEW type, NEW lists \in Seq(Seq(Ev))
  PROVE  TokensOf(type, Joined(lists)) = SumOf([i \in 1..Len(lists) |-> TokensOf(type, lists[i])])
<1>1. PICK h : Joins(Ev, lists, h) /\ Joined(lists) = h[Len(lists)]
  BY JoinRuns
<1> DEFINE n == Len(lists)
           t == [i \in 1..n |-> TokensOf(type, lists[i])]
           f == [k \in 0..n |-> TokensOf(type, h[k])]
<1>2. /\ n \in Nat /\ h \in [0..n -> Seq(Ev)] /\ h[0] = <<>>
      /\ \A k \in 1..n : h[k] = h[k - 1] \o lists[k]
      /\ \A k \in 1..n : lists[k] \in Seq(Ev)
  <2>1. n \in Nat /\ \A k \in 1..n : lists[k] \in Seq(Ev)
    OBVIOUS
  <2> QED BY <1>1, <2>1 DEF Joins
<1> HIDE DEF n
<1>3. t \in Seq(Nat) /\ Len(t) = n
  <2>1. \A i \in 1..n : TokensOf(type, lists[i]) \in Nat
    BY <1>2, TokensOfBoth
  <2> QED BY <1>2, <2>1
<1>4. TokensOf(type, <<>>) = 0
  <2>1. TokensIn(type, <<>>) = <<>> /\ <<>> \in Seq(Nat) /\ Len(<<>>) = 0
    BY DEF TokensIn
  <2>2. SumOf(<<>>) = 0
    <3>1. \A i \in 1..Len(<<>>) : <<>>[i] = 0
      OBVIOUS
    <3> DEFINE none == <<>>
    <3>2. none \in Seq(Nat) /\ \A i \in 1..Len(none) : none[i] = 0
      BY <3>1
    <3> HIDE DEF none
    <3>3. SumOf(none) = 0
      BY <3>2, SumOfNone
    <3> QED BY <3>3 DEF none
  <2>3. TokensOf(type, <<>>) = SumOf(TokensIn(type, <<>>))
    BY DEF TokensOf, TokensIn
  <2> QED BY <2>1, <2>2, <2>3
<1>5. f \in [0..n -> Nat] /\ f[0] = 0
  <2>1. \A k \in 0..n : TokensOf(type, h[k]) \in Nat
    BY <1>2, TokensOfBoth
  <2>2. 0 \in 0..n
    BY <1>2
  <2> QED BY <1>2, <1>4, <2>1, <2>2
<1>6. ASSUME NEW k \in 1..n PROVE f[k] = f[k - 1] + t[k]
  <2>1. k \in 0..n /\ k - 1 \in 0..n
    BY <1>2
  <2>2. h[k] = h[k - 1] \o lists[k] /\ h[k - 1] \in Seq(Ev) /\ lists[k] \in Seq(Ev)
    BY <1>2, <2>1
  <2>3. TokensOf(type, h[k]) = TokensOf(type, h[k - 1]) + TokensOf(type, lists[k])
    BY <2>2, TokensOfBoth
  <2> QED BY <2>1, <2>3
<1>7. f[n] = TokensOf(type, Joined(lists))
  BY <1>1, <1>2 DEF n
<1> HIDE DEF f
<1>8. SumOf(t) = f[n]
  <2> HIDE DEF t
  <2>1. Adds(t, f)
    BY <1>3, <1>5, <1>6 DEF Adds
  <2> QED BY <1>3, <2>1, SumIs
<1> QED BY <1>7, <1>8 DEF n

Passes(time, period) == time > 0 /\ time \in period

IsEvent(e, type, i, j, time, tokens) ==
  e \in Ev /\ e.id = <<type, i, j>> /\ e.id[1] = type /\ e.time = time /\ e.tokens = tokens

\* An event has what it was made of.
LEMMA EventTypes ==
  ASSUME NEW type \in Kinds, NEW i \in Nat, NEW j \in Nat, NEW time \in Nat, NEW tokens \in Nat
  PROVE  IsEvent(Event(type, i, j, time, tokens), type, i, j, time, tokens)
<1>1. <<type, i, j>> \in Kinds \X Nat \X Nat /\ <<type, i, j>>[1] = type
  OBVIOUS
<1> QED BY <1>1 DEF Event, Ev, IsEvent

Selects(events, time, period, e) ==
  /\ events \in Seq(Ev)
  /\ ToSet(events) = {x \in {e} : Passes(time, period)}
  /\ \A type : TokensOf(type, events) =
                 IF Passes(time, period) /\ e.id[1] = type THEN e.tokens ELSE 0

\* An event goes into the report when its time is in the period.
LEMMA AtSelects ==
  ASSUME NEW period, NEW time \in Nat, NEW e \in Ev
  PROVE  Selects(At(time, period, e), time, period, e)
<1>1. <<>> \in Seq(Ev) /\ <<e>> \in Seq(Ev) /\ ToSet(<<>>) = {} /\ ToSet(<<e>>) = {e}
  BY DEF ToSet
<1>2. e.tokens \in Nat
  BY DEF Ev
<1>3. ASSUME NEW type PROVE TokensOf(type, <<>>) = 0
  <2> DEFINE none == [i \in DOMAIN <<>> |-> IF <<>>[i].id[1] = type THEN <<>>[i].tokens ELSE 0]
  <2>1. none \in Seq(Nat) /\ \A i \in 1..Len(none) : none[i] = 0
    <3>1. none = <<>>
      OBVIOUS
    <3> HIDE DEF none
    <3> QED BY <3>1
  <2>2. TokensOf(type, <<>>) = SumOf(none)
    BY DEF TokensOf
  <2> HIDE DEF none
  <2> QED BY <2>1, <2>2, SumOfNone
<1>4. ASSUME NEW type PROVE TokensOf(type, <<e>>) = IF e.id[1] = type THEN e.tokens ELSE 0
  <2> DEFINE x == IF e.id[1] = type THEN e.tokens ELSE 0
             s == <<e>>
  <2>1. DOMAIN s = {1} /\ s[1] = e
    OBVIOUS
  <2>2. [i \in DOMAIN s |-> IF s[i].id[1] = type THEN s[i].tokens ELSE 0] = [i \in {1} |-> x]
    BY <2>1
  <2>3. [i \in {1} |-> x] = <<x>>
    OBVIOUS
  <2>4. TokensOf(type, s) = SumOf(<<x>>)
    BY <2>2, <2>3 DEF TokensOf
  <2>5. x \in Nat
    BY <1>2
  <2> HIDE DEF x
  <2>6. SumOf(<<x>>) = x
    BY <2>5, SumOfOne
  <2> QED BY <2>4, <2>6 DEF x
<1>5. At(time, period, e) = IF Passes(time, period) THEN <<e>> ELSE <<>>
  BY DEF At, Passes
<1>6. CASE Passes(time, period)
  BY <1>1, <1>4, <1>5, <1>6 DEF Selects
<1>7. CASE ~Passes(time, period)
  BY <1>1, <1>3, <1>5, <1>7 DEF Selects
<1> QED BY <1>6, <1>7

Tools(usages, period, i) ==
  [j \in DOMAIN usages[i].tools |->
     At(usages[i].start, period, Event("tool", i, j, usages[i].start, 0))]
OfTurn(usages, period, i) ==
  At(usages[i].start, period, Event("usage", i, 0, usages[i].start, Amount(usages[i])))
    \o Joined(Tools(usages, period, i))

\* The events of a turn that bear its start.
EventsOfTurn(usages, i) ==
  {Event("usage", i, 0, usages[i].start, Amount(usages[i]))}
    \cup {Event("tool", i, j, usages[i].start, 0) : j \in 1..Len(usages[i].tools)}

\* The fields of a usage.
LEMMA UsageTypes ==
  ASSUME NEW u \in Usage
  PROVE  /\ u.input \in Nat /\ u.output \in Nat /\ u.cacheRead \in Nat /\ u.cacheWrite \in Nat
         /\ Amount(u) \in Nat /\ u.start \in Nat
         /\ u.tools \in Seq(STRING) /\ Len(u.tools) \in Nat /\ DOMAIN u.tools = 1..Len(u.tools)
<1>1. /\ u.input \in Nat /\ u.output \in Nat /\ u.cacheRead \in Nat /\ u.cacheWrite \in Nat
      /\ u.start \in Nat /\ u.tools \in Seq(STRING)
  BY DEF Usage
<1>2. Amount(u) \in Nat
  <2>1. ASSUME NEW a \in Nat, NEW b \in Nat, NEW c \in Nat, NEW d \in Nat
        PROVE  a + b + c + d \in Nat
    OBVIOUS
  <2> QED BY <1>1, <2>1 DEF Amount
<1>3. Len(u.tools) \in Nat /\ DOMAIN u.tools = 1..Len(u.tools)
  BY <1>1
<1> QED BY <1>1, <1>2, <1>3

\* The tools of a turn in the period, and no tokens for them.
LEMMA ToolEvents ==
  ASSUME NEW usages \in Seq(Usage), NEW period, NEW i \in 1..Len(usages)
  PROVE  /\ Joined(Tools(usages, period, i)) \in Seq(Ev)
         /\ ToSet(Joined(Tools(usages, period, i)))
              = {e \in {Event("tool", i, j, usages[i].start, 0) : j \in 1..Len(usages[i].tools)} :
                   Passes(e.time, period)}
         /\ \A type : TokensOf(type, Joined(Tools(usages, period, i))) = 0
<1> DEFINE lists == Tools(usages, period, i)
           n     == Len(usages[i].tools)
           start == usages[i].start
           E(j)  == Event("tool", i, j, start, 0)
<1>1. i \in Nat /\ start \in Nat /\ n \in Nat /\ DOMAIN usages[i].tools = 1..n
  <2>1. usages[i] \in Usage /\ i \in Nat
    OBVIOUS
  <2> QED BY <2>1, UsageTypes
<1>2. ASSUME NEW j \in 1..n
      PROVE  E(j) \in Ev /\ E(j).time = start /\ E(j).tokens = 0
  <2>1. j \in Nat /\ "tool" \in Kinds
    BY <1>1 DEF Kinds
  <2> HIDE DEF n, start
  <2>2. IsEvent(E(j), "tool", i, j, start, 0)
    BY <1>1, <2>1, EventTypes
  <2> HIDE DEF E
  <2> QED BY <2>2 DEF IsEvent
<1>3. lists = [j \in 1..n |-> At(start, period, E(j))]
  BY <1>1 DEF Tools
<1> HIDE DEF lists, n, start, E
<1>4. ASSUME NEW j \in 1..n
      PROVE  /\ lists[j] \in Seq(Ev)
             /\ ToSet(lists[j]) = {x \in {E(j)} : Passes(start, period)}
             /\ \A type : TokensOf(type, lists[j]) = 0
  <2>1. lists[j] = At(start, period, E(j))
    BY <1>3
  <2>2. Selects(At(start, period, E(j)), start, period, E(j))
    BY <1>1, <1>2, AtSelects
  <2> QED BY <1>2, <2>1, <2>2 DEF Selects
<1>5. lists \in Seq(Seq(Ev)) /\ Len(lists) = n
  <2>1. DOMAIN lists = 1..n /\ \A j \in 1..n : lists[j] \in Seq(Ev)
    BY <1>3, <1>4
  <2>2. lists = [j \in 1..n |-> lists[j]]
    BY <1>3, <2>1
  <2>3. lists \in [1..n -> Seq(Ev)]
    BY <2>1, <2>2
  <2> QED BY <1>1, <2>3
<1>6. Joined(lists) \in Seq(Ev) /\ ToSet(Joined(lists)) = UNION {ToSet(lists[j]) : j \in 1..n}
  BY <1>5, SetOfJoined
<1>7. ToSet(Joined(lists)) = {e \in {E(j) : j \in 1..n} : Passes(e.time, period)}
  <2>1. ASSUME NEW j \in 1..n
        PROVE  ToSet(lists[j]) = {e \in {E(j)} : Passes(e.time, period)}
    BY <1>2, <1>4
  <2> QED BY <1>6, <2>1
<1>8. ASSUME NEW type PROVE TokensOf(type, Joined(lists)) = 0
  <2> DEFINE t == [j \in 1..Len(lists) |-> TokensOf(type, lists[j])]
  <2>1. t \in Seq(Nat) /\ Len(t) = n /\ \A j \in 1..n : t[j] = 0
    BY <1>1, <1>4, <1>5
  <2>2. TokensOf(type, Joined(lists)) = SumOf(t)
    BY <1>5, TokensOfJoined
  <2> HIDE DEF t
  <2> QED BY <2>1, <2>2, SumOfNone
<1> QED BY <1>6, <1>7, <1>8 DEF lists, n, start, E

\* A turn with a time in the period has its events in the report, one without has none.
LEMMA OneTurn ==
  ASSUME NEW usages \in Seq(Usage), NEW period, NEW i \in 1..Len(usages)
  PROVE  /\ OfTurn(usages, period, i) \in Seq(Ev)
         /\ ToSet(OfTurn(usages, period, i))
              = {e \in EventsOfTurn(usages, i) : Passes(e.time, period)}
         /\ \A type : TokensOf(type, OfTurn(usages, period, i))
              = IF Passes(usages[i].start, period) /\ type = "usage" THEN Amount(usages[i]) ELSE 0
<1> DEFINE start == usages[i].start
           amount == Amount(usages[i])
           u == Event("usage", i, 0, start, amount)
           a == At(start, period, u)
           b == Joined(Tools(usages, period, i))
           T == {Event("tool", i, j, usages[i].start, 0) : j \in 1..Len(usages[i].tools)}
<1>1. i \in Nat /\ start \in Nat /\ amount \in Nat
  <2>1. usages[i] \in Usage /\ i \in Nat
    OBVIOUS
  <2> QED BY <2>1, UsageTypes
<1>2. b \in Seq(Ev) /\ ToSet(b) = {e \in T : Passes(e.time, period)} /\ \A type : TokensOf(type, b) = 0
  BY ToolEvents
<1>3. OfTurn(usages, period, i) = a \o b /\ EventsOfTurn(usages, i) = {u} \cup T
  BY DEF OfTurn, EventsOfTurn
<1> HIDE DEF b, T, start, amount
<1>4. u \in Ev /\ u.id[1] = "usage" /\ u.time = start /\ u.tokens = amount
  <2>1. "usage" \in Kinds
    BY DEF Kinds
  <2>2. IsEvent(u, "usage", i, 0, start, amount)
    BY <1>1, <2>1, EventTypes
  <2> HIDE DEF u
  <2> QED BY <2>2 DEF IsEvent
<1> HIDE DEF u
<1>5. /\ a \in Seq(Ev) /\ ToSet(a) = {x \in {u} : Passes(start, period)}
      /\ \A type : TokensOf(type, a) =
                     IF Passes(start, period) /\ u.id[1] = type THEN u.tokens ELSE 0
  <2>1. Selects(a, start, period, u)
    BY <1>1, <1>4, AtSelects
  <2> QED BY <2>1 DEF Selects
<1> HIDE DEF a
<1>6. a \o b \in Seq(Ev) /\ ToSet(a \o b) = ToSet(a) \cup ToSet(b)
  BY <1>2, <1>5, SetOfBoth
<1>7. ASSUME NEW type
      PROVE  TokensOf(type, a \o b) = IF Passes(start, period) /\ type = "usage" THEN amount ELSE 0
  <2>1. TokensOf(type, a \o b) = TokensOf(type, a) + TokensOf(type, b)
    BY <1>2, <1>5, TokensOfBoth
  <2>2. TokensOf(type, a) = IF Passes(start, period) /\ type = "usage" THEN amount ELSE 0
    BY <1>4, <1>5
  <2>3. TokensOf(type, b) = 0
    BY <1>2
  <2> QED BY <1>1, <2>1, <2>2, <2>3
<1>8. ToSet(a \o b) = {e \in {u} \cup T : Passes(e.time, period)}
  BY <1>2, <1>4, <1>5, <1>6
<1> QED BY <1>3, <1>6, <1>7, <1>8 DEF start, amount

\* The turns in the period: their events and their tokens.
LEMMA AllTurns ==
  ASSUME NEW usages \in Seq(Usage), NEW period
  PROVE  /\ TurnEvents(usages, period) \in Seq(Ev)
         /\ ToSet(TurnEvents(usages, period))
              = {e \in UNION {EventsOfTurn(usages, i) : i \in 1..Len(usages)} : Passes(e.time, period)}
         /\ \A type : TokensOf(type, TurnEvents(usages, period)) =
              SumOf([i \in 1..Len(usages) |->
                IF Passes(usages[i].start, period) /\ type = "usage" THEN Amount(usages[i]) ELSE 0])
<1> DEFINE n == Len(usages)
           lists == [i \in 1..n |-> OfTurn(usages, period, i)]
<1>1. n \in Nat /\ DOMAIN usages = 1..n
  OBVIOUS
<1>2. TurnEvents(usages, period) = Joined(lists)
  BY <1>1 DEF TurnEvents, OfTurn, Tools
<1>3. ASSUME NEW i \in 1..n
      PROVE  /\ lists[i] = OfTurn(usages, period, i) /\ lists[i] \in Seq(Ev)
             /\ ToSet(lists[i]) = {e \in EventsOfTurn(usages, i) : Passes(e.time, period)}
  BY OneTurn
<1>4. lists \in Seq(Seq(Ev)) /\ Len(lists) = n
  <2>1. \A i \in 1..n : OfTurn(usages, period, i) \in Seq(Ev)
    BY OneTurn
  <2> QED BY <1>1, <2>1
<1> HIDE DEF lists
<1>5. Joined(lists) \in Seq(Ev) /\ ToSet(Joined(lists)) = UNION {ToSet(lists[i]) : i \in 1..n}
  BY <1>4, SetOfJoined
<1>6. UNION {ToSet(lists[i]) : i \in 1..n}
        = {e \in UNION {EventsOfTurn(usages, i) : i \in 1..n} : Passes(e.time, period)}
  BY <1>3
<1>7. ASSUME NEW type
      PROVE  TokensOf(type, Joined(lists)) =
               SumOf([i \in 1..n |->
                 IF Passes(usages[i].start, period) /\ type = "usage" THEN Amount(usages[i]) ELSE 0])
  <2> DEFINE s == [i \in 1..n |-> TokensOf(type, lists[i])]
             t == [i \in 1..n |->
                 IF Passes(usages[i].start, period) /\ type = "usage" THEN Amount(usages[i]) ELSE 0]
  <2>1. TokensOf(type, Joined(lists)) = SumOf(s)
    BY <1>4, TokensOfJoined
  <2>2. \A i \in 1..n : TokensOf(type, lists[i])
          = IF Passes(usages[i].start, period) /\ type = "usage" THEN Amount(usages[i]) ELSE 0
    BY <1>3, OneTurn
  <2>3. s = t
    BY <2>2
  <2> QED BY <2>1, <2>3
<1> QED BY <1>2, <1>5, <1>6, <1>7

-----------------------------------------------------------------------------
(* The events of a snapshot.                                               *)

UsagesOf(snap, per) == estimateUsages(snap.turns, snap.summary, per)
BoundsOf(snap)  == conversationBounds([i \in DOMAIN snap.turns |-> snap.turns[i].start], 0)
CreatedOf(snap) == IF snap.created # 0 THEN snap.created ELSE BoundsOf(snap).first
UpdatedOf(snap) == IF snap.updated # 0 THEN snap.updated ELSE BoundsOf(snap).last
TotalOf(snap, per) == IF UsagesOf(snap, per) = <<>> THEN 0 ELSE Aggregate(UsagesOf(snap, per))

\* The snapshot has turns, none of them with a time.
Untimed(snap, per) == UsagesOf(snap, per) # <<>> /\ ~hasTimedUsage(UsagesOf(snap, per))

StartEvent(snap)    == Event("start", 0, 0, CreatedOf(snap), 0)
WholeEvent(snap, per) == Event("usage", 0, 0, UpdatedOf(snap), TotalOf(snap, per))
EndEvent(snap, per) == Event("end", 0, 0, UpdatedOf(snap), TotalOf(snap, per))

\* What a snapshot says, in whatever period.
Says(snap, per) ==
  {StartEvent(snap)}
    \cup (UNION {EventsOfTurn(UsagesOf(snap, per), i) : i \in 1..Len(UsagesOf(snap, per))})
    \cup {e \in {WholeEvent(snap, per)} : Untimed(snap, per)}
    \cup {EndEvent(snap, per)}

\* Numbers have a bound.
LEMMA Bounded ==
  ASSUME NEW s \in Seq(Nat)
  PROVE  \E t \in Nat : \A i \in 1..Len(s) : s[i] <= t
<1> DEFINE n == Len(s)
           S == {k \in 0..n : \E t \in Nat : \A i \in 1..k : s[i] <= t}
<1>1. n \in Nat /\ \A i \in 1..n : s[i] \in Nat
  OBVIOUS
<1> HIDE DEF n
<1>2. 0 \in S
  BY <1>1
<1>3. ASSUME NEW k \in 0..n, k \in S, k < n PROVE k + 1 \in S
  <2>1. PICK t \in Nat : \A i \in 1..k : s[i] <= t
    BY <1>3
  <2>2. k + 1 \in 1..n /\ k + 1 \in 0..n /\ k \in Nat
    <3> HIDE DEF S
    <3> QED BY <1>1, <1>3
  <2>3. s[k + 1] \in Nat /\ t + s[k + 1] \in Nat
    BY <1>1, <2>2
  <2>4. \A i \in 1..(k + 1) : s[i] <= t + s[k + 1]
    <3>1. ASSUME NEW i \in 1..(k + 1) PROVE s[i] <= t + s[k + 1]
      <4>1. CASE i = k + 1
        BY <2>3, <4>1
      <4>2. CASE i # k + 1
        <5> HIDE DEF S
        <5>1. k \in Nat /\ i \in 1..(k + 1) /\ k + 1 <= n
          BY <1>1, <2>2
        <5>2. i \in 1..k /\ i \in 1..n
          BY <1>1, <4>2, <5>1
        <5> QED BY <1>1, <2>1, <2>3, <5>2
      <4> QED BY <4>1, <4>2
    <3> QED BY <3>1
  <2> QED BY <2>2, <2>3, <2>4
<1>4. n \in S
  <2>1. 0..n \subseteq S
    <3> HIDE DEF S
    <3> QED BY <1>1, <1>2, <1>3, CountUp
  <2> HIDE DEF S
  <2> QED BY <1>1, <2>1
<1> QED BY <1>4 DEF n

\* The bounds of a conversation are times.
LEMMA BoundsTypes ==
  ASSUME NEW starts \in Seq(Nat), NEW otherwise \in Nat
  PROVE  /\ conversationBounds(starts, otherwise).first \in Nat
         /\ conversationBounds(starts, otherwise).last \in Nat
<1> DEFINE known == {starts[i] : i \in DOMAIN starts} \ {0}
<1>1. PICK t \in Nat : \A i \in 1..Len(starts) : starts[i] <= t
  BY Bounded
<1>2. known \in SUBSET (1..t)
  <2>1. DOMAIN starts = 1..Len(starts) /\ \A i \in 1..Len(starts) : starts[i] \in Nat
    OBVIOUS
  <2> QED BY <1>1, <2>1
<1>3. CASE known = {}
  BY <1>3 DEF conversationBounds
<1>4. CASE known # {}
  <2>1. conversationBounds(starts, otherwise) = [first |-> Min(known), last |-> Max(known)]
    BY <1>4 DEF conversationBounds
  <2>2. Min(known) \in known /\ Max(known) \in known
    <3> HIDE DEF known
    <3> QED BY <1>2, <1>4, FirstAndLast
  <2>3. Min(known) \in Nat /\ Max(known) \in Nat
    <3>1. \A x \in 1..t : x \in Nat
      OBVIOUS
    <3> HIDE DEF known
    <3> QED BY <1>2, <2>2, <3>1
  <2> QED BY <2>1, <2>3
<1> QED BY <1>3, <1>4

\* The total of a session is the sum of its turns.
LEMMA AggregateIs ==
  ASSUME NEW usages \in Seq(Usage)
  PROVE  /\ Aggregate(usages) = SumOf([i \in 1..Len(usages) |-> Amount(usages[i])])
         /\ Aggregate(usages) \in Nat
<1> DEFINE n == Len(usages)
           a == [i \in 1..n |-> usages[i].input]
           b == [i \in 1..n |-> usages[i].output]
           c == [i \in 1..n |-> usages[i].cacheRead]
           d == [i \in 1..n |-> usages[i].cacheWrite]
           ab == [i \in 1..n |-> a[i] + b[i]]
           abc == [i \in 1..n |-> ab[i] + c[i]]
           abcd == [i \in 1..n |-> abc[i] + d[i]]
<1>1. n \in Nat /\ DOMAIN usages = 1..n
  OBVIOUS
<1>2. \A i \in 1..n : /\ usages[i].input \in Nat /\ usages[i].output \in Nat
                      /\ usages[i].cacheRead \in Nat /\ usages[i].cacheWrite \in Nat
  <2>1. \A i \in 1..n : usages[i] \in Usage
    OBVIOUS
  <2> QED BY <2>1, UsageTypes
<1>3. Aggregate(usages) = SumOf(a) + SumOf(b) + SumOf(c) + SumOf(d)
  BY <1>1 DEF Aggregate, Amount
<1> HIDE DEF n
<1>4. a \in [1..n -> Nat] /\ b \in [1..n -> Nat] /\ c \in [1..n -> Nat] /\ d \in [1..n -> Nat]
  BY <1>2
<1>5. abcd = [i \in 1..n |-> Amount(usages[i])]
  BY DEF Amount
<1> HIDE DEF a, b, c, d
<1>6. ab \in [1..n -> Nat]
  BY <1>4
<1>7. SumOf(ab) = SumOf(a) + SumOf(b)
  BY <1>1, <1>4, SumOfPairs
<1> HIDE DEF ab
<1>8. abc \in [1..n -> Nat]
  BY <1>4, <1>6
<1>9. SumOf(abc) = SumOf(ab) + SumOf(c)
  BY <1>1, <1>4, <1>6, SumOfPairs
<1> HIDE DEF abc
<1>10. abcd \in [1..n -> Nat]
  BY <1>4, <1>8
<1>11. SumOf(abcd) = SumOf(abc) + SumOf(d)
  BY <1>1, <1>4, <1>8, SumOfPairs
<1>12. SumOf(abcd) \in Nat
  <2> HIDE DEF abcd
  <2>1. abcd \in Seq(Nat)
    BY <1>1, <1>10
  <2>2. PICK f : Adds(abcd, f)
    BY <2>1, SumRuns
  <2> QED BY <2>1, <2>2, SumIs
<1>13. Aggregate(usages) = SumOf(abcd)
  BY <1>3, <1>7, <1>9, <1>11
<1> QED BY <1>5, <1>12, <1>13 DEF n

\* Types of what is made of a snapshot; its total is the sum over its turns.
LEMMA SnapTypes ==
  ASSUME NEW per \in Nat \ {0}, NEW snap \in Snap
  PROVE  /\ UsagesOf(snap, per) \in Seq(Usage) /\ Len(UsagesOf(snap, per)) = Len(snap.turns)
         /\ CreatedOf(snap) \in Nat /\ UpdatedOf(snap) \in Nat /\ TotalOf(snap, per) \in Nat
         /\ TotalOf(snap, per) =
              SumOf([i \in 1..Len(snap.turns) |-> Amount(UsagesOf(snap, per)[i])])
<1> DEFINE us == UsagesOf(snap, per)
           n  == Len(snap.turns)
           starts == [i \in DOMAIN snap.turns |-> snap.turns[i].start]
<1>1. /\ snap.turns \in Seq(Turn) /\ snap.summary \in Nat
      /\ snap.created \in Nat /\ snap.updated \in Nat
      /\ n \in Nat /\ DOMAIN snap.turns = 1..n /\ \A i \in 1..n : snap.turns[i] \in Turn
  BY DEF Snap
<1>2. us \in Seq(Usage) /\ Len(us) = n
  BY <1>1, UsagesAre DEF UsagesOf, Estimates
<1>3. starts \in Seq(Nat)
  <2>1. \A i \in 1..n : snap.turns[i].start \in Nat
    BY <1>1 DEF Turn
  <2> QED BY <1>1, <2>1
<1>4. BoundsOf(snap).first \in Nat /\ BoundsOf(snap).last \in Nat
  BY <1>3, BoundsTypes DEF BoundsOf
<1>5. CreatedOf(snap) \in Nat /\ UpdatedOf(snap) \in Nat
  BY <1>1, <1>4 DEF CreatedOf, UpdatedOf
<1> DEFINE amounts == [i \in 1..n |-> Amount(us[i])]
<1>6. TotalOf(snap, per) \in Nat /\ TotalOf(snap, per) = SumOf(amounts)
  <2>1. CASE us = <<>>
    <3>1. TotalOf(snap, per) = 0 /\ n = 0
      BY <1>2, <2>1 DEF TotalOf
    <3>2. amounts \in Seq(Nat) /\ \A i \in 1..Len(amounts) : amounts[i] = 0
      <4>1. 1..n = {}
        BY <3>1
      <4>2. amounts = <<>>
        BY <4>1
      <4> HIDE DEF amounts
      <4> QED BY <4>2
    <3> HIDE DEF amounts
    <3>3. SumOf(amounts) = 0
      BY <3>2, SumOfNone
    <3> QED BY <3>1, <3>3
  <2>2. CASE us # <<>>
    <3>1. TotalOf(snap, per) = Aggregate(us)
      BY <2>2 DEF TotalOf
    <3> HIDE DEF us
    <3>2. Aggregate(us) = SumOf(amounts) /\ Aggregate(us) \in Nat
      BY <1>2, AggregateIs
    <3> QED BY <3>1, <3>2
  <2> QED BY <2>1, <2>2
<1> QED BY <1>2, <1>5, <1>6

\* What parseSnapshot makes of a snapshot: what it says, of that the period.
Parsed(events, snap, per, period) ==
  /\ events \in Seq(Ev)
  /\ ToSet(events) = {e \in Says(snap, per) : Passes(e.time, period)}
  /\ TokensOf("usage", events) =
       SumOf([i \in 1..Len(snap.turns) |-> IF Passes(UsagesOf(snap, per)[i].start, period)
                                           THEN Amount(UsagesOf(snap, per)[i]) ELSE 0])
         + IF Untimed(snap, per) /\ Passes(UpdatedOf(snap), period) THEN TotalOf(snap, per) ELSE 0
  /\ TokensOf("end", events) = IF Passes(UpdatedOf(snap), period) THEN TotalOf(snap, per) ELSE 0

\* parseSnapshot says what Parsed says it does, for any snapshot and period.
LEMMA ParseSelects ==
  ASSUME NEW per \in Nat \ {0}, NEW snap \in Snap, NEW period
  PROVE  Parsed(parseSnapshot(snap, per, period), snap, per, period)
<1> DEFINE us      == UsagesOf(snap, per)
           created == CreatedOf(snap)
           updated == UpdatedOf(snap)
           total   == TotalOf(snap, per)
           x == StartEvent(snap)
           y == WholeEvent(snap, per)
           z == EndEvent(snap, per)
           a == At(created, period, x)
           b == TurnEvents(us, period)
           c == IF Untimed(snap, per) THEN At(updated, period, y) ELSE <<>>
           d == At(updated, period, z)
           T == UNION {EventsOfTurn(us, i) : i \in 1..Len(us)}
           amounts == [i \in 1..Len(us) |->
                         IF Passes(us[i].start, period) THEN Amount(us[i]) ELSE 0]
<1>1. parseSnapshot(snap, per, period) = ((a \o b) \o c) \o d
  BY DEF parseSnapshot, UsagesOf, CreatedOf, UpdatedOf, TotalOf, BoundsOf, Untimed,
         StartEvent, WholeEvent, EndEvent
<1>2. /\ us \in Seq(Usage) /\ Len(us) = Len(snap.turns)
      /\ created \in Nat /\ updated \in Nat /\ total \in Nat
  BY SnapTypes
<1>3. Says(snap, per) = {x} \cup T \cup {e \in {y} : Untimed(snap, per)} \cup {z}
  BY DEF Says
<1>4. /\ IsEvent(x, "start", 0, 0, created, 0)
      /\ IsEvent(y, "usage", 0, 0, updated, total)
      /\ IsEvent(z, "end", 0, 0, updated, total)
  <2>1. "start" \in Kinds /\ "usage" \in Kinds /\ "end" \in Kinds
    BY DEF Kinds
  <2> HIDE DEF created, updated, total
  <2> QED BY <1>2, <2>1, EventTypes DEF StartEvent, WholeEvent, EndEvent, created, updated, total
<1>5. /\ b \in Seq(Ev) /\ ToSet(b) = {e \in T : Passes(e.time, period)}
      /\ TokensOf("usage", b) = SumOf(amounts) /\ TokensOf("end", b) = 0
  <2>1. b \in Seq(Ev) /\ ToSet(b) = {e \in T : Passes(e.time, period)}
    BY <1>2, AllTurns
  <2>2. TokensOf("usage", b) = SumOf([i \in 1..Len(us) |->
          IF Passes(us[i].start, period) /\ "usage" = "usage" THEN Amount(us[i]) ELSE 0])
    BY <1>2, AllTurns
  <2>3. TokensOf("end", b) = SumOf([i \in 1..Len(us) |->
          IF Passes(us[i].start, period) /\ "end" = "usage" THEN Amount(us[i]) ELSE 0])
    BY <1>2, AllTurns
  <2>4. SumOf([i \in 1..Len(us) |->
          IF Passes(us[i].start, period) /\ "end" = "usage" THEN Amount(us[i]) ELSE 0]) = 0
    <3> DEFINE t == [i \in 1..Len(us) |->
          IF Passes(us[i].start, period) /\ "end" = "usage" THEN Amount(us[i]) ELSE 0]
    <3>1. t = [i \in 1..Len(us) |-> 0]
      OBVIOUS
    <3>2. t \in Seq(Nat) /\ \A i \in 1..Len(t) : t[i] = 0
      <4>1. Len(us) \in Nat
        BY <1>2
      <4> HIDE DEF t
      <4> QED BY <3>1, <4>1
    <3> HIDE DEF t
    <3>3. SumOf(t) = 0
      BY <3>2, SumOfNone
    <3> QED BY <3>3 DEF t
  <2>5. [i \in 1..Len(us) |->
          IF Passes(us[i].start, period) /\ "usage" = "usage" THEN Amount(us[i]) ELSE 0] = amounts
    OBVIOUS
  <2> QED BY <2>1, <2>2, <2>3, <2>4, <2>5
<1> HIDE DEF us, created, updated, total, x, y, z, T, b
<1>6. /\ a \in Seq(Ev) /\ ToSet(a) = {e \in {x} : Passes(e.time, period)}
      /\ TokensOf("usage", a) = 0 /\ TokensOf("end", a) = 0
  <2>1. x \in Ev /\ x.id[1] = "start" /\ x.time = created
    BY <1>4 DEF IsEvent
  <2>2. Selects(a, created, period, x)
    BY <1>2, <2>1, AtSelects
  <2> QED BY <2>1, <2>2 DEF Selects
<1>7. /\ d \in Seq(Ev) /\ ToSet(d) = {e \in {z} : Passes(e.time, period)}
      /\ TokensOf("usage", d) = 0
      /\ TokensOf("end", d) = IF Passes(updated, period) THEN total ELSE 0
  <2>1. z \in Ev /\ z.id[1] = "end" /\ z.time = updated /\ z.tokens = total
    BY <1>4 DEF IsEvent
  <2>2. Selects(d, updated, period, z)
    BY <1>2, <2>1, AtSelects
  <2> QED BY <2>1, <2>2 DEF Selects
<1>8. /\ c \in Seq(Ev)
      /\ ToSet(c) = {e \in {f \in {y} : Untimed(snap, per)} : Passes(e.time, period)}
      /\ TokensOf("end", c) = 0
      /\ TokensOf("usage", c) =
           IF Untimed(snap, per) /\ Passes(updated, period) THEN total ELSE 0
  <2>1. y \in Ev /\ y.id[1] = "usage" /\ y.time = updated /\ y.tokens = total
    BY <1>4 DEF IsEvent
  <2>2. Selects(At(updated, period, y), updated, period, y)
    BY <1>2, <2>1, AtSelects
  <2>3. CASE Untimed(snap, per)
    BY <2>1, <2>2, <2>3 DEF Selects
  <2>4. CASE ~Untimed(snap, per)
    <3>1. c = <<>> /\ c \in Seq(Ev) /\ ToSet(c) = {}
      BY <2>4 DEF ToSet
    <3>2. ASSUME NEW type PROVE TokensOf(type, <<>>) = 0
      <4>1. At(0, period, y) = <<>> /\ 0 \in Nat /\ ~Passes(0, period)
        BY DEF At, Passes
      <4>2. Selects(At(0, period, y), 0, period, y)
        BY <2>1, AtSelects
      <4> QED BY <4>1, <4>2 DEF Selects
    <3> QED BY <2>4, <3>1, <3>2
  <2> QED BY <2>3, <2>4
<1> HIDE DEF a, c, d
<1>9. /\ a \o b \in Seq(Ev) /\ ToSet(a \o b) = ToSet(a) \cup ToSet(b)
      /\ TokensOf("usage", a \o b) = TokensOf("usage", b) /\ TokensOf("usage", b) \in Nat
      /\ TokensOf("end", a \o b) = 0
  <2>1. a \o b \in Seq(Ev) /\ ToSet(a \o b) = ToSet(a) \cup ToSet(b)
    BY <1>5, <1>6, SetOfBoth
  <2>2. \A type : TokensOf(type, a \o b) = TokensOf(type, a) + TokensOf(type, b)
    BY <1>5, <1>6, TokensOfBoth
  <2>3. TokensOf("usage", b) \in Nat
    BY <1>5, TokensOfBoth
  <2> QED BY <1>5, <1>6, <2>1, <2>2, <2>3
<1> DEFINE ab == a \o b
<1> HIDE DEF ab
<1>10. /\ ab \o c \in Seq(Ev) /\ ToSet(ab \o c) = ToSet(ab) \cup ToSet(c)
       /\ TokensOf("usage", ab \o c) = TokensOf("usage", b) + TokensOf("usage", c)
       /\ TokensOf("end", ab \o c) = 0
  <2>1. ab \in Seq(Ev) /\ TokensOf("usage", ab) = TokensOf("usage", b) /\ TokensOf("end", ab) = 0
    BY <1>9 DEF ab
  <2>2. ab \o c \in Seq(Ev) /\ ToSet(ab \o c) = ToSet(ab) \cup ToSet(c)
    BY <1>8, <2>1, SetOfBoth
  <2>3. \A type : TokensOf(type, ab \o c) = TokensOf(type, ab) + TokensOf(type, c)
    BY <1>8, <2>1, TokensOfBoth
  <2> QED BY <1>8, <2>1, <2>2, <2>3
<1> DEFINE abc == ab \o c
<1> HIDE DEF abc
<1>11. /\ abc \o d \in Seq(Ev) /\ ToSet(abc \o d) = ToSet(abc) \cup ToSet(d)
       /\ TokensOf("usage", abc \o d) = TokensOf("usage", b) + TokensOf("usage", c)
       /\ TokensOf("end", abc \o d) = TokensOf("end", d)
  <2>1. /\ abc \in Seq(Ev) /\ TokensOf("end", abc) = 0
        /\ TokensOf("usage", abc) = TokensOf("usage", b) + TokensOf("usage", c)
    BY <1>10 DEF abc
  <2>2. abc \o d \in Seq(Ev) /\ ToSet(abc \o d) = ToSet(abc) \cup ToSet(d)
    BY <1>7, <2>1, SetOfBoth
  <2>3. \A type : TokensOf(type, abc \o d) = TokensOf(type, abc) + TokensOf(type, d)
    BY <1>7, <2>1, TokensOfBoth
  <2>4. TokensOf("usage", b) \in Nat /\ TokensOf("usage", c) \in Nat /\ TokensOf("end", d) \in Nat
    BY <1>5, <1>7, <1>8, TokensOfBoth
  <2> QED BY <1>7, <2>1, <2>2, <2>3, <2>4
<1>12. ToSet(abc \o d) = {e \in Says(snap, per) : Passes(e.time, period)}
  <2>1. ToSet(abc \o d) = ToSet(a) \cup ToSet(b) \cup ToSet(c) \cup ToSet(d)
    BY <1>9, <1>10, <1>11 DEF ab, abc
  <2> QED BY <1>3, <1>5, <1>6, <1>7, <1>8, <2>1
<1>13. parseSnapshot(snap, per, period) = abc \o d
  BY <1>1 DEF ab, abc
<1>14. TokensOf("usage", abc \o d)
         = SumOf(amounts) + IF Untimed(snap, per) /\ Passes(updated, period) THEN total ELSE 0
  BY <1>5, <1>8, <1>11
<1>15. TokensOf("end", abc \o d) = IF Passes(updated, period) THEN total ELSE 0
  BY <1>7, <1>11
<1>16. amounts = [i \in 1..Len(snap.turns) |-> IF Passes(us[i].start, period)
                                               THEN Amount(us[i]) ELSE 0]
  BY <1>2
<1> HIDE DEF amounts
<1> QED BY <1>11, <1>12, <1>13, <1>14, <1>15, <1>16 DEF Parsed, us, updated, total

\* The five kinds of events.
Kind(e, snap, per) ==
  \/ IsEvent(e, "start", 0, 0, CreatedOf(snap), 0)
  \/ IsEvent(e, "end", 0, 0, UpdatedOf(snap), TotalOf(snap, per))
  \/ Untimed(snap, per) /\ IsEvent(e, "usage", 0, 0, UpdatedOf(snap), TotalOf(snap, per))
  \/ \E i \in 1..Len(snap.turns) :
       IsEvent(e, "usage", i, 0, snap.turns[i].start, Amount(UsagesOf(snap, per)[i]))
  \/ \E i \in 1..Len(snap.turns) : \E j \in 1..Len(snap.turns[i].tools) :
       IsEvent(e, "tool", i, j, snap.turns[i].start, 0)

\* A usage has the start and the tools of its turn.
LEMMA StartsAndTools ==
  ASSUME NEW per \in Nat \ {0}, NEW snap \in Snap, NEW i \in 1..Len(snap.turns)
  PROVE  /\ UsagesOf(snap, per)[i].start = snap.turns[i].start
         /\ UsagesOf(snap, per)[i].tools = snap.turns[i].tools
         /\ UsagesOf(snap, per)[i] \in Usage
<1>1. snap.turns \in Seq(Turn) /\ snap.summary \in Nat
  BY DEF Snap
<1>2. PICK f : Estimates(UsagesOf(snap, per), snap.turns, snap.summary, per, f)
  BY <1>1, UsagesAre DEF UsagesOf
<1>3. UsagesOf(snap, per)[i] = UsageOf(snap.turns, snap.summary, per, f, i)
  BY <1>2 DEF Estimates
<1>4. UsagesOf(snap, per)[i] \in Usage
  BY <1>2 DEF Estimates
<1> QED BY <1>3, <1>4 DEF UsageOf

\* There are no other events.
LEMMA SaysKinds ==
  ASSUME NEW per \in Nat \ {0}, NEW snap \in Snap, NEW e \in Says(snap, per)
  PROVE  Kind(e, snap, per)
<1> DEFINE us      == UsagesOf(snap, per)
           created == CreatedOf(snap)
           updated == UpdatedOf(snap)
           total   == TotalOf(snap, per)
           n       == Len(snap.turns)
<1>1. /\ us \in Seq(Usage) /\ Len(us) = n /\ n \in Nat
      /\ created \in Nat /\ updated \in Nat /\ total \in Nat
  <2>1. Len(snap.turns) \in Nat
    BY DEF Snap
  <2> QED BY <2>1, SnapTypes
<1>2. "start" \in Kinds /\ "usage" \in Kinds /\ "end" \in Kinds /\ "tool" \in Kinds
  BY DEF Kinds
<1>3. \A i \in 1..n : us[i].start = snap.turns[i].start /\ us[i].tools = snap.turns[i].tools
  BY StartsAndTools
<1> HIDE DEF us, created, updated, total, n
<1>4. CASE e = StartEvent(snap)
  <2>1. IsEvent(e, "start", 0, 0, created, 0)
    BY <1>1, <1>2, <1>4, EventTypes DEF StartEvent, created
  <2> QED BY <2>1 DEF Kind, created
<1>5. CASE e = EndEvent(snap, per)
  <2>1. IsEvent(e, "end", 0, 0, updated, total)
    BY <1>1, <1>2, <1>5, EventTypes DEF EndEvent, updated, total
  <2> QED BY <2>1 DEF Kind, updated, total
<1>6. CASE e = WholeEvent(snap, per) /\ Untimed(snap, per)
  <2>1. IsEvent(e, "usage", 0, 0, updated, total)
    BY <1>1, <1>2, <1>6, EventTypes DEF WholeEvent, updated, total
  <2> QED BY <1>6, <2>1 DEF Kind, updated, total
<1>7. ASSUME NEW i \in 1..n, e \in EventsOfTurn(us, i) PROVE Kind(e, snap, per)
  <2>1. us[i] \in Usage /\ i \in Nat
    BY <1>1
  <2>2. Amount(us[i]) \in Nat /\ us[i].start \in Nat /\ Len(us[i].tools) \in Nat
    BY <2>1, UsageTypes
  <2>3. CASE e = Event("usage", i, 0, us[i].start, Amount(us[i]))
    <3>1. IsEvent(e, "usage", i, 0, us[i].start, Amount(us[i]))
      BY <1>2, <2>1, <2>2, <2>3, EventTypes
    <3>2. IsEvent(e, "usage", i, 0, snap.turns[i].start, Amount(us[i]))
      BY <1>3, <3>1
    <3> QED BY <3>2 DEF Kind, us, n
  <2>4. ASSUME NEW j \in 1..Len(us[i].tools), e = Event("tool", i, j, us[i].start, 0)
        PROVE  Kind(e, snap, per)
    <3>1. j \in Nat
      BY <2>2
    <3>2. IsEvent(e, "tool", i, j, us[i].start, 0)
      BY <1>2, <2>1, <2>2, <2>4, <3>1, EventTypes
    <3>3. j \in 1..Len(snap.turns[i].tools) /\ IsEvent(e, "tool", i, j, snap.turns[i].start, 0)
      BY <1>3, <3>2
    <3> QED BY <3>3 DEF Kind, n
  <2> QED BY <1>7, <2>3, <2>4 DEF EventsOfTurn
<1>8. \/ e = StartEvent(snap) \/ e = EndEvent(snap, per)
      \/ (e = WholeEvent(snap, per) /\ Untimed(snap, per))
      \/ \E i \in 1..n : e \in EventsOfTurn(us, i)
  <2>1. e \in Says(snap, per)
    OBVIOUS
  <2> QED BY <1>1, <2>1 DEF Says, us
<1> QED BY <1>4, <1>5, <1>6, <1>7, <1>8

\* Every turn has its usage: the usage events and the end agree.
LEMMA UsageMatchesEnd ==
  ASSUME NEW per \in Nat \ {0}, NEW snap \in Snap, NEW period, NEW events,
         Parsed(events, snap, per, period),
         \/ \A i \in DOMAIN snap.turns : snap.turns[i].start = 0
         \/ \A i \in DOMAIN snap.turns : snap.turns[i].start > 0 /\ snap.turns[i].start \in period,
         \E i \in DOMAIN events : events[i].id[1] = "end"
  PROVE  TokensOf("usage", events) = TokensOf("end", events)
<1> DEFINE us      == UsagesOf(snap, per)
           updated == UpdatedOf(snap)
           total   == TotalOf(snap, per)
           n       == Len(snap.turns)
           amounts == [i \in 1..n |-> Amount(us[i])]
           passing == [i \in 1..n |-> IF Passes(us[i].start, period) THEN Amount(us[i]) ELSE 0]
<1>1. /\ us \in Seq(Usage) /\ Len(us) = n /\ n \in Nat /\ DOMAIN snap.turns = 1..n
      /\ total \in Nat /\ total = SumOf(amounts)
  <2>1. n \in Nat /\ DOMAIN snap.turns = 1..n
    BY DEF Snap
  <2> QED BY <2>1, SnapTypes
<1>2. \A i \in 1..n : us[i].start = snap.turns[i].start
  BY StartsAndTools
<1>3. Passes(updated, period)
  <2>1. PICK i \in DOMAIN events : events[i].id[1] = "end"
    OBVIOUS
  <2>2. events[i] \in ToSet(events)
    BY DEF ToSet
  <2>3. events[i] \in Says(snap, per) /\ Passes(events[i].time, period)
    BY <2>2 DEF Parsed
  <2> DEFINE e == events[i]
  <2> HIDE DEF e
  <2>4. Kind(e, snap, per) /\ e.id[1] = "end" /\ Passes(e.time, period)
    BY <2>1, <2>3, SaysKinds DEF e
  <2> QED BY <2>4 DEF Kind, IsEvent
<1>4. /\ TokensOf("end", events) = total
      /\ TokensOf("usage", events) = SumOf(passing) + IF Untimed(snap, per) THEN total ELSE 0
  BY <1>3 DEF Parsed
<1>5. CASE n = 0
  <2>1. us = <<>> /\ ~Untimed(snap, per)
    <3>1. us = <<>>
      <4> HIDE DEF us, n
      <4> QED BY <1>1, <1>5
    <3> QED BY <3>1 DEF Untimed
  <2>2. passing = amounts
    BY <1>5
  <2> HIDE DEF us, updated, total, n, amounts, passing
  <2> QED BY <1>1, <1>4, <2>1, <2>2
<1>6. CASE n > 0 /\ \A i \in 1..n : snap.turns[i].start = 0
  <2>1. Untimed(snap, per)
    <3>1. us # <<>> /\ DOMAIN us = 1..n
      <4> HIDE DEF us, n
      <4> QED BY <1>1, <1>6
    <3>2. \A i \in 1..n : us[i].start = 0
      BY <1>2, <1>6
    <3> QED BY <3>1, <3>2 DEF Untimed, hasTimedUsage
  <2>2. passing = [i \in 1..n |-> 0]
    BY <1>2, <1>6 DEF Passes
  <2>3. SumOf(passing) = 0
    <3> HIDE DEF passing
    <3>1. passing \in Seq(Nat) /\ \A i \in 1..Len(passing) : passing[i] = 0
      <4> HIDE DEF n
      <4> QED BY <1>1, <2>2
    <3> QED BY <3>1, SumOfNone
  <2> HIDE DEF us, updated, total, n, amounts, passing
  <2> QED BY <1>1, <1>4, <2>1, <2>3
<1>7. CASE n > 0 /\ \A i \in 1..n : snap.turns[i].start > 0 /\ snap.turns[i].start \in period
  <2>1. ~Untimed(snap, per)
    <3>1. DOMAIN us = 1..n /\ 1 \in 1..n
      <4> HIDE DEF us, n
      <4> QED BY <1>1, <1>7
    <3>2. us[1].start > 0
      <4> HIDE DEF us, n
      <4> QED BY <1>2, <1>7, <3>1
    <3>3. hasTimedUsage(us)
      BY <3>1, <3>2 DEF hasTimedUsage
    <3> QED BY <3>3 DEF Untimed
  <2>2. passing = amounts
    BY <1>2, <1>7 DEF Passes
  <2> HIDE DEF us, updated, total, n, amounts, passing
  <2> QED BY <1>1, <1>4, <2>1, <2>2
<1>8. n = 0 \/ n > 0
  <2> HIDE DEF n
  <2> QED BY <1>1
<1> QED BY <1>1, <1>5, <1>6, <1>7, <1>8

\* TotalsMatch and PeriodsSplit hold for all snapshots and periods.
LEMMA TotalsAlwaysMatch == TotalsMatch
<1> SUFFICES ASSUME NEW s \in Snaps,
                    \/ \A i \in DOMAIN s.turns : s.turns[i].start = 0
                    \/ \A i \in DOMAIN s.turns : s.turns[i].start \in AllTime,
                    NEW events, events = parseSnapshot(s, CharsPerToken, AllTime),
                    \E i \in DOMAIN events : events[i].id[1] = "end"
             PROVE  TokensOf("usage", events) = TokensOf("end", events)
  BY DEF TotalsMatch
<1>1. s \in Snap /\ CharsPerToken \in Nat \ {0}
  BY ReportsAssumption
<1>2. Parsed(events, s, CharsPerToken, AllTime)
  BY <1>1, ParseSelects
<1>3. \A x \in AllTime : x > 0
  BY DEF AllTime
<1> QED BY <1>1, <1>2, <1>3, UsageMatchesEnd

LEMMA PeriodsAlwaysSplit == PeriodsSplit
<1> SUFFICES ASSUME NEW s \in Snaps, NEW period \in Periods
             PROVE  ToSet(parseSnapshot(s, CharsPerToken, period)) =
                      {e \in ToSet(parseSnapshot(s, CharsPerToken, AllTime)) : e.time \in period}
  BY DEF PeriodsSplit
<1>1. s \in Snap /\ CharsPerToken \in Nat \ {0} /\ period \subseteq AllTime
  BY ReportsAssumption
<1>2. \A p : ToSet(parseSnapshot(s, CharsPerToken, p)) =
               {e \in Says(s, CharsPerToken) : Passes(e.time, p)}
  BY <1>1, ParseSelects DEF Parsed
<1> QED BY <1>1, <1>2 DEF Passes

\* The numbers of the events of a Collect add up, for every snapshot and every
\* period.
THEOREM NumbersAddUp == Spec => []EventsAddUp
<1>1. EventsAddUp
  BY CacheAddsUp, TotalsAlwaysMatch, PeriodsAlwaysSplit DEF EventsAddUp
<1> QED BY <1>1, PTL

-----------------------------------------------------------------------------
(* One story.                                                              *)

\* The turns of every snapshot, wherever it is kept, and of every row.
Story(s) == [conv |-> s.conv, turns |-> s.turns]
Bearers ==
  copied \cup left \cup {taken[i] : i \in DOMAIN taken}
    \cup {file.snap : file \in Archives} \cup {h.snap : h \in hand}
    \cup {Present(c) : c \in {d \in Conversations : rows[d].turns # <<>>}}
Told == {Story(s) : s \in Bearers}

\* Snapshots of one conversation agree on the turns they both have.
Agree(a, b) == \A i \in (1..Len(a)) \cap (1..Len(b)) : a[i] = b[i]

OneStory == \A s, t \in Told : s.conv = t.conv => Agree(s.turns, t.turns)

\* A row is ahead of its snapshots until it is dropped, for good; every turn took
\* its time.
RowsAhead ==
  \A s \in Told :
    /\ Len(s.turns) <= clock
    /\ rows[s.conv].created > 0
    /\ rows[s.conv].turns # <<>> => Len(s.turns) <= Len(rows[s.conv].turns)

StoryInv == OneStory /\ RowsAhead

\* What bears the story has a conversation and turns.
LEMMA BearerTypes ==
  ASSUME TypeInv, NEW s \in Bearers
  PROVE  s.conv \in Conversations /\ s.turns \in Seq(Times)
<1>1. clock \in Nat /\ MaxTime \in Nat /\ clock <= MaxTime /\ 0..clock \subseteq Times
  BY KiroAssumption DEF TypeInv, TypeOK, Times
<1>2. ASSUME s \in Stored \/ s \in Found PROVE s.conv \in Conversations /\ s.turns \in Seq(Times)
  BY <1>2 DEF Stored, Found, Dated, Undated
<1>3. ASSUME NEW c \in Conversations, s = Present(c)
      PROVE  s.conv \in Conversations /\ s.turns \in Seq(Times)
  <2>1. rows[c].turns \in Seq(Times)
    BY <1>1, <1>3, SeqGrows DEF TypeInv, DatesKnown
  <2> QED BY <1>3, <2>1 DEF Present, Snapshot
<1>4. \A i \in DOMAIN taken : taken[i] \in Found
  BY SeqGrows DEF TypeInv, TypeOK, Found
<1>5. /\ copied \subseteq Stored /\ left \subseteq Found
      /\ \A f \in Archives : f.snap \in Stored
      /\ \A h \in hand : h.snap \in Stored
  BY DEF Archives, TypeInv, TypeOK, Found
<1> QED BY <1>2, <1>3, <1>4, <1>5 DEF Bearers

\* So has what is told.
LEMMA ToldTypes ==
  ASSUME TypeInv, NEW s \in Told
  PROVE  s.conv \in Conversations /\ s.turns \in Seq(Times)
  BY BearerTypes DEF Told, Story

\* Nothing changes the story but a new turn.
LEMMA NothingNewTold ==
  ASSUME TypeInv, StoryInv, Told' \subseteq Told, clock' \in Nat, clock <= clock',
         \A c \in Conversations :
           /\ rows'[c].created = rows[c].created
           /\ rows'[c].turns = rows[c].turns \/ rows'[c].turns = <<>>
  PROVE  StoryInv'
<1>1. OneStory'
  BY DEF StoryInv, OneStory, Agree
<1>2. ASSUME NEW s \in Told'
      PROVE  /\ Len(s.turns) <= clock'
             /\ rows'[s.conv].created > 0
             /\ rows'[s.conv].turns # <<>> => Len(s.turns) <= Len(rows'[s.conv].turns)
  <2>1. s \in Told /\ s.conv \in Conversations /\ Len(s.turns) \in Nat /\ clock \in Nat
    BY ToldTypes, KiroAssumption DEF TypeInv, TypeOK, Times
  <2>2. Len(s.turns) <= clock
    BY <2>1 DEF StoryInv, RowsAhead
  <2> QED BY <2>1, <2>2 DEF StoryInv, RowsAhead
<1> QED BY <1>1, <1>2 DEF StoryInv, RowsAhead

\* A new turn continues it.
LEMMA TurnContinues ==
  ASSUME TypeInv, StoryInv, NEW c \in Conversations, StoreTurn(c)
  PROVE  StoryInv'
<1> DEFINE n == Len(rows[c].turns)
           row == [conv |-> c, turns |-> rows[c].turns]
           new == [conv |-> c, turns |-> rows'[c].turns]
<1>1. /\ clock \in Nat /\ clock' = clock + 1
      /\ rows[c].turns \in Seq(Times) /\ n \in Nat
      /\ rows \in [Conversations -> [created : 0..clock, updated : 0..clock, turns : Seq(Times)]]
      /\ rows[c].created \in 0..clock
  BY KiroAssumption DEF TypeInv, TypeOK, StoreTurn, ClockMoves, Now, Times
<1>2. PICK start \in Nat :
        rows' = [rows EXCEPT ![c] = Row(IF @.created = 0 THEN Now ELSE @.created, Now,
                                       Append(@.turns, start))]
  <2>1. PICK start \in {0} \cup IF c \in Timed THEN (rows[c].updated + 1)..Now ELSE {} :
          rows' = [rows EXCEPT ![c] = Row(IF @.created = 0 THEN Now ELSE @.created, Now,
                                          Append(@.turns, start))]
    BY DEF StoreTurn
  <2>2. rows[c].updated \in Nat /\ Now \in Nat
    BY <1>1 DEF Now
  <2>3. start \in Nat
    BY <2>1, <2>2
  <2> QED BY <2>1, <2>3
<1>3. /\ \A d \in Conversations : d # c => rows'[d] = rows[d]
      /\ rows'[c].turns = Append(rows[c].turns, start)
      /\ rows'[c].created > 0
  <2>1. rows'[c] = Row(IF rows[c].created = 0 THEN Now ELSE rows[c].created, Now,
                       Append(rows[c].turns, start))
    BY <1>1, <1>2
  <2> QED BY <1>1, <1>2, <2>1 DEF Row, Now
<1>4. /\ Len(rows'[c].turns) = n + 1 /\ rows'[c].turns # <<>>
      /\ \A i \in 1..n : rows'[c].turns[i] = rows[c].turns[i]
  BY <1>1, <1>2, <1>3
<1>5. n # 0 => row \in Told
  <2> SUFFICES ASSUME n # 0 PROVE row \in Told
    OBVIOUS
  <2>1. rows[c].turns # <<>>
    BY <1>1
  <2>2. Present(c) \in Bearers
    BY <2>1 DEF Bearers
  <2> QED BY <2>2 DEF Told, Story, Present, Snapshot
<1>6. Told' \subseteq Told \cup {new}
  <2>1. UNCHANGED <<copied, files, hand, left, taken>>
    BY DEF StoreTurn, collector
  <2>2. ASSUME NEW s \in Bearers' PROVE Story(s) \in Told \cup {new}
    <3>1. CASE s \in Bearers
      BY <3>1 DEF Told
    <3>2. CASE s = Present(c)'
      BY <3>2 DEF Story, Present, Snapshot
    <3>3. ASSUME NEW d \in Conversations, d # c, rows'[d].turns # <<>>, s = Present(d)'
          PROVE  s \in Bearers
      BY <1>3, <3>3 DEF Bearers, Present, Snapshot
    <3> QED BY <2>1, <3>1, <3>2, <3>3 DEF Bearers, Archives
  <2> QED BY <2>2 DEF Told, Story
<1>7. ASSUME NEW s \in Told, s.conv = c
      PROVE  /\ n # 0 /\ Len(s.turns) <= n
             /\ Agree(s.turns, rows'[c].turns)
  <2>1. Len(s.turns) \in Nat /\ rows[c].created > 0
    BY <1>7, ToldTypes DEF StoryInv, RowsAhead
  <2>2. n # 0
    <3>1. rows[c].turns # <<>> \/ rows[c].created = 0
      BY DEF StoreTurn
    <3> QED BY <1>1, <2>1, <3>1
  <2>3. Len(s.turns) <= n
    BY <1>1, <1>7, <2>2 DEF StoryInv, RowsAhead
  <2>4. Agree(s.turns, rows[c].turns)
    BY <1>5, <1>7, <2>2 DEF StoryInv, OneStory
  <2> HIDE DEF n
  <2>5. ASSUME NEW i \in (1..Len(s.turns)) \cap (1..Len(rows'[c].turns))
        PROVE  s.turns[i] = rows'[c].turns[i]
    <3>1. i \in 1..n /\ i \in 1..Len(s.turns)
      BY <1>1, <2>1, <2>3
    <3> QED BY <1>4, <2>4, <3>1 DEF Agree, n
  <2> QED BY <2>2, <2>3, <2>5 DEF Agree
<1>8. OneStory'
  <2> SUFFICES ASSUME NEW s \in Told', NEW t \in Told', s.conv = t.conv
               PROVE  Agree(s.turns, t.turns)
    BY DEF OneStory, Agree
  <2>1. CASE s \in Told /\ t \in Told
    BY <2>1 DEF StoryInv, OneStory
  <2>2. ASSUME NEW u, Agree(s.turns, u) PROVE Agree(u, s.turns)
    BY <2>2 DEF Agree
  <2>3. ASSUME NEW u PROVE Agree(u, u)
    BY DEF Agree
  <2>4. CASE s = new /\ t \in Told
    <3>1. t.conv = c /\ s.turns = rows'[c].turns
      BY <2>4
    <3>2. Agree(t.turns, s.turns)
      BY <1>7, <2>4, <3>1
    <3> QED BY <3>2 DEF Agree
  <2>5. CASE s \in Told /\ t = new
    BY <1>7, <2>5
  <2>6. CASE s = new /\ t = new
    BY <2>3, <2>6
  <2> QED BY <1>6, <2>1, <2>4, <2>5, <2>6
<1>9. RowsAhead'
  <2> SUFFICES ASSUME NEW s \in Told'
               PROVE  /\ Len(s.turns) <= clock'
                      /\ rows'[s.conv].created > 0
                      /\ rows'[s.conv].turns # <<>> => Len(s.turns) <= Len(rows'[s.conv].turns)
    BY DEF RowsAhead
  <2>1. n <= clock
    <3>1. CASE n = 0
      BY <1>1, <3>1
    <3>2. CASE n # 0
      <4>1. Len(row.turns) <= clock
        BY <1>5, <3>2 DEF StoryInv, RowsAhead
      <4> QED BY <4>1
    <3> QED BY <3>1, <3>2
  <2>2. CASE s = new
    BY <1>1, <1>3, <1>4, <2>1, <2>2
  <2>3. CASE s \in Told
    <3>1. s.conv \in Conversations /\ Len(s.turns) \in Nat /\ Len(s.turns) <= clock
      BY <2>3, ToldTypes DEF StoryInv, RowsAhead
    <3>2. Len(s.turns) <= clock'
      BY <1>1, <3>1
    <3>3. CASE s.conv = c
      <4>1. Len(s.turns) <= n
        BY <1>7, <2>3, <3>3
      <4>2. Len(s.turns) <= Len(rows'[c].turns)
        <5> HIDE DEF n
        <5> QED BY <1>1, <1>4, <3>1, <4>1
      <4> QED BY <1>3, <3>2, <3>3, <4>2
    <3>4. CASE s.conv # c
      BY <1>3, <2>3, <3>1, <3>2, <3>4 DEF StoryInv, RowsAhead
    <3> QED BY <3>3, <3>4
  <2> QED BY <1>6, <2>2, <2>3
<1> QED BY <1>8, <1>9 DEF StoryInv

\* Neither Kiro nor the archiver breaks the story.
LEMMA StoryInWorld ==
  ASSUME TypeInv, StoryInv, Kiro \/ Archiver \/ Cancel
  PROVE  StoryInv'
<1>1. /\ clock \in Nat /\ MaxFiles \in Nat
      /\ rows \in [Conversations -> [created : 0..clock, updated : 0..clock, turns : Seq(Times)]]
  BY KiroAssumption DEF TypeInv, TypeOK, Times
<1>2. ASSUME \A s \in Bearers' : Story(s) \in Told PROVE Told' \subseteq Told
  BY <1>2 DEF Told, Story
<1>3. ASSUME NEW s \in Bearers PROVE Story(s) \in Told
  BY DEF Told
<1>4. ASSUME NEW c \in Conversations, Forget(c) PROVE StoryInv'
  <2>1. /\ clock' = clock + 1 /\ UNCHANGED <<copied, files, hand, left, taken>>
        /\ \A d \in Conversations : /\ rows'[d].created = rows[d].created
                                    /\ rows'[d].turns = rows[d].turns \/ rows'[d].turns = <<>>
        /\ \A d \in Conversations : rows'[d].turns # <<>> => rows'[d] = rows[d]
    BY <1>1, <1>4 DEF Forget, ClockMoves, Now, collector
  <2>2. Bearers' \subseteq Bearers
    BY <2>1 DEF Bearers, Archives, Present, Snapshot
  <2> QED BY <1>1, <1>2, <1>3, <2>1, <2>2, NothingNewTold
<1>5. ASSUME NEW c \in Conversations, CopyRow(c) PROVE StoryInv'
  <2>1. /\ UNCHANGED <<clock, rows, files, hand, left, taken>> /\ rows[c].turns # <<>>
        /\ \A s \in copied' : s.conv = c /\ s.turns = rows[c].turns
    BY <1>5 DEF CopyRow, collector, Snapshot
  <2>2. Present(c) \in Bearers
    BY <2>1 DEF Bearers
  <2>3. ASSUME NEW s \in copied' PROVE Story(s) \in Told
    <3>1. Story(s) = Story(Present(c))
      BY <2>1 DEF Story, Present, Snapshot
    <3> QED BY <1>3, <2>2, <3>1
  <2>4. Bearers' \subseteq Bearers \cup copied'
    BY <2>1 DEF Bearers, Archives, Present, Snapshot
  <2> QED BY <1>1, <1>2, <1>3, <2>1, <2>3, <2>4, NothingNewTold
<1>6. ASSUME NEW n \in 1..MaxFiles, WriteArchive(n) PROVE StoryInv'
  <2>1. PICK s \in copied : files' = [files EXCEPT ![n] = {[snap |-> s, mtime |-> Now]}]
    BY <1>6 DEF WriteArchive
  <2>2. clock' = clock + 1 /\ copied' = {} /\ UNCHANGED <<rows, hand, left, taken>>
    BY <1>6 DEF WriteArchive, ClockMoves, Now, collector
  <2>3. \A f \in Archives' : f \in Archives \/ f.snap = s
    BY <2>1 DEF Archives, TypeInv, TypeOK
  <2>4. Bearers' \subseteq Bearers
    BY <2>1, <2>2, <2>3 DEF Bearers, Present, Snapshot
  <2> QED BY <1>1, <1>2, <1>3, <2>2, <2>4, NothingNewTold
<1>7. ASSUME Cancel PROVE StoryInv'
  <2>1. UNCHANGED <<clock, rows, copied, files, hand, left, taken>>
    BY <1>7 DEF Cancel, world, collector
  <2>2. Bearers' \subseteq Bearers
    BY <2>1 DEF Bearers, Archives, Present, Snapshot
  <2> QED BY <1>1, <1>2, <1>3, <2>1, <2>2, NothingNewTold
<1> QED BY <1>4, <1>5, <1>6, <1>7, TurnContinues DEF Kiro, Archiver

\* Whatever is taken has been told.
LEMMA TakesWhatIsTold ==
  ASSUME TypeInv, NEW s \in Found, NEW unreadable \in BOOLEAN, Take(s, unreadable) \/ Diagnose
  PROVE  \A i \in DOMAIN taken' : taken'[i] = s \/ \E j \in DOMAIN taken : taken'[i] = taken[j]
<1>1. taken \in Seq(Found)
  BY DEF TypeInv, TypeOK, Found
<1>2. CASE UNCHANGED taken
  BY <1>2
<1>3. CASE taken' = Append(taken, s)
  <2>1. /\ DOMAIN taken' = 1..(Len(taken) + 1) /\ Len(taken) \in Nat
        /\ DOMAIN taken = 1..Len(taken)
        /\ taken'[Len(taken) + 1] = s /\ \A i \in DOMAIN taken : taken'[i] = taken[i]
    BY <1>1, <1>3
  <2> QED BY <2>1
<1> QED BY <1>2, <1>3 DEF Take, Skip, Parse, Diagnose

\* Nor does Collect.
LEMMA StoryInCollect ==
  ASSUME TypeInv, StoryInv, Collect
  PROVE  StoryInv'
<1>1. UNCHANGED <<clock, rows, copied, files>> /\ clock \in Nat
  <2>1. UNCHANGED <<clock, rows, copied, files>>
    BY DEF Collect, CollectSQLite, ReadDir, ReadArchive, DateArchive, StopReading, StatDatabase,
           Query, ScanRow, EndRows, world
  <2>2. clock \in Nat
    BY KiroAssumption DEF TypeInv, TypeOK, Times
  <2> QED BY <2>1, <2>2
<1>2. ASSUME NEW s \in Bearers PROVE Story(s) \in Told
  BY DEF Told
<1>3. ASSUME \A s \in left' : Story(s) \in Told, \A h \in hand' : Story(h.snap) \in Told,
             \A i \in DOMAIN taken' : Story(taken'[i]) \in Told
      PROVE  StoryInv'
  <2>1. ASSUME NEW s \in Bearers' PROVE Story(s) \in Told
    <3>1. \/ s \in Bearers \/ s \in left' \/ \E h \in hand' : s = h.snap
          \/ \E i \in DOMAIN taken' : s = taken'[i]
      BY <1>1 DEF Bearers, Archives, Present, Snapshot
    <3> QED BY <1>2, <1>3, <3>1
  <2>2. Told' \subseteq Told
    BY <2>1 DEF Told, Story
  <2> QED BY <1>1, <2>2, NothingNewTold
<1>4. /\ \A s \in left : Story(s) \in Told
      /\ \A h \in hand : Story(h.snap) \in Told
      /\ \A i \in DOMAIN taken : Story(taken[i]) \in Told
      /\ \A f \in Archives : Story(f.snap) \in Told
      /\ \A c \in Conversations : rows[c].turns # <<>> => Story(Present(c)) \in Told
  <2>1. /\ left \subseteq Bearers /\ \A h \in hand : h.snap \in Bearers
        /\ \A i \in DOMAIN taken : taken[i] \in Bearers
        /\ \A f \in Archives : f.snap \in Bearers
        /\ \A c \in Conversations : rows[c].turns # <<>> => Present(c) \in Bearers
    BY DEF Bearers
  <2> QED BY <1>2, <2>1
<1>5. ASSUME NEW s \in Found, NEW unreadable \in BOOLEAN, Take(s, unreadable) \/ Diagnose,
             Story(s) \in Told, left' \subseteq left, hand' \subseteq hand
      PROVE  StoryInv'
  <2>1. \A i \in DOMAIN taken' : taken'[i] = s \/ \E j \in DOMAIN taken : taken'[i] = taken[j]
    BY <1>5, TakesWhatIsTold
  <2>2. \A i \in DOMAIN taken' : Story(taken'[i]) \in Told
    BY <1>4, <1>5, <2>1
  <2> QED BY <1>3, <1>4, <1>5, <2>2
<1>6. ASSUME ReadArchive PROVE StoryInv'
  <2>1. PICK n \in names :
          \/ \E file \in files[n] :
               IF file.snap.updated = 0
                 THEN hand' = {[name |-> n, snap |-> file.snap]} /\ Skip
                 ELSE Take(FromArchive(file.snap, file.mtime), TRUE) /\ UNCHANGED hand
          \/ Diagnose /\ UNCHANGED hand
    BY <1>6 DEF ReadArchive
  <2>2. UNCHANGED left /\ n \in 1..MaxFiles
    BY <1>6 DEF ReadArchive, TypeInv, TypeOK
  <2>3. ASSUME NEW file \in files[n]
        PROVE  file.snap \in KeptBy(clock) /\ file.mtime \in 0..clock /\ file \in Archives
    <3>1. file.mtime \in 1..clock
      BY <2>2 DEF TypeInv, DatesKnown
    <3> QED BY <1>1, <2>2, <3>1 DEF TypeInv, DatesKnown, Archives
  <2>4. ASSUME NEW file \in files[n], hand' = {[name |-> n, snap |-> file.snap]}, UNCHANGED taken
        PROVE  StoryInv'
    <3>1. \A h \in hand' : Story(h.snap) \in Told
      BY <1>4, <2>3, <2>4
    <3> QED BY <1>3, <1>4, <2>2, <2>4, <3>1
  <2>5. ASSUME NEW file \in files[n], Take(FromArchive(file.snap, file.mtime), TRUE), UNCHANGED hand
        PROVE  StoryInv'
    <3>1. FromArchive(file.snap, file.mtime) \in Found
      BY <2>3, ArchiveIsDated
    <3>2. Story(FromArchive(file.snap, file.mtime)) = Story(file.snap)
      BY DEF FromArchive, Snapshot, Story
    <3> QED BY <1>4, <1>5, <2>2, <2>3, <2>5, <3>1, <3>2
  <2>6. ASSUME Diagnose, UNCHANGED hand PROVE StoryInv'
    BY <1>3, <1>4, <2>2, <2>6 DEF Diagnose
  <2> QED BY <2>1, <2>4, <2>5, <2>6 DEF Skip
<1>7. ASSUME DateArchive PROVE StoryInv'
  <2>1. PICK h \in hand : \E mtime \in ModUnixMS(h.name) : Take(FromArchive(h.snap, mtime), TRUE)
    BY <1>7 DEF DateArchive
  <2>2. PICK mtime \in ModUnixMS(h.name) : Take(FromArchive(h.snap, mtime), TRUE)
    BY <2>1
  <2>3. h.snap \in KeptBy(clock) /\ mtime \in 0..clock
    BY <2>1, <2>2 DEF TypeInv, TypeOK, Times, DatesKnown, ModUnixMS
  <2>4. FromArchive(h.snap, mtime) \in Found
    BY <2>3, ArchiveIsDated
  <2>5. Story(FromArchive(h.snap, mtime)) = Story(h.snap)
    BY DEF FromArchive, Snapshot, Story
  <2>6. hand' = {} /\ UNCHANGED left
    BY <1>7 DEF DateArchive
  <2> QED BY <1>4, <1>5, <2>2, <2>4, <2>5, <2>6
<1>8. ASSUME NEW table \in {"v2", "legacy"}, Query(table) PROVE StoryInv'
  <2>1. UNCHANGED <<hand, taken>> /\ (left' = RowsOf(table) \/ left' = left)
    BY <1>8 DEF Query
  <2>2. ASSUME NEW s \in RowsOf(table) PROVE Story(s) \in Told
    <3>1. PICK c \in Conversations : /\ rows[c].turns # <<>>
                                     /\ s.conv = c /\ s.turns = rows[c].turns
      BY DEF RowsOf, Snapshot
    <3>2. Story(s) = Story(Present(c))
      BY <3>1 DEF Story, Present, Snapshot
    <3> QED BY <1>4, <3>1, <3>2
  <2> QED BY <1>3, <1>4, <2>1, <2>2
<1>9. ASSUME NEW table \in {"v2", "legacy"}, ScanRow(table) PROVE StoryInv'
  <2>1. PICK s \in left : left' = left \ {s} /\ (Take(s, table = "v2") \/ Diagnose)
    BY <1>9 DEF ScanRow
  <2>2. s \in Found /\ Story(s) \in Told /\ UNCHANGED hand
    BY <1>4, <1>9 DEF ScanRow, TypeInv, TypeOK, Found
  <2> QED BY <1>5, <2>1, <2>2
<1>10. ASSUME NEW table \in {"v2", "legacy"}, EndRows(table) PROVE StoryInv'
  <2>1. UNCHANGED <<hand, taken>> /\ left' = {}
    BY <1>10 DEF EndRows, Skip
  <2> QED BY <1>3, <1>4, <2>1
<1>11. ASSUME ReadDir \/ StopReading \/ StatDatabase PROVE StoryInv'
  <2>1. UNCHANGED <<hand, left, taken>>
    BY <1>11 DEF ReadDir, StopReading, StatDatabase, Skip
  <2> QED BY <1>3, <1>4, <2>1
<1> QED
  BY <1>6, <1>7, <1>8, <1>9, <1>10, <1>11 DEF Collect, CollectSQLite

\* Nothing is told at first.
LEMMA InitStory ==
  ASSUME Init
  PROVE  StoryInv
<1>1. copied = {} /\ hand = {} /\ left = {} /\ taken = <<>> /\ Archives = {}
  BY DEF Init, Archives
<1>2. \A c \in Conversations : rows[c].turns = <<>>
  BY DEF Init, Row
<1>3. Told = {}
  BY <1>1, <1>2 DEF Told, Bearers
<1> QED BY <1>3 DEF StoryInv, OneStory, RowsAhead

\* The story is kept by every step.
LEMMA StoryKept ==
  ASSUME TypeInv, StoryInv, [Next]_vars
  PROVE  StoryInv'
<1>1. ASSUME UNCHANGED vars PROVE StoryInv'
  <2>1. UNCHANGED <<clock, rows, copied, files, hand, left, taken>>
    BY <1>1 DEF vars, world, collector
  <2>2. Told' = Told
    BY <2>1 DEF Told, Bearers, Archives, Present, Story
  <2> QED BY <2>1, <2>2 DEF StoryInv, OneStory, RowsAhead, Agree
<1> QED BY <1>1, StoryInWorld, StoryInCollect DEF Next

-----------------------------------------------------------------------------
(* The last word.                                                          *)

\* Turns that two snapshots have in common have the same usage.
LEMMA SameUsages ==
  ASSUME NEW per \in Nat \ {0}, NEW a \in Seq(Turn), NEW b \in Seq(Turn), NEW summary \in Nat,
         Agree(a, b), NEW k \in (1..Len(a)) \cap (1..Len(b))
  PROVE  estimateUsages(a, summary, per)[k] = estimateUsages(b, summary, per)[k]
<1>1. PICK f : Estimates(estimateUsages(a, summary, per), a, summary, per, f)
  BY UsagesAre
<1>2. PICK g : Estimates(estimateUsages(b, summary, per), b, summary, per, g)
  BY UsagesAre
<1>3. /\ Len(a) \in Nat /\ Len(b) \in Nat /\ k \in Nat /\ k >= 1 /\ k <= Len(a) /\ k <= Len(b)
      /\ k - 1 \in Nat
  OBVIOUS
<1>4. \A i \in 1..k : a[i] = b[i]
  BY <1>3 DEF Agree
<1>5. /\ Said(a, per) \in Seq(Nat) /\ Len(Said(a, per)) = Len(a)
      /\ Said(b, per) \in Seq(Nat) /\ Len(Said(b, per)) = Len(b)
  BY SaidTypes
<1>6. \A i \in 1..k : Said(a, per)[i] = Said(b, per)[i] /\ Said(a, per)[i] \in Nat
  <2>1. \A i \in 1..k : i \in 1..Len(a) /\ i \in 1..Len(b)
    BY <1>3
  <2>2. \A i \in 1..k : Said(a, per)[i] = Said(b, per)[i]
    BY <1>4, <2>1 DEF Said
  <2>3. \A i \in 1..Len(a) : Said(a, per)[i] \in Nat
    BY <1>5
  <2> QED BY <2>1, <2>2, <2>3
<1>7. f[k - 1] = g[k - 1]
  <2> DEFINE t == [i \in 1..(k - 1) |-> Said(a, per)[i]]
  <2>1. \A i \in 1..(k - 1) : i \in 1..k
    BY <1>3
  <2>2. /\ t \in Seq(Nat) /\ Len(t) = k - 1
        /\ \A i \in 1..Len(t) : t[i] = Said(a, per)[i] /\ t[i] = Said(b, per)[i]
    BY <1>3, <1>6, <2>1
  <2> HIDE DEF t
  <2>3. Len(t) <= Len(a) /\ Len(t) <= Len(b)
    BY <1>3, <2>2
  <2>4. Adds(Said(a, per), f) /\ Adds(Said(b, per), g)
    BY <1>1, <1>2 DEF Estimates
  <2>5. SumOf(t) = f[Len(t)]
    BY <1>5, <2>2, <2>3, <2>4, SumOfFirst
  <2>6. SumOf(t) = g[Len(t)]
    BY <1>5, <2>2, <2>3, <2>4, SumOfFirst
  <2> QED BY <2>2, <2>5, <2>6
<1>8. k # 1 => a[k - 1] = b[k - 1]
  <2>1. k # 1 => k - 1 \in 1..k
    BY <1>3
  <2> QED BY <1>4, <2>1
<1>9. a[k] = b[k]
  BY <1>3, <1>4
<1>10. UsageOf(a, summary, per, f, k) = UsageOf(b, summary, per, g, k)
  BY <1>7, <1>8, <1>9 DEF UsageOf
<1> QED BY <1>1, <1>2, <1>10 DEF Estimates

\* What a snapshot contains has its time, if it has one, and turns that are those
\* of its conversation.
LEMMA ContentsAre ==
  ASSUME TypeInv, NEW s \in Found, Len(s.turns) <= clock
  PROVE  /\ Contents(s) \in Snap
         /\ s.updated # 0 => UpdatedOf(Contents(s)) = s.updated
         /\ Contents(s).summary = SummaryOf[s.conv]
         /\ Len(Contents(s).turns) = Len(s.turns)
         /\ \A k \in 1..Len(s.turns) :
              Contents(s).turns[k] = [TurnOf[s.conv][k] EXCEPT !.start = s.turns[k]]
         /\ \A k \in 1..Len(s.turns) : Contents(s).turns[k].start = s.turns[k]
<1> DEFINE n == Len(s.turns)
           turns == [k \in DOMAIN s.turns |-> [TurnOf[s.conv][k] EXCEPT !.start = s.turns[k]]]
<1>1. clock \in Nat /\ MaxTime \in Nat /\ clock <= MaxTime
  BY KiroAssumption DEF TypeInv, TypeOK, Times
<1>2. /\ s.conv \in Conversations /\ s.created \in 0..clock /\ s.updated \in 0..clock
      /\ s.turns \in Seq(Times) /\ n \in Nat /\ DOMAIN s.turns = 1..n
  BY <1>1 DEF Found, Dated, Undated
<1>3. /\ s.created \in Nat /\ s.updated \in Nat
      /\ SummaryOf[s.conv] \in Nat /\ TurnOf[s.conv] \in [AllTime -> Turn]
  BY <1>1, <1>2, ReportsAssumption
<1>4. ASSUME NEW k \in 1..n
      PROVE  /\ turns[k] \in Turn
             /\ turns[k] = [TurnOf[s.conv][k] EXCEPT !.start = s.turns[k]]
             /\ turns[k].start = s.turns[k]
  <2>1. k \in AllTime
    BY <1>1, <1>2 DEF AllTime
  <2>2. TurnOf[s.conv][k] \in Turn
    BY <1>3, <2>1
  <2>3. s.turns[k] \in Nat
    BY <1>1, <1>2 DEF Times
  <2>4. turns[k] = [TurnOf[s.conv][k] EXCEPT !.start = s.turns[k]]
    BY <1>2
  <2>5. ASSUME NEW v \in Turn, NEW x \in Nat
        PROVE  [v EXCEPT !.start = x] \in Turn /\ [v EXCEPT !.start = x].start = x
    BY DEF Turn
  <2> HIDE DEF turns
  <2> QED BY <2>2, <2>3, <2>4, <2>5
<1>5. turns \in Seq(Turn) /\ Len(turns) = n
  <2>1. DOMAIN turns = 1..n /\ turns = [k \in DOMAIN turns |-> turns[k]]
    BY <1>2
  <2> HIDE DEF turns, n
  <2>2. turns \in [1..n -> Turn]
    BY <1>4, <2>1
  <2> QED BY <1>2, <2>2
<1> HIDE DEF turns, n
<1>6. Contents(s) = [created |-> s.created, updated |-> s.updated, summary |-> SummaryOf[s.conv],
                     turns |-> turns]
  BY DEF Contents, turns
<1>7. Contents(s) \in Snap
  BY <1>3, <1>5, <1>6 DEF Snap
<1>8. s.updated # 0 => UpdatedOf(Contents(s)) = s.updated
  BY <1>3, <1>6 DEF UpdatedOf
<1>9. Contents(s).turns = turns /\ Contents(s).summary = SummaryOf[s.conv]
  BY <1>6
<1> QED BY <1>4, <1>5, <1>7, <1>8, <1>9 DEF n

\* What two snapshots of a conversation say of the same thing.
LEMMA LaterSays ==
  ASSUME NEW per \in Nat \ {0}, NEW a \in Snap, NEW b \in Snap, a.summary = b.summary,
         Agree(a.turns, b.turns),
         NEW e \in Says(a, per), NEW f \in Says(b, per), e.id = f.id, e.id[1] # "start"
  PROVE  /\ UpdatedOf(a) < UpdatedOf(b) => e.time <= f.time /\ (e.id[1] = "end" => e.time < f.time)
         /\ Len(a.turns) < Len(b.turns) \/ e.id[2] # 0 => e.tokens <= f.tokens
<1> DEFINE m == Len(a.turns)
           n == Len(b.turns)
           us == UsagesOf(a, per)
           vs == UsagesOf(b, per)
<1>1. /\ UpdatedOf(a) \in Nat /\ UpdatedOf(b) \in Nat
      /\ TotalOf(a, per) \in Nat /\ TotalOf(b, per) \in Nat
      /\ us \in Seq(Usage) /\ Len(us) = m /\ vs \in Seq(Usage) /\ Len(vs) = n
      /\ TotalOf(a, per) = SumOf([k \in 1..m |-> Amount(us[k])])
      /\ TotalOf(b, per) = SumOf([k \in 1..n |-> Amount(vs[k])])
  BY SnapTypes
<1>2. /\ a.turns \in Seq(Turn) /\ b.turns \in Seq(Turn) /\ a.summary \in Nat
      /\ m \in Nat /\ n \in Nat
  BY DEF Snap
<1>3. ASSUME NEW k \in (1..m) \cap (1..n)
      PROVE  /\ us[k] = vs[k] /\ a.turns[k] = b.turns[k]
             /\ Amount(us[k]) \in Nat /\ a.turns[k].start \in Nat
  <2>1. us[k] = vs[k]
    <3> DEFINE p == a.turns
               q == b.turns
               z == a.summary
    <3>1. /\ p \in Seq(Turn) /\ q \in Seq(Turn) /\ z \in Nat /\ Agree(p, q)
          /\ k \in (1..Len(p)) \cap (1..Len(q))
      BY <1>2, <1>3
    <3> HIDE DEF p, q, z
    <3>2. estimateUsages(p, z, per)[k] = estimateUsages(q, z, per)[k]
      BY <3>1, SameUsages
    <3> QED BY <3>2 DEF UsagesOf, p, q, z
  <2>2. us[k] \in Usage
    BY <1>1
  <2>3. a.turns[k] = b.turns[k] /\ a.turns[k] \in Turn
    BY <1>2 DEF Agree
  <2> QED BY <2>1, <2>2, <2>3, UsageTypes DEF Turn
<1>4. m < n => TotalOf(a, per) <= TotalOf(b, per)
  <2> SUFFICES ASSUME m < n PROVE TotalOf(a, per) <= TotalOf(b, per)
    OBVIOUS
  <2> DEFINE x == [k \in 1..m |-> Amount(us[k])]
             y == [k \in 1..n |-> Amount(vs[k])]
  <2>1. \A k \in 1..m : Amount(us[k]) \in Nat /\ Amount(us[k]) = Amount(vs[k])
    <3>1. \A k \in 1..m : k \in (1..m) \cap (1..n)
      <4> HIDE DEF m, n
      <4> QED BY <1>2
    <3> QED BY <1>3, <3>1
  <2>2. \A k \in 1..n : Amount(vs[k]) \in Nat
    <3>1. \A k \in 1..n : vs[k] \in Usage
      BY <1>1
    <3> QED BY <3>1, UsageTypes
  <2> HIDE DEF us, vs, m, n
  <2>3. x \in Seq(Nat) /\ Len(x) = m /\ y \in Seq(Nat) /\ Len(y) = n
    BY <1>2, <2>1, <2>2
  <2>4. \A k \in 1..m : x[k] <= y[k]
    <3>1. \A k \in 1..m : k \in 1..n
      BY <1>2
    <3> QED BY <2>1, <3>1
  <2>5. TotalOf(a, per) = SumOf(x) /\ TotalOf(b, per) = SumOf(y)
    BY <1>1
  <2> HIDE DEF x, y
  <2>6. SumOf(x) <= SumOf(y)
    <3>1. Len(x) <= Len(y) /\ \A k \in 1..Len(x) : x[k] <= y[k]
      BY <1>2, <2>3, <2>4
    <3> QED BY <2>3, <3>1, SumOfMore
  <2> QED BY <2>5, <2>6
<1>5. Kind(e, a, per) /\ Kind(f, b, per)
  BY SaysKinds
<1>6. CASE e.id[1] = "end"
  <2>1. IsEvent(e, "end", 0, 0, UpdatedOf(a), TotalOf(a, per))
    BY <1>5, <1>6 DEF Kind, IsEvent
  <2>2. f.id[1] = "end"
    BY <1>6
  <2>3. IsEvent(f, "end", 0, 0, UpdatedOf(b), TotalOf(b, per))
    BY <1>5, <2>2 DEF Kind, IsEvent
  <2>4. e.id[2] = 0
    BY <2>1 DEF IsEvent
  <2> QED BY <1>1, <1>4, <2>1, <2>3, <2>4 DEF IsEvent
<1>7. CASE e.id[1] = "usage" /\ e.id[2] = 0
  <2>1. IsEvent(e, "usage", 0, 0, UpdatedOf(a), TotalOf(a, per))
    BY <1>5, <1>7 DEF Kind, IsEvent
  <2>2. f.id[1] = "usage" /\ f.id[2] = 0
    BY <1>7
  <2>3. IsEvent(f, "usage", 0, 0, UpdatedOf(b), TotalOf(b, per))
    BY <1>5, <2>2 DEF Kind, IsEvent
  <2> QED BY <1>1, <1>4, <1>7, <2>1, <2>3 DEF IsEvent
<1>8. CASE e.id[1] = "usage" /\ e.id[2] # 0
  <2>1. PICK k \in 1..m : IsEvent(e, "usage", k, 0, a.turns[k].start, Amount(us[k]))
    BY <1>5, <1>8 DEF Kind, IsEvent
  <2>2. f.id[1] = "usage" /\ f.id[2] # 0 /\ f.id[2] = k
    BY <1>8, <2>1 DEF IsEvent
  <2>3. k \in 1..n /\ IsEvent(f, "usage", k, 0, b.turns[k].start, Amount(vs[k]))
    BY <1>5, <2>2 DEF Kind, IsEvent
  <2>4. e.time = f.time /\ e.tokens = f.tokens /\ e.time \in Nat /\ e.tokens \in Nat
    BY <1>3, <2>1, <2>3 DEF IsEvent
  <2> QED BY <1>8, <2>4
<1>9. CASE e.id[1] = "tool"
  <2>1. PICK k \in 1..m : \E j \in 1..Len(a.turns[k].tools) :
               IsEvent(e, "tool", k, j, a.turns[k].start, 0)
    BY <1>5, <1>9 DEF Kind, IsEvent
  <2>2. f.id[1] = "tool" /\ f.id[2] = k
    BY <1>9, <2>1 DEF IsEvent
  <2>3. k \in 1..n /\ \E j \in 1..Len(b.turns[k].tools) :
               IsEvent(f, "tool", k, j, b.turns[k].start, 0)
    BY <1>5, <2>2 DEF Kind, IsEvent
  <2>4. e.time = f.time /\ e.tokens = f.tokens /\ e.time \in Nat /\ e.tokens \in Nat
    <3>1. e.time = a.turns[k].start /\ f.time = b.turns[k].start /\ e.tokens = 0 /\ f.tokens = 0
      BY <2>1, <2>3 DEF IsEvent
    <3> QED BY <1>3, <2>1, <2>3, <3>1
  <2> QED BY <1>9, <2>4
<1>10. e.id[1] \in {"end", "usage", "tool"}
  BY <1>5 DEF Kind, IsEvent
<1> QED BY <1>6, <1>7, <1>8, <1>9, <1>10

\* One story, taken from old to new: the later event has the last word.
LEMMA LaterHasLastWord ==
  ASSUME TypeInv, StoryInv, UndatedNoted, NewestLast
  PROVE  LastWord
<1> SUFFICES ASSUME NEW i \in DOMAIN taken, NEW j \in DOMAIN taken,
                    i < j, taken[i].conv = taken[j].conv,
                    NEW e \in ToSet(EventsOf(taken[i])), NEW f \in ToSet(EventsOf(taken[j])),
                    e.id = f.id, e.id[1] # "start"
             PROVE  /\ taken[i].conv \in V2 \/ taken[i].conv \notin undated =>
                         e.time <= f.time /\ (e.id[1] = "end" => e.time < f.time)
                    /\ taken[i].conv \in V2 \/ e.id[2] # 0 => e.tokens <= f.tokens
  BY DEF LastWord
<1> DEFINE s == taken[i]
           t == taken[j]
           a == Contents(s)
           b == Contents(t)
           dated == taken[i].conv \in V2 \/ taken[i].conv \notin undated
<1>1. s \in Found /\ t \in Found /\ Story(s) \in Told /\ Story(t) \in Told
  <2>1. s \in Found /\ t \in Found
    BY SeqGrows DEF TypeInv, TypeOK, Found
  <2>2. s \in Bearers /\ t \in Bearers
    BY DEF Bearers
  <2> QED BY <2>1, <2>2 DEF Told
<1>2. Len(s.turns) <= clock /\ Len(t.turns) <= clock /\ Agree(s.turns, t.turns)
  BY <1>1 DEF StoryInv, OneStory, RowsAhead, Story
<1>3. /\ dated => s.updated < t.updated /\ s.updated # 0 /\ t.updated # 0
      /\ s.conv \in V2 => Len(s.turns) < Len(t.turns)
  BY DEF NewestLast, UndatedNoted
<1>4. s.conv = t.conv /\ e \in ToSet(EventsOf(s)) /\ f \in ToSet(EventsOf(t))
  OBVIOUS
<1>5. CharsPerToken \in Nat \ {0}
  BY ReportsAssumption
<1> HIDE DEF s, t, dated
<1>6. /\ a \in Snap /\ (s.updated # 0 => UpdatedOf(a) = s.updated) /\ a.summary = SummaryOf[s.conv]
      /\ Len(a.turns) = Len(s.turns)
      /\ \A k \in 1..Len(s.turns) : a.turns[k] = [TurnOf[s.conv][k] EXCEPT !.start = s.turns[k]]
  BY <1>1, <1>2, ContentsAre
<1>7. /\ b \in Snap /\ (t.updated # 0 => UpdatedOf(b) = t.updated) /\ b.summary = SummaryOf[t.conv]
      /\ Len(b.turns) = Len(t.turns)
      /\ \A k \in 1..Len(t.turns) : b.turns[k] = [TurnOf[t.conv][k] EXCEPT !.start = t.turns[k]]
  BY <1>1, <1>2, ContentsAre
<1>8. e \in Says(a, CharsPerToken) /\ f \in Says(b, CharsPerToken)
  <2>1. ASSUME NEW x \in Snap
        PROVE  ToSet(parseSnapshot(x, CharsPerToken, AllTime)) \subseteq Says(x, CharsPerToken)
    <3>1. Parsed(parseSnapshot(x, CharsPerToken, AllTime), x, CharsPerToken, AllTime)
      BY <1>5, ParseSelects
    <3>2. ToSet(parseSnapshot(x, CharsPerToken, AllTime))
            = {z \in Says(x, CharsPerToken) : Passes(z.time, AllTime)}
      BY <3>1 DEF Parsed
    <3> QED BY <3>2
  <2> QED BY <1>4, <1>6, <1>7, <2>1 DEF EventsOf
<1> HIDE DEF a, b
<1>9. Agree(a.turns, b.turns)
  <2>1. ASSUME NEW k \in (1..Len(a.turns)) \cap (1..Len(b.turns))
        PROVE  a.turns[k] = b.turns[k]
    <3>1. k \in 1..Len(s.turns) /\ k \in 1..Len(t.turns)
      BY <1>6, <1>7
    <3>2. s.turns[k] = t.turns[k]
      BY <1>2, <3>1 DEF Agree
    <3>3. a.turns[k] = [TurnOf[s.conv][k] EXCEPT !.start = s.turns[k]]
      BY <1>6, <3>1
    <3>4. b.turns[k] = [TurnOf[t.conv][k] EXCEPT !.start = t.turns[k]]
      BY <1>7, <3>1
    <3>5. s.conv = t.conv
      BY <1>4
    <3> DEFINE x == s.turns[k]
               y == t.turns[k]
               v == TurnOf[s.conv][k]
               w == TurnOf[t.conv][k]
    <3>6. x = y /\ v = w
      BY <3>2, <3>5
    <3> HIDE DEF x, y, v, w
    <3>7. [v EXCEPT !.start = x] = [w EXCEPT !.start = y]
      BY <3>6
    <3> QED BY <3>3, <3>4, <3>7 DEF x, y, v, w
  <2> QED BY <2>1 DEF Agree
<1>10. /\ a.summary = b.summary /\ (dated => UpdatedOf(a) < UpdatedOf(b))
       /\ s.conv \in V2 => Len(a.turns) < Len(b.turns)
  BY <1>3, <1>4, <1>6, <1>7
<1>11. /\ UpdatedOf(a) < UpdatedOf(b) => e.time <= f.time /\ (e.id[1] = "end" => e.time < f.time)
       /\ Len(a.turns) < Len(b.turns) \/ e.id[2] # 0 => e.tokens <= f.tokens
  BY <1>5, <1>6, <1>7, <1>8, <1>9, <1>10, LaterSays
<1> QED BY <1>10, <1>11 DEF s, dated

\* Of two events of a Collect with one id the later one has the last word, for
\* any number of conversations and files, whatever their turns: LastWord of
\* KiroReports.
THEOREM LaterEventsWin == Spec => []LastWord
<1>1. Init => OrderInv /\ StoryInv
  BY InitOrder, InitStory
<1>2. TypeInv /\ OrderInv /\ StoryInv => LastWord
  BY LaterHasLastWord DEF OrderInv
<1>3. TypeInv /\ OrderInv /\ StoryInv /\ [Next]_vars => TypeInv' /\ OrderInv' /\ StoryInv'
  BY TypeKept, OrderKept, StoryKept
<1> QED
  BY <1>1, <1>2, <1>3, InitTypes, PTL DEF Spec
=============================================================================
