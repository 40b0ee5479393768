---------------------------- MODULE KiroCollector ----------------------------
(***************************************************************************)
(* Collecting the usage of the Kiro CLI (omnidevx/kiro.go, archive.go):    *)
(* one Collect reads the archived snapshots file by file and then the two  *)
(* tables of Kiro's database, while Kiro stores turns and an archiver      *)
(* writes snapshots.  What it has taken of a conversation it remembers in  *)
(* seen by its time, so that a snapshot found twice is taken once.         *)
(*                                                                         *)
(* A conversation lives in one of the tables: conversations_v2 dates its   *)
(* rows, the older conversations does not.  The clock moves with every     *)
(* change of a file: no two of them fall into one millisecond.             *)
(***************************************************************************)
EXTENDS KiroConversation, FiniteSets

CONSTANTS Conversations,
          V2,        \* those in conversations_v2; the others are in conversations
          Timed,     \* those of which turns may have request metadata
          MaxFiles,  \* bound: archived files, in the order of their names
          MaxTime    \* bound: changes of files

ASSUME KiroAssumption ==
  /\ V2 \subseteq Conversations /\ Timed \subseteq Conversations
  /\ MaxFiles \in Nat /\ MaxTime \in Nat

VARIABLES
  clock,     \* now
  rows,      \* Kiro: [Conversations -> row], without turns when there is no row
  dbTime,    \* modification time of the database, 0 when there is none
  copied,    \* archiver: the snapshots it has read and not yet written, one or none
  files,     \* [1..MaxFiles -> the snapshots in the file, one or none]
  cancelled, \* the context of Collect
  at,        \* Collect: what it does next
  names,     \* Collect: the archives of the directory not yet read
  hand,      \* Collect: an undated archive it has read: [name, snap], or none
  left,      \* Collect: the rows of the query not yet scanned
  fallback,  \* Collect: modification time of the database as it read it
  seen,      \* Collect: [Conversations -> time of the last snapshot taken]
  taken,     \* Collect: the snapshots that events were made of, in order
  diagnosed, \* Collect: there is a diagnostic
  undated,   \* history: conversations of which Collect had a snapshot without a time
  before     \* turns of the conversations when Collect began, 0 when forgotten since

world     == <<clock, rows, dbTime, copied, files>>
collector == <<at, names, hand, left, fallback, seen, taken, diagnosed, undated>>
vars      == <<world, collector, cancelled, before>>

\* turns: the start of the request of every turn, 0 without metadata.
Row(created, updated, turns) == [created |-> created, updated |-> updated, turns |-> turns]
Snapshot(c, created, updated, turns) ==
  [conv |-> c, created |-> created, updated |-> updated, turns |-> turns]

Init ==
  /\ clock = 0 /\ dbTime = 0 /\ copied = {}
  /\ rows = [c \in Conversations |-> Row(0, 0, <<>>)]
  /\ files = [n \in 1..MaxFiles |-> {}]
  /\ cancelled = FALSE
  /\ at = "idle" /\ names = {} /\ hand = {} /\ left = {}
  /\ fallback = 0 /\ seen = [c \in Conversations |-> 0] /\ taken = <<>> /\ diagnosed = FALSE
  /\ undated = {}
  /\ before = [c \in Conversations |-> 0]

-----------------------------------------------------------------------------
(* Kiro and the archiver.                                                  *)

Now == clock + 1
ClockMoves == clock < MaxTime /\ clock' = Now

\* A turn is stored when it is over; its request started after the last one.
StoreTurn(c) ==
  /\ ClockMoves
  /\ dbTime' = Now
  /\ rows[c].turns # <<>> \/ rows[c].created = 0
  /\ \E start \in {0} \cup IF c \in Timed THEN (rows[c].updated + 1)..Now ELSE {} :
       rows' = [rows EXCEPT ![c] = Row(IF @.created = 0 THEN Now ELSE @.created, Now,
                                       Append(@.turns, start))]
  /\ UNCHANGED <<copied, files, collector, cancelled, before>>

\* Kiro drops a conversation, for good.
Forget(c) ==
  /\ ClockMoves
  /\ dbTime' = Now
  /\ rows[c].turns # <<>>
  /\ rows' = [rows EXCEPT ![c].turns = <<>>]
  /\ before' = [before EXCEPT ![c] = 0]
  /\ UNCHANGED <<copied, files, collector, cancelled>>

\* The archiver reads a row; only conversations_v2 has a time for it.
CopyRow(c) ==
  /\ copied = {}
  /\ rows[c].turns # <<>>
  /\ copied' = {IF c \in V2 THEN Snapshot(c, rows[c].created, rows[c].updated, rows[c].turns)
                ELSE Snapshot(c, 0, 0, rows[c].turns)}
  /\ UNCHANGED <<clock, rows, dbTime, files, collector, cancelled, before>>

\* ... and writes it to a new file, or over an older archive of the conversation.
WriteArchive(n) ==
  /\ ClockMoves
  /\ \E s \in copied :
       /\ \A old \in files[n] : old.snap.conv = s.conv
       /\ files' = [files EXCEPT ![n] = {[snap |-> s, mtime |-> Now]}]
  /\ copied' = {}
  /\ UNCHANGED <<rows, dbTime, collector, cancelled, before>>

Cancel ==
  /\ ~cancelled
  /\ cancelled' = TRUE
  /\ UNCHANGED <<world, collector, before>>

-----------------------------------------------------------------------------
(* Collect.                                                                *)

\* Its time lets a snapshot pass the check of seen once; without one it always does.
Unseen(s) == ~(seen[s.conv] >= s.updated /\ s.updated > 0)

Note(s) == seen' = [seen EXCEPT ![s.conv] = s.updated]

\* What is done with a snapshot that passes: parseSnapshot may find it malformed.
Parse(s, unreadable) ==
  /\ undated' = IF s.updated = 0 THEN undated \cup {s.conv} ELSE undated
  /\ \/ taken' = Append(taken, s) /\ UNCHANGED diagnosed
     \/ unreadable /\ diagnosed' = TRUE /\ UNCHANGED taken

Skip == UNCHANGED <<seen, taken, diagnosed, undated>>

TakeOnce(s, unreadable) ==
  IF seen[s.conv] > 0 THEN Skip ELSE Note(s) /\ Parse(s, unreadable)

TakeWithoutNoting(s, unreadable) ==
  IF Unseen(s) THEN Parse(s, unreadable) /\ UNCHANGED seen ELSE Skip

Take(s, unreadable) == IF Unseen(s) THEN Note(s) /\ Parse(s, unreadable) ELSE Skip

Diagnose == diagnosed' = TRUE /\ UNCHANGED <<seen, taken, undated>>

\* The directory is read, or cannot be.
ReadDir ==
  /\ at = "idle"
  /\ at' = "files"
  /\ before' = [c \in Conversations |-> Len(rows[c].turns)]
  /\ \/ names' = {n \in 1..MaxFiles : files[n] # {}} /\ UNCHANGED diagnosed
     \/ names' = {} /\ diagnosed' = TRUE
  /\ UNCHANGED <<world, hand, left, fallback, seen, taken, undated, cancelled>>

FromArchiveUncreated(snap, mtime) ==
  Snapshot(snap.conv, snap.created, IF snap.updated = 0 THEN mtime ELSE snap.updated, snap.turns)

FromArchive(snap, mtime) ==
  LET updated == IF snap.updated = 0 THEN mtime ELSE snap.updated
  IN Snapshot(snap.conv, IF snap.created = 0 THEN updated ELSE snap.created, updated, snap.turns)

\* A file is read; of an undated one the time is asked for afterwards.
ReadArchive ==
  /\ at = "files"
  /\ ~cancelled /\ hand = {}
  /\ \E n \in names :
       /\ \A k \in names : n <= k
       /\ names' = names \ {n}
       /\ \/ \E file \in files[n] :
               IF file.snap.updated = 0
                 THEN hand' = {[name |-> n, snap |-> file.snap]} /\ Skip
                 ELSE Take(FromArchive(file.snap, file.mtime), TRUE) /\ UNCHANGED hand
          \/ Diagnose /\ UNCHANGED hand
  /\ UNCHANGED <<world, at, left, fallback, cancelled, before>>

\* os.Stat of the file, or its failure, which fileModUnixMS makes the time 0.
ModUnixMS(name) == {0} \cup {file.mtime : file \in files[name]}

DateArchive ==
  /\ \E h \in hand : \E mtime \in ModUnixMS(h.name) : Take(FromArchive(h.snap, mtime), TRUE)
  /\ hand' = {}
  /\ UNCHANGED <<world, at, names, left, fallback, cancelled, before>>

StopReading ==
  /\ at = "files"
  /\ names # {} /\ hand = {}
  /\ cancelled
  /\ at' = "failed"
  /\ Skip
  /\ UNCHANGED <<world, names, hand, left, fallback, cancelled, before>>

\* It is there or not; its time may not be had even so.
StatDatabase ==
  /\ at = "files"
  /\ names = {} /\ hand = {}
  /\ fallback' \in {0, dbTime}
  /\ at' = IF dbTime = 0 THEN "done" ELSE "v2"
  /\ Skip
  /\ UNCHANGED <<world, names, hand, left, cancelled, before>>

\* The rows of a table as one query sees them, with the times that are known.
RowsOf(table) ==
  LET present == {c \in Conversations : rows[c].turns # <<>> /\ (c \in V2 <=> table = "v2")}
      Of(c) == LET bounds == conversationBounds(rows[c].turns, fallback)
               IN IF c \in V2
                  THEN Snapshot(c, rows[c].created, rows[c].updated, rows[c].turns)
                  ELSE Snapshot(c, bounds.first, bounds.last, rows[c].turns)
  IN {Of(c) : c \in present}

After(table) == IF table = "v2" THEN "legacy" ELSE "done"
Scanning(table) == IF table = "v2" THEN "scanV2" ELSE "scanLegacy"

Query(table) ==
  /\ at = table
  /\ \/ ~cancelled /\ left' = RowsOf(table) /\ at' = Scanning(table) /\ UNCHANGED diagnosed
     \/ diagnosed' = TRUE /\ at' = After(table) /\ UNCHANGED left
  /\ UNCHANGED <<world, names, hand, fallback, seen, taken, undated, cancelled, before>>

\* Rows come in any order.
ScanRow(table) ==
  /\ at = Scanning(table)
  /\ \E s \in left :
       /\ left' = left \ {s}
       /\ Take(s, table = "v2") \/ Diagnose
  /\ UNCHANGED <<world, at, names, hand, fallback, cancelled, before>>

\* rows.Err: what ended the query early ends Collect.
EndRows(table) ==
  /\ at = Scanning(table)
  /\ \/ left = {} /\ at' = After(table)
     \/ at' = "failed"
  /\ left' = {}
  /\ Skip
  /\ UNCHANGED <<world, names, hand, fallback, cancelled, before>>

CollectSQLite == \E table \in {"v2", "legacy"} : Query(table) \/ ScanRow(table) \/ EndRows(table)

Kiro     == \E c \in Conversations : StoreTurn(c) \/ Forget(c)
Archiver == (\E c \in Conversations : CopyRow(c)) \/ (\E n \in 1..MaxFiles : WriteArchive(n))
Collect  == ReadDir \/ ReadArchive \/ DateArchive \/ StopReading \/ StatDatabase \/ CollectSQLite

Next == Kiro \/ Archiver \/ Cancel \/ Collect

Spec == Init /\ [][Next]_vars

-----------------------------------------------------------------------------
(* Properties.                                                             *)

Times   == 0..MaxTime
Stored  == [conv : Conversations, created : Times, updated : Times, turns : Seq(Times)]
Dated   == [conv : Conversations, created : 1..clock, updated : 1..clock, turns : Seq(Times)]
Undated == [conv : Conversations, created : 0..clock, updated : {0}, turns : Seq(Times)]

\* Every variable holds a value of its type; a snapshot has both its times, which
\* lie in the past, whatever its archive or its row lacks, or no last one.
TypeOK ==
  /\ clock \in Times /\ dbTime \in 0..clock /\ fallback \in 0..clock
  /\ rows \in [Conversations -> [created : 0..clock, updated : 0..clock, turns : Seq(Times)]]
  /\ copied \in SUBSET Stored
  /\ files \in [1..MaxFiles -> SUBSET [snap : Stored, mtime : 0..clock]]
  /\ cancelled \in BOOLEAN /\ diagnosed \in BOOLEAN
  /\ at \in {"idle", "files", "v2", "scanV2", "legacy", "scanLegacy", "done", "failed"}
  /\ names \in SUBSET (1..MaxFiles)
  /\ hand \in SUBSET [name : 1..MaxFiles, snap : Stored]
  /\ left \in SUBSET (Dated \cup Undated)
  /\ seen \in [Conversations -> 0..clock]
  /\ taken \in Seq(Dated \cup Undated)
  /\ undated \in SUBSET Conversations
  /\ before \in [Conversations -> Nat]

\* Whatever Kiro and the archiver do meanwhile, the snapshots of a conversation
\* are taken from old to new, each of them once, unless a time of one of them
\* could not be had; those of a conversation that has dates of its own always,
\* also by what they contain (the seen map of Collect, fileModUnixMS).
NewestLast ==
  \A i, j \in DOMAIN taken :
    (i < j /\ taken[i].conv = taken[j].conv) =>
      /\ taken[i].conv \in V2 \/ taken[i].conv \notin undated => taken[i].updated < taken[j].updated
      /\ taken[i].conv \in V2 => Len(taken[i].turns) < Len(taken[j].turns)

Archived(c) == \E n \in 1..MaxFiles : \E file \in files[n] : file.snap.conv = c

\* A Collect that succeeds without a diagnostic has taken every turn that was in
\* the database when it began and was not dropped since: of conversations_v2
\* always, of the older table when the conversation was not archived.
NothingLost ==
  (at = "done" /\ ~diagnosed) =>
    \A c \in Conversations :
      (before[c] > 0 /\ (c \in V2 \/ ~Archived(c))) =>
         \E i \in DOMAIN taken : taken[i].conv = c /\ Len(taken[i].turns) >= before[c]
=============================================================================
