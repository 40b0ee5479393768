----------------------------- MODULE S3Backend ------------------------------
(***************************************************************************)
(* The S3 storage backend of omnistorage (omnistorage/backend/s3/backend.go*)
(* ): the methods of Backend and the writer that NewWriter returns.        *)
(*                                                                         *)
(* Goroutines call Backend values; Home[g] is the one goroutine g uses, all*)
(* are on one bucket.  Unlike the omnivault providers a Backend holds its  *)
(* lock only to look at its closed flag, so the look and the requests that *)
(* follow are steps of their own and Close may come between them.  Move is *)
(* Copy and then Delete, each with a look of its own.                      *)
(*                                                                         *)
(* Paths stand for the keys fullKey gives them (S3Keys is about that).  The*)
(* content of an object is the sequence of chunks that were written to it. *)
(***************************************************************************)
EXTENDS Naturals, Sequences, FiniteSets

CONSTANTS Goroutines,
          Backends,     \* Backend values on one bucket
          Home,         \* Home[g]: the Backend goroutine g calls
          Menu,         \* Menu[g]: the methods goroutine g may call
          Files,        \* keys of objects
          Dirs,         \* keys of directory markers (they end in "/")
          Under,        \* Under[d]: the other keys that begin with marker d
          Rank,         \* the order in which ListObjectsV2 returns keys
          PageSize,     \* keys on one page of ListObjectsV2
          Targets,      \* Targets[o]: the keys given to method o
          Moves,        \* the pairs <<src, dst>> given to Copy and Move
          Initial,      \* keys of the objects there are at first
          Slots,        \* writers that can be made
          MaxChunks     \* bound: calls of Write on all writers

Keys == Files \cup Dirs

WriterOps == {"Write", "CloseWriter"}
PathOps   == {"NewWriter", "NewReader", "Exists", "Stat", "Delete"}
DirOps    == {"Mkdir", "Rmdir", "List"}
PairOps   == {"Copy", "Move"}
Ops       == WriterOps \cup PathOps \cup DirOps \cup PairOps \cup {"Close"}

ASSUME S3Assumption ==
  /\ Keys # {} /\ Slots # {}
  /\ Home \in [Goroutines -> Backends]
  /\ Menu \in [Goroutines -> SUBSET Ops]
  /\ Under \in [Dirs -> SUBSET Keys]
  /\ Rank \in [Keys -> Nat \ {0}]
  /\ PageSize \in Nat \ {0}
  /\ Targets \in [PathOps -> SUBSET Files]
  /\ Moves \subseteq Files \X Files
  /\ Initial \subseteq Keys /\ IsFiniteSet(Initial)
  /\ MaxChunks \in Nat
  /\ \A d \in Dirs : d \notin Under[d]

VARIABLES
  objects,  \* service: the content of every key there is
  closed,   \* [Backends -> BOOLEAN]: Backend.closed
  at,       \* [Goroutines -> step]
  call,     \* [Goroutines -> [op, src, dst, slot]]
  res,      \* [Goroutines -> outcome]
  ans,      \* [Goroutines -> SUBSET Keys]: keys found by List or Rmdir
  cursor,   \* [Goroutines -> Nat]: continuation of a List
  wst,      \* [Slots -> state of the writer]; it is locked while "uploading"
  wkey,     \* [Slots -> Keys]: s3Writer.key
  wbuf,     \* [Slots -> Seq(chunk)]: s3Writer.buffer
  body,     \* [Slots -> Seq(chunk)]: what Close hands to the upload
  issued    \* calls of Write so far, at most MaxChunks

writers == <<wst, wkey, wbuf, body>>
callers == <<at, call, res, ans, cursor, issued>>
vars    == <<objects, closed, writers, callers>>

\* A chunk is named after the goroutine that wrote it, what was in an object
\* at first after its key.
Chunks   == Goroutines \cup Keys
Contents == Seq(Chunks)

WriterStates == {"none", "open", "uploading", "stored", "failed"}
EnterSteps   == {"enter", "enterCopy", "enterDelete"}
Requests     == {"get", "head", "delete", "put", "copy", "list",
                 "listDir", "deleteDir", "upload"}
Steps        == {"idle", "write", "closeWriter", "close", "done"}
                  \cup EnterSteps \cup Requests
Outcomes     == {"none", "ok", "absent", "closed", "cancelled", "notfound",
                 "notempty", "writerclosed", "fault"}

Src(g) == call[g].src
Dst(g) == call[g].dst
Slot(g) == call[g].slot

Goto(g, s) == at' = [at EXCEPT ![g] = s]

Answer(g, r) ==
  /\ Goto(g, "done")
  /\ res' = [res EXCEPT ![g] = r]
  /\ UNCHANGED <<call, ans, cursor, issued>>
-----------------------------------------------------------------------------
(* The bucket.                                                             *)

PutObject(k, c) ==
  objects' = [x \in DOMAIN objects \cup {k} |-> IF x = k THEN c ELSE objects[x]]

RemoveObject(k) == objects' = [x \in DOMAIN objects \ {k} |-> objects[x]]

\* The first n keys of K after position c.
Rest(K, c)     == {k \in K \cap DOMAIN objects : Rank[k] > c}
First(K, c, n) == {k \in Rest(K, c) :
                     Cardinality({x \in Rest(K, c) : Rank[x] < Rank[k]}) < n}

\* Keys that begin with the prefix d, its marker included.
Below(d) == Under[d] \cup {d}
-----------------------------------------------------------------------------
NoCall == [op |-> "none", src |-> CHOOSE k \in Keys : TRUE,
           dst |-> CHOOSE k \in Keys : TRUE, slot |-> CHOOSE w \in Slots : TRUE]

Init ==
  /\ objects = [k \in Initial |-> <<k>>]
  /\ closed = [b \in Backends |-> FALSE]
  /\ at = [g \in Goroutines |-> "idle"]
  /\ call = [g \in Goroutines |-> NoCall]
  /\ res = [g \in Goroutines |-> "none"]
  /\ ans = [g \in Goroutines |-> {}]
  /\ cursor = [g \in Goroutines |-> 0]
  /\ wst = [w \in Slots |-> "none"]
  /\ wkey = [w \in Slots |-> CHOOSE k \in Keys : TRUE]
  /\ wbuf = [w \in Slots |-> <<>>]
  /\ body = [w \in Slots |-> <<>>]
  /\ issued = 0

\* Source and destination; one key serves as both where the method has one.
Arguments(o) ==
  CASE o \in PairOps -> Moves
    [] o \in PathOps -> {<<k, k>> : k \in Targets[o]}
    [] o \in DirOps  -> {<<d, d>> : d \in Dirs}
    [] OTHER          -> {<<NoCall.src, NoCall.dst>>}

FirstStep(o) ==
  CASE o = "Write" -> "write" [] o = "CloseWriter" -> "closeWriter"
    [] o = "Close" -> "close" [] OTHER -> "enter"

\* A method is called.  A writer is called only once NewWriter has returned it.
Invoke(g) ==
  /\ at[g] = "idle"
  /\ \E o \in Menu[g], w \in Slots :
       /\ o \in WriterOps => wst[w] # "none"
       /\ o = "NewWriter" =>
            /\ wst[w] = "none"
            /\ \A h \in Goroutines : call[h].op = "NewWriter" => call[h].slot # w
       /\ o = "Write" => issued < MaxChunks
       /\ issued' = IF o = "Write" THEN issued + 1 ELSE issued
       /\ \E m \in Arguments(o) :
            call' = [call EXCEPT ![g] = [op |-> o, src |-> m[1], dst |-> m[2], slot |-> w]]
       /\ Goto(g, FirstStep(o))
  /\ UNCHANGED <<objects, closed, writers, res, ans, cursor>>

FirstRequestSharingDelete(o) ==
  CASE o = "NewReader" -> "get"  [] o \in {"Exists", "Stat"} -> "head"
    [] o \in {"Delete", "Rmdir"} -> "deleteDir"
    [] o = "List" -> "list"      [] o = "Mkdir" -> "put"
    [] o = "Copy" -> "copy"      [] OTHER -> "enterCopy"

FirstRequest(o) ==
  CASE o = "NewReader" -> "get"  [] o \in {"Exists", "Stat"} -> "head"
    [] o = "Delete" -> "delete"  [] o = "List" -> "list"
    [] o = "Mkdir" -> "put"      [] o = "Rmdir" -> "listDir"
    [] o = "Copy" -> "copy"      [] OTHER -> "enterCopy"

\* checkClosed and ctx.Err, at the top of a method.  Move makes them itself,
\* and Copy and Delete make them again when Move calls them.
Enter(g) ==
  /\ at[g] \in EnterSteps
  /\ \/ /\ closed[Home[g]]
        /\ Answer(g, "closed")
        /\ UNCHANGED writers
     \/ /\ ~closed[Home[g]]
        /\ Answer(g, "cancelled")
        /\ UNCHANGED writers
     \/ /\ ~closed[Home[g]]
        /\ call[g].op # "NewWriter"
        /\ Goto(g, CASE at[g] = "enterCopy" -> "copy"
                     [] at[g] = "enterDelete" -> "delete"
                     [] OTHER -> FirstRequest(call[g].op))
        /\ UNCHANGED <<writers, call, res, ans, cursor, issued>>
     \/ /\ ~closed[Home[g]]
        /\ call[g].op = "NewWriter"
        /\ wst' = [wst EXCEPT ![Slot(g)] = "open"]
        /\ wkey' = [wkey EXCEPT ![Slot(g)] = Src(g)]
        /\ UNCHANGED <<wbuf, body>>
        /\ Answer(g, "ok")
  /\ UNCHANGED <<objects, closed>>

Close(g) ==
  /\ at[g] = "close"
  /\ closed' = [closed EXCEPT ![Home[g]] = TRUE]
  /\ Answer(g, "ok")
  /\ UNCHANGED <<objects, writers>>

\* NewReader.
GetObject(g) ==
  /\ at[g] = "get"
  /\ \E r \in {IF Src(g) \in DOMAIN objects THEN "ok" ELSE "notfound", "fault"} :
       Answer(g, r)
  /\ UNCHANGED <<objects, closed, writers>>

\* A missing object is an answer of Exists and an error of Stat.
Exists(g) ==
  /\ at[g] = "head"
  /\ call[g].op = "Exists"
  /\ \E r \in {IF Src(g) \in DOMAIN objects THEN "ok" ELSE "absent", "fault"} :
       Answer(g, r)
  /\ UNCHANGED <<objects, closed, writers>>

Stat(g) ==
  /\ at[g] = "head"
  /\ call[g].op = "Stat"
  /\ \E r \in {IF Src(g) \in DOMAIN objects THEN "ok" ELSE "notfound", "fault"} :
       Answer(g, r)
  /\ UNCHANGED <<objects, closed, writers>>

\* Delete, and the end of Move.  As everywhere, a request that reports a failure
\* may have been carried out.
DeleteObject(g) ==
  /\ at[g] = "delete"
  /\ \/ RemoveObject(Src(g)) /\ \E r \in {"ok", "fault"} : Answer(g, r)
     \/ UNCHANGED objects /\ Answer(g, "fault")
  /\ UNCHANGED <<closed, writers>>

PutMarker(g) ==
  /\ at[g] = "put"
  /\ \/ PutObject(Src(g), <<>>) /\ \E r \in {"ok", "fault"} : Answer(g, r)
     \/ UNCHANGED objects /\ Answer(g, "fault")
  /\ UNCHANGED <<closed, writers>>

\* Where a finished copy leads to: Copy returns, Move goes on to Delete.
MoveIgnoringCopyErrors(g, r) ==
  IF call[g].op = "Move"
  THEN Goto(g, "enterDelete") /\ UNCHANGED <<call, res, ans, cursor, issued>>
  ELSE Answer(g, r)

AfterCopy(g, r) ==
  IF call[g].op = "Move" /\ r = "ok"
  THEN Goto(g, "enterDelete") /\ UNCHANGED <<call, res, ans, cursor, issued>>
  ELSE Answer(g, r)

\* The service refuses to copy an object to itself.
CopyObject(g) ==
  /\ at[g] = "copy"
  /\ \/ /\ Src(g) \in DOMAIN objects /\ Src(g) # Dst(g)
        /\ PutObject(Dst(g), objects[Src(g)])
        /\ \E r \in {"ok", "fault"} : AfterCopy(g, r)
     \/ /\ Src(g) \notin DOMAIN objects
        /\ AfterCopy(g, "notfound")
        /\ UNCHANGED objects
     \/ AfterCopy(g, "fault") /\ UNCHANGED objects
  /\ UNCHANGED <<closed, writers>>

\* List: one page; before the next one the context is looked at again.
ListFirstPageOnly(g) ==
  /\ at[g] = "list"
  /\ ans' = [ans EXCEPT ![g] = First(Below(Src(g)), 0, PageSize)]
  /\ Goto(g, "done")
  /\ res' = [res EXCEPT ![g] = "ok"]
  /\ UNCHANGED <<objects, closed, writers, call, cursor, issued>>

ListPage(g) ==
  /\ at[g] = "list"
  /\ LET page == First(Below(Src(g)), cursor[g], PageSize) IN
     \/ /\ ans' = [ans EXCEPT ![g] = @ \cup page]
        /\ \/ /\ page = Rest(Below(Src(g)), cursor[g])
              /\ Goto(g, "done")
              /\ res' = [res EXCEPT ![g] = "ok"]
              /\ UNCHANGED cursor
           \/ /\ page # Rest(Below(Src(g)), cursor[g])
              /\ \E last \in page :
                   /\ \A k \in page : Rank[k] <= Rank[last]
                   /\ cursor' = [cursor EXCEPT ![g] = Rank[last]]
              /\ UNCHANGED <<at, res>>
        /\ UNCHANGED <<call, issued>>
     \/ \E r \in {"fault", "cancelled"} : Answer(g, r)
  /\ UNCHANGED <<objects, closed, writers>>

\* Rmdir asks for two keys: the marker and one more.
ListMaxOne == 1
ListMax == 2

ListDir(g) ==
  /\ at[g] = "listDir"
  /\ LET found == First(Below(Src(g)), 0, ListMax) \ {Src(g)} IN
     \/ found # {} /\ Answer(g, "notempty")
     \/ found = {} /\ Goto(g, "deleteDir") /\ UNCHANGED <<call, res, ans, cursor, issued>>
     \/ Answer(g, "fault")
  /\ UNCHANGED <<objects, closed, writers>>

DeleteDir(g) ==
  /\ at[g] = "deleteDir"
  /\ \/ RemoveObject(Src(g)) /\ \E r \in {"ok", "fault"} : Answer(g, r)
     \/ UNCHANGED objects /\ Answer(g, "fault")
  /\ UNCHANGED <<closed, writers>>

\* s3Writer.Write waits for the writer's mutex, which Close holds for as long
\* as it uploads.
Write(g) ==
  /\ at[g] = "write"
  /\ wst[Slot(g)] # "uploading"
  /\ \/ /\ wst[Slot(g)] = "open"
        /\ wbuf' = [wbuf EXCEPT ![Slot(g)] = Append(@, g)]
        /\ Answer(g, "ok")
     \/ /\ wst[Slot(g)] # "open"
        /\ Answer(g, "writerclosed")
        /\ UNCHANGED wbuf
  /\ UNCHANGED <<objects, closed, wst, wkey, body>>

\* s3Writer.Close.  The writer counts as closed from here on, whatever becomes
\* of the upload.  The Backend's closed flag is not looked at.
CloseWriterUnlocked(g) ==
  /\ at[g] = "closeWriter"
  /\ wst[Slot(g)] = "open"
  /\ body' = [body EXCEPT ![Slot(g)] = wbuf[Slot(g)]]
  /\ Goto(g, "upload")
  /\ UNCHANGED <<objects, closed, wst, wkey, wbuf, call, res, ans, cursor, issued>>

CloseWriter(g) ==
  /\ at[g] = "closeWriter"
  /\ wst[Slot(g)] # "uploading"
  /\ \/ /\ wst[Slot(g)] # "open"
        /\ Answer(g, "ok")
        /\ UNCHANGED <<wst, body>>
     \/ /\ wst[Slot(g)] = "open"
        /\ wst' = [wst EXCEPT ![Slot(g)] = "uploading"]
        /\ body' = [body EXCEPT ![Slot(g)] = wbuf[Slot(g)]]
        /\ Goto(g, "upload")
        /\ UNCHANGED <<call, res, ans, cursor, issued>>
  /\ UNCHANGED <<objects, closed, wkey, wbuf>>

Upload(g) ==
  /\ at[g] = "upload"
  /\ \E r \in {"ok", "fault"} :
       /\ Answer(g, r)
       /\ wst' = [wst EXCEPT ![Slot(g)] = IF r = "ok" THEN "stored" ELSE "failed"]
       /\ \/ PutObject(wkey[Slot(g)], body[Slot(g)])
          \/ r = "fault" /\ UNCHANGED objects
  /\ UNCHANGED <<closed, wkey, wbuf, body>>

\* The caller has its answer and forgets it.
Return(g) ==
  /\ at[g] = "done"
  /\ Goto(g, "idle")
  /\ call' = [call EXCEPT ![g] = NoCall]
  /\ res' = [res EXCEPT ![g] = "none"]
  /\ ans' = [ans EXCEPT ![g] = {}]
  /\ cursor' = [cursor EXCEPT ![g] = 0]
  /\ UNCHANGED <<objects, closed, writers, issued>>

Next ==
  \E g \in Goroutines :
    \/ Invoke(g)     \/ Enter(g)      \/ Close(g)     \/ Return(g)
    \/ GetObject(g)  \/ Exists(g)     \/ Stat(g)
    \/ DeleteObject(g) \/ PutMarker(g) \/ CopyObject(g)
    \/ ListPage(g)   \/ ListDir(g)    \/ DeleteDir(g)
    \/ Write(g)      \/ CloseWriter(g) \/ Upload(g)

Spec == Init /\ [][Next]_vars
-----------------------------------------------------------------------------
(* Properties.                                                             *)

BucketOK ==
  /\ DOMAIN objects \subseteq Keys
  /\ \A k \in DOMAIN objects : objects[k] \in Contents

WritersOK ==
  /\ wst \in [Slots -> WriterStates]
  /\ wkey \in [Slots -> Keys]
  /\ wbuf \in [Slots -> Contents]
  /\ body \in [Slots -> Contents]

CallersOK ==
  /\ at \in [Goroutines -> Steps]
  /\ call \in [Goroutines -> [op : Ops \cup {"none"}, src : Keys, dst : Keys, slot : Slots]]
  /\ res \in [Goroutines -> Outcomes]
  /\ ans \in [Goroutines -> SUBSET Keys]
  /\ cursor \in [Goroutines -> Nat]
  /\ issued \in Nat

\* The methods a step belongs to.
OpsAt(s) ==
  CASE s = "idle" -> {"none"}
    [] s = "done" -> Ops
    [] s = "enter" -> PathOps \cup DirOps \cup PairOps
    [] s \in {"enterCopy", "enterDelete"} -> {"Move"}
    [] s = "get" -> {"NewReader"}
    [] s = "head" -> {"Exists", "Stat"}
    [] s = "delete" -> {"Delete", "Move"}
    [] s = "put" -> {"Mkdir"}
    [] s = "copy" -> PairOps
    [] s = "list" -> {"List"}
    [] s \in {"listDir", "deleteDir"} -> {"Rmdir"}
    [] s = "write" -> {"Write"}
    [] s \in {"closeWriter", "upload"} -> {"CloseWriter"}
    [] s = "close" -> {"Close"}

ControlOK == \A g \in Goroutines : call[g].op \in OpsAt(at[g])

\* Every variable has its type, and a goroutine is only ever at a step of the
\* method it called (a request of another method would change other keys).
TypeOK ==
  /\ closed \in [Backends -> BOOLEAN]
  /\ BucketOK
  /\ WritersOK
  /\ CallersOK
  /\ ControlOK

\* What a successful Close has stored is all that Write accepted: no chunk that
\* Write took with a nil error, before or during the upload, is left out of it.
AcceptedIsUploaded ==
  \A w \in Slots : wst[w] \in {"uploading", "stored"} => body[w] = wbuf[w]

\* However many goroutines close one writer, one of them uploads, and it is the
\* only one at it until its upload is over.
OneUpload ==
  \A g, h \in Goroutines :
    at[g] = "upload" =>
      /\ wst[Slot(g)] = "uploading"
      /\ (at[h] = "upload" /\ Slot(h) = Slot(g)) => h = g

\* A writer that goroutines share is uploaded by one of them, with every chunk
\* that Write has accepted from any of them (s3Writer.Write, s3Writer.Close).
WritersSafe == AcceptedIsUploaded /\ OneUpload

\* Move copies before it deletes, and deletes only after its copy succeeded.  So
\* moves among keys that nobody else writes or deletes, and that do not run in a
\* circle, lose nothing, however they interleave, whichever of them fail and
\* whenever the backend is closed: what was in the bucket at first still is,
\* under some key.
MoveConserves ==
  \A k \in Initial : \E x \in DOMAIN objects : objects[x] = <<k>>

\* What that takes of the keys the methods are given, in three parts: nobody
\* else writes or deletes the keys that are moved; every move leads to a greater
\* key of some order, so that none leads back; and no two of the first objects
\* are moved to one key, where one would overwrite the other.
Moved == Initial \cup {m[1] : m \in Moves} \cup {m[2] : m \in Moves}

Undisturbed ==
  Moved \cap (Dirs \cup Targets["NewWriter"] \cup Targets["Delete"]) = {}

Increasing(order) == \A m \in Moves : order[m[1]] < order[m[2]]

Traced(origin) ==
  /\ \A k \in Initial : origin[k] = k
  /\ \A m \in Moves : origin[m[1]] = origin[m[2]]
=============================================================================
