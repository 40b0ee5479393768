--------------------------- MODULE ParameterStore ---------------------------
(***************************************************************************)
(* The Systems Manager Parameter Store provider of omnivault               *)
(* (omnivault/parameterstore/parameterstore.go).                           *)
(*                                                                         *)
(* The methods take the lock of their Provider as those of SecretsManager  *)
(* do, but each makes one kind of request only: Set is a single            *)
(* PutParameter with Overwrite.  Nothing in that request tells the service *)
(* that it has seen it before, so when the response to a write is lost and *)
(* the SDK tries again the write is carried out again.                     *)
(*                                                                         *)
(* A parameter is the sequence of what its versions hold: the number of a  *)
(* version is its place, and a parameter that is deleted and set again     *)
(* starts at 1.  What a version holds is a number given out in increasing  *)
(* order, and an answer names what was read.                               *)
(***************************************************************************)
EXTENDS Naturals, Sequences, SequencesExt, GoRWMutex

CONSTANTS Goroutines,   \* callers
          Providers,    \* Provider values, all on the same account
          Home,         \* Home[g]: the Provider goroutine g calls
          Menu,         \* Menu[g]: the methods g may call, each with a name or path
          Paths,        \* full names of parameters
          Under,        \* Under[p]: the names below path p
          Rank,         \* the order in which GetParametersByPath returns names
          PageSize,     \* names, or versions, on one page
          MaxAttempts,  \* tries the SDK makes for one request
          MaxSets       \* bound: calls of Set

WriteOps == {"Set", "Delete", "Close"}                              \* p.mu.Lock
ReadOps  == {"Get", "Exists", "List", "GetVersion", "ListVersions"} \* p.mu.RLock
Ops      == WriteOps \cup ReadOps

\* The version numbers callers ask for.
Numbers == 1..MaxSets

NoCall == [op |-> "none", path |-> CHOOSE p \in Paths : TRUE, id |-> 0]

ASSUME PSAssumption ==
  /\ Home \in [Goroutines -> Providers]
  /\ Menu \in [Goroutines -> SUBSET (Ops \X Paths)]
  /\ Under \in [Paths -> SUBSET Paths]
  /\ Paths # {}
  /\ Rank \in [Paths -> Nat \ {0}]
  /\ PageSize \in Nat \ {0}
  /\ MaxAttempts \in Nat \ {0}
  /\ MaxSets \in Nat
  /\ NoWriter \notin Goroutines

VARIABLES
  rw,       \* [Providers -> lock]: Provider.mu
  closed,   \* [Providers -> BOOLEAN]: Provider.closed
  params,   \* service: [Paths -> Seq(Nat)], <<>> when there is no such parameter
  nextId,   \* service: what the next version holds
  at,       \* [Goroutines -> step]
  call,     \* [Goroutines -> [op, path, id]]: method and arguments
  res,      \* [Goroutines -> outcome of the last call]
  ans,      \* [Goroutines -> SUBSET (Paths \cup Nat)]: what the last call returned
  current,  \* [Goroutines -> SUBSET Nat]: of these versions, the one marked Current
  cursor,   \* [Goroutines -> Nat]: NextToken of a listing in progress
  tries,    \* [Goroutines -> Nat]: tries of the request in progress that were lost
  issued    \* calls of Set so far, at most MaxSets

service == <<params, nextId>>
callers == <<at, call, res, ans, current, cursor, tries, issued>>
vars == <<rw, closed, service, callers>>

WriteSteps == {"put", "delete"}
ReadSteps  == {"get", "exists", "page", "getVersion", "history"}
Steps == {"idle", "lock", "rlock", "done"} \cup WriteSteps \cup ReadSteps

\* "notfound" covers ErrSecretNotFound and ErrVersionNotFound, "fault" any other
\* failure of a request, ErrAccessDenied included.
Outcomes == {"none", "ok", "closed", "notfound", "fault"}

Path(g) == call[g].path
Found(p) == params[p] # <<>>

\* The request after the closed test.
FirstRequest(o) ==
  CASE o = "Set" -> "put"               [] o = "Delete" -> "delete"
    [] o = "Get" -> "get"               [] o = "Exists" -> "exists"
    [] o = "List" -> "page"             [] o = "GetVersion" -> "getVersion"
    [] OTHER -> "history"

Goto(g, s) == at' = [at EXCEPT ![g] = s]

Answer(g, r, a) ==
  /\ Goto(g, "done")
  /\ res' = [res EXCEPT ![g] = r]
  /\ ans' = [ans EXCEPT ![g] = a]
  /\ UNCHANGED <<call, cursor, tries, issued>>

\* Return from a method: the deferred RUnlock, or Unlock, and the answer.
ReturnRead(g, r, a)  == /\ rw' = [rw EXCEPT ![Home[g]] = RUnlock(@, g)]
                        /\ Answer(g, r, a)
ReturnWrite(g, r, a) == /\ rw' = [rw EXCEPT ![Home[g]] = Unlock(@, g)]
                        /\ Answer(g, r, a)
                        /\ UNCHANGED current

-----------------------------------------------------------------------------
Init ==
  /\ rw = [r \in Providers |-> Unlocked]
  /\ closed = [r \in Providers |-> FALSE]
  /\ params = [p \in Paths |-> <<>>]
  /\ nextId = 1
  /\ at = [g \in Goroutines |-> "idle"]
  /\ call = [g \in Goroutines |-> NoCall]
  /\ res = [g \in Goroutines |-> "none"]
  /\ ans = [g \in Goroutines |-> {}]
  /\ current = [g \in Goroutines |-> {}]
  /\ cursor = [g \in Goroutines |-> 0]
  /\ tries = [g \in Goroutines |-> 0]
  /\ issued = 0

\* A method is entered; a reader asks for the lock at once.
Invoke(g) ==
  /\ at[g] = "idle"
  /\ \E o \in Ops, p \in Paths, i \in Numbers \cup {0} :
       /\ <<o, p>> \in Menu[g]
       /\ (i # 0) <=> (o = "GetVersion")
       /\ o = "Set" => issued < MaxSets
       /\ issued' = IF o = "Set" THEN issued + 1 ELSE issued
       /\ call' = [call EXCEPT ![g] = [op |-> o, path |-> p, id |-> i]]
       /\ IF o \in ReadOps
          THEN Goto(g, "rlock") /\ rw' = [rw EXCEPT ![Home[g]] = RLock(@, g)]
          ELSE Goto(g, "lock") /\ UNCHANGED rw
  /\ UNCHANGED <<closed, service, res, ans, current, cursor, tries>>

\* p.mu.Lock: become the announced writer (the wait for readers is EnterWrite).
AnnounceWriter(g) ==
  /\ at[g] = "lock"
  /\ CanLock(rw[Home[g]])
  /\ rw' = [rw EXCEPT ![Home[g]] = Lock(@, g)]
  /\ UNCHANGED <<closed, service, callers>>

\* Past the closed test, the first request is next.
Proceed(g) ==
  /\ ~closed[Home[g]]
  /\ Goto(g, FirstRequest(call[g].op))
  /\ UNCHANGED <<rw, call, res, ans, current, cursor, tries, issued>>

\* The lock is held: Close sets the flag, the others test it.
EnterWrite(g) ==
  /\ at[g] = "lock"
  /\ HoldsWrite(rw[Home[g]], g)
  /\ \/ /\ call[g].op = "Close"
        /\ closed' = [closed EXCEPT ![Home[g]] = TRUE]
        /\ ReturnWrite(g, "ok", {})
     \/ /\ call[g].op # "Close"
        /\ \/ closed[Home[g]] /\ ReturnWrite(g, "closed", {})
           \/ Proceed(g)
        /\ UNCHANGED closed
  /\ UNCHANGED service

\* The read lock is released at once instead of deferred.
EnterReadReleasing(g) ==
  /\ at[g] = "rlock"
  /\ HoldsRead(rw[Home[g]], g)
  /\ ~closed[Home[g]]
  /\ Goto(g, FirstRequest(call[g].op))
  /\ rw' = [rw EXCEPT ![Home[g]] = RUnlock(@, g)]
  /\ UNCHANGED <<closed, service, call, res, ans, current, cursor, tries, issued>>

EnterRead(g) ==
  /\ at[g] = "rlock"
  /\ HoldsRead(rw[Home[g]], g)
  /\ \/ closed[Home[g]] /\ ReturnRead(g, "closed", {}) /\ UNCHANGED current
     \/ Proceed(g)
  /\ UNCHANGED <<closed, service>>

\* A write was carried out, its response is lost, and the SDK tries again.
TryAgain(g) ==
  /\ tries[g] + 1 < MaxAttempts
  /\ tries' = [tries EXCEPT ![g] = @ + 1]
  /\ UNCHANGED <<rw, at, call, res, ans, current, cursor, issued>>

\* Set.  A request that reports a failure may have been carried out.
PutParameter(g) ==
  /\ at[g] = "put"
  /\ \/ /\ params' = [params EXCEPT ![Path(g)] = Append(@, nextId)]
        /\ nextId' = nextId + 1
        /\ \/ \E r \in {"ok", "fault"} : ReturnWrite(g, r, {})
           \/ TryAgain(g)
     \/ ReturnWrite(g, "fault", {}) /\ UNCHANGED service
  /\ UNCHANGED closed

\* Delete: a missing parameter counts as deleted.
DeleteParameter(g) ==
  /\ at[g] = "delete"
  /\ \/ /\ params' = [params EXCEPT ![Path(g)] = <<>>]
        /\ \/ \E r \in {"ok", "fault"} : ReturnWrite(g, r, {})
           \/ TryAgain(g)
     \/ ReturnWrite(g, "fault", {}) /\ UNCHANGED params
  /\ UNCHANGED <<closed, nextId>>

\* The answer of a method that reads one parameter.
Read(g, s, found, a) ==
  /\ at[g] = s
  /\ \/ found /\ ReturnRead(g, "ok", a)
     \/ ~found /\ ReturnRead(g, "notfound", {})
     \/ ReturnRead(g, "fault", {})
  /\ UNCHANGED <<closed, service, current>>

GetParameter(g) == Read(g, "get", Found(Path(g)), {Last(params[Path(g)])})

\* GetVersion asks for "name:version".
GetVersionOfLatest(g) ==
  Read(g, "getVersion", Found(Path(g)), {Last(params[Path(g)])})

GetVersion(g) ==
  Read(g, "getVersion", call[g].id \in DOMAIN params[Path(g)], {params[Path(g)][call[g].id]})

\* Exists takes "not found" for an answer.
Exists(g) == Read(g, "exists", TRUE, {p \in {Path(g)} : Found(p)})

\* List, one page of GetParametersByPath: the names below the path that come
\* after the token, and on while the service has more.
Rest(g) == {p \in Under[Path(g)] : Found(p) /\ Rank[p] > cursor[g]}
Page(g) == {p \in Rest(g) : Cardinality({q \in Rest(g) : Rank[q] < Rank[p]}) < PageSize}

ListFirstPageOnly(g) ==
  /\ at[g] = "page"
  /\ ReturnRead(g, "ok", Page(g))
  /\ UNCHANGED <<closed, service, current>>

ListPage(g) ==
  /\ at[g] = "page"
  /\ \/ /\ Page(g) # Rest(g)
        /\ \E last \in Page(g) :
             /\ \A p \in Page(g) : Rank[p] <= Rank[last]
             /\ cursor' = [cursor EXCEPT ![g] = Rank[last]]
        /\ ans' = [ans EXCEPT ![g] = @ \cup Page(g)]
        /\ UNCHANGED <<rw, at, call, res, tries, issued>>
     \/ /\ Page(g) = Rest(g)
        /\ ReturnRead(g, "ok", ans[g] \cup Page(g))
     \/ ReturnRead(g, "fault", {})
  /\ UNCHANGED <<closed, service, current>>

\* ListVersions, one page of GetParameterHistory: versions in order, oldest
\* first, and after the last page the last version seen is marked current.
Upto(g) == IF cursor[g] + PageSize < Len(params[Path(g)])
           THEN cursor[g] + PageSize ELSE Len(params[Path(g)])
Seen(g) == {params[Path(g)][i] : i \in (cursor[g] + 1)..Upto(g)}

MarkedFirst(versions) == {i \in versions : \A j \in versions : i <= j}
Marked(versions)      == {i \in versions : \A j \in versions : j <= i}

HistoryPage(g) ==
  /\ at[g] = "history"
  /\ \/ /\ Found(Path(g)) /\ Upto(g) < Len(params[Path(g)])
        /\ cursor' = [cursor EXCEPT ![g] = Upto(g)]
        /\ ans' = [ans EXCEPT ![g] = @ \cup Seen(g)]
        /\ UNCHANGED <<rw, at, call, res, current, tries, issued>>
     \/ /\ Found(Path(g)) /\ Upto(g) = Len(params[Path(g)])
        /\ ReturnRead(g, "ok", ans[g] \cup Seen(g))
        /\ current' = [current EXCEPT ![g] = Marked(ans[g] \cup Seen(g))]
     \/ ReturnRead(g, "fault", {}) /\ UNCHANGED current
  /\ UNCHANGED <<closed, service>>

\* The caller has its answer and forgets it.
Return(g) ==
  /\ at[g] = "done"
  /\ Goto(g, "idle")
  /\ call' = [call EXCEPT ![g] = NoCall]
  /\ res' = [res EXCEPT ![g] = "none"]
  /\ ans' = [ans EXCEPT ![g] = {}]
  /\ current' = [current EXCEPT ![g] = {}]
  /\ cursor' = [cursor EXCEPT ![g] = 0]
  /\ tries' = [tries EXCEPT ![g] = 0]
  /\ UNCHANGED <<rw, closed, service, issued>>

Request(g) ==
  \/ PutParameter(g) \/ DeleteParameter(g) \/ GetParameter(g) \/ GetVersion(g)
  \/ Exists(g)       \/ ListPage(g)        \/ HistoryPage(g)

Progress(g) ==
  AnnounceWriter(g) \/ EnterWrite(g) \/ EnterRead(g) \/ Request(g) \/ Return(g)

Next == \E g \in Goroutines : Invoke(g) \/ Progress(g)

Spec == Init /\ [][Next]_vars
-----------------------------------------------------------------------------
(* Properties.                                                             *)

\* The methods a step belongs to.
OpsAt(s) ==
  CASE s = "idle" -> {"none"}
    [] s = "done" -> Ops
    [] s = "lock" -> WriteOps
    [] s = "rlock" -> ReadOps
    [] s = "put" -> {"Set"}
    [] s = "delete" -> {"Delete"}
    [] s = "get" -> {"Get"}
    [] s = "exists" -> {"Exists"}
    [] s = "page" -> {"List"}
    [] s = "getVersion" -> {"GetVersion"}
    [] s = "history" -> {"ListVersions"}

ServiceOK == params \in [Paths -> Seq(Nat)] /\ nextId \in Nat

CallersOK ==
  /\ rw \in [Providers -> Locks(Goroutines)]
  /\ at \in [Goroutines -> Steps]
  /\ call \in [Goroutines -> [op : Ops \cup {"none"}, path : Paths, id : Nat]]
  /\ res \in [Goroutines -> Outcomes]
  /\ ans \in [Goroutines -> SUBSET (Paths \cup Nat)]
  /\ current \in [Goroutines -> SUBSET (Paths \cup Nat)]
  /\ cursor \in [Goroutines -> Nat]
  /\ tries \in [Goroutines -> Nat]
  /\ issued \in 0..MaxSets

ControlOK == \A g \in Goroutines : call[g].op \in OpsAt(at[g])

\* Every variable has its type, and a goroutine is only ever at a step of the
\* method it called (a step of another method would release the wrong lock).
TypeOK ==
  /\ closed \in [Providers -> BOOLEAN]
  /\ ServiceOK
  /\ CallersOK
  /\ ControlOK

\* Whoever makes a request holds the lock of its provider the way its method
\* needs it, and no reader that was promised the lock is forgotten.
LockInv ==
  \A g \in Goroutines :
    LET l == rw[Home[g]] IN
    /\ at[g] \in WriteSteps => HoldsWrite(l, g)
    /\ at[g] \in ReadSteps => HoldsRead(l, g)
    /\ at[g] = "rlock" => g \in l.readers \cup l.parked

\* After Close no goroutine makes a request, the further tries of the SDK
\* included: Close waits for the methods in progress, and a method that waits
\* for the lock finds the provider closed.
ClosedQuiet ==
  \A g \in Goroutines :
    closed[Home[g]] => at[g] \notin WriteSteps \cup ReadSteps

\* Nobody deletes the parameter of g's call through another provider.
Undisturbed(g) ==
  \A h \in Goroutines : Home[h] # Home[g] => <<"Delete", Path(g)>> \notin Menu[h]

\* "Mark the latest as current": when ListVersions answers, after all its pages,
\* the version it marks is the one Get would read at that moment, whoever sets
\* the parameter in the meantime.  (The parameter may be deleted through the same
\* provider, not through others.)
CurrentIsNewest ==
  [][\A g \in Goroutines :
       (at[g] = "history" /\ at'[g] = "done" /\ res'[g] = "ok" /\ Undisturbed(g))
       => current'[g] = {Last(params[Path(g)])}]_vars

Phase == [g \in Goroutines |-> IF at[g] \in {"idle", "done"} THEN at[g] ELSE "pending"]
\* Only a finished listing has an answer.
Reported == [g \in Goroutines |-> IF at[g] \in {"page", "history"} THEN {} ELSE ans[g]]
Stored   == [p \in Paths |-> Range(params[p])]
\* The version a number stands for at present.
Named == [g \in Goroutines |->
            {params[Path(g)][i] : i \in {call[g].id} \cap DOMAIN params[Path(g)]}]

Vault == INSTANCE VaultSpec WITH
           store <- Stored, phase <- Phase, ans <- Reported, named <- Named,
           token <- [g \in Goroutines |-> {}], AtLeastOnce <- TRUE, Rotates <- FALSE

\* Nobody deletes a parameter while another provider lists its versions: between
\* two pages the versions would become those of a new parameter.
DeletesApart ==
  \A g, h \in Goroutines, p \in Paths :
    (Home[h] # Home[g] /\ <<"ListVersions", p>> \in Menu[g]) => <<"Delete", p>> \notin Menu[h]

\* The provider keeps the promises of a vault whose lost writes may be carried
\* out again: each method takes effect at one moment between its call and its
\* answer, a listing of versions of several pages included when DeletesApart,
\* and a closed provider refuses.
VaultSafety == Vault!Spec
=============================================================================
