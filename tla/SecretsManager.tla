--------------------------- MODULE SecretsManager ---------------------------
(***************************************************************************)
(* The AWS Secrets Manager provider of omnivault                           *)
(* (omnivault/secretsmanager/secretsmanager.go).                           *)
(*                                                                         *)
(* Goroutines call the exported methods of Provider values; Home[g] is the *)
(* Provider that goroutine g uses.  Every Provider has its own RWMutex and *)
(* its own closed flag, and all of them talk to one Secrets Manager        *)
(* account.  A method is a chain of steps: take the lock, test closed, one *)
(* step for each request to the service, release the lock and answer.      *)
(* What goes on between two requests is local to the goroutine.  When the  *)
(* response to a request is lost the SDK sends the request again, up to    *)
(* MaxAttempts times.  It puts a token on the requests that create a       *)
(* version, by which the service knows them again; DeleteSecret has none.  *)
(*                                                                         *)
(* A secret is the set of identifiers of its versions.  Identifiers are    *)
(* given out in increasing order, so the one labelled AWSCURRENT is the    *)
(* largest.  What a version holds (the JSON text, the fields) is left out: *)
(* an answer names the version that was read.                              *)
(***************************************************************************)
EXTENDS Naturals, FiniteSets, GoRWMutex

CONSTANTS Goroutines,   \* callers
          Providers,    \* Provider values, all on the same account
          Home,         \* Home[g]: the Provider goroutine g calls
          Menu,         \* Menu[g]: the methods goroutine g may call
          Paths,        \* names of secrets
          Matches,      \* Matches[p]: the names that begin with p
          Rank,         \* the order in which ListSecrets returns names
          PageSize,     \* names on one page of ListSecrets
          MaxAttempts,  \* times the SDK sends one request, at most
          MaxVersions   \* bound: calls that may create a version

ReadOpsWithSet == {"Set", "Get", "Exists", "List", "GetVersion", "ListVersions"}

WriteOps == {"Set", "Delete", "Rotate", "Close"}                  \* p.mu.Lock
ReadOps  == {"Get", "Exists", "List", "GetVersion", "ListVersions"} \* p.mu.RLock
Ops      == WriteOps \cup ReadOps

Ids == 1..MaxVersions

NoCall == [op |-> "none", path |-> CHOOSE p \in Paths : TRUE, id |-> 0]

ASSUME SMAssumption ==
  /\ Home \in [Goroutines -> Providers]
  /\ Menu \in [Goroutines -> SUBSET Ops]
  /\ Matches \in [Paths -> SUBSET Paths]
  /\ Paths # {}
  /\ Rank \in [Paths -> Nat \ {0}]
  /\ PageSize \in Nat \ {0}
  /\ MaxAttempts \in Nat \ {0}
  /\ MaxVersions \in Nat
  /\ NoWriter \notin Goroutines

VARIABLES
  rw,        \* [Providers -> lock]: Provider.mu
  closed,    \* [Providers -> BOOLEAN]: Provider.closed
  secrets,   \* service: [Paths -> SUBSET Ids], {} when there is no such secret
  nextId,    \* service: the next version identifier
  rotating,  \* service: [Paths -> Nat], rotations whose function has not finished
  at,        \* [Goroutines -> step]
  call,      \* [Goroutines -> [op, path, id]]: method and arguments
  res,       \* [Goroutines -> outcome of the last call]
  ans,       \* [Goroutines -> SUBSET (Paths \cup Ids)]: what the last call returned
  cursor,    \* [Goroutines -> Nat]: NextToken of a List in progress
  tries,     \* [Goroutines -> Nat]: responses lost by the call in progress
  token,     \* [Goroutines -> SUBSET Nat]: what a lost try of its Set stored
  issued     \* calls so far that may create a version, at most MaxVersions

service == <<secrets, nextId, rotating>>
vars == <<rw, closed, secrets, nextId, rotating,
          at, call, res, ans, cursor, tries, token, issued>>

WriteSteps == {"describe", "put", "create", "delete", "rotate"}
ReadSteps  == {"get", "exists", "page", "getVersion", "listVersions"}
Steps == {"idle", "lock", "rlock", "relock", "done"} \cup WriteSteps \cup ReadSteps

\* "notfound" covers ErrSecretNotFound and ErrVersionNotFound, "conflict" a
\* write the service refuses because the secret came to be or went away since
\* it was described, "fault" any other failure of a request.
Outcomes == {"none", "ok", "closed", "notfound", "conflict", "fault"}

Path(g)       == call[g].path
Current(p, i) == i \in secrets[p] /\ \A j \in secrets[p] : j <= i

\* The request after the closed test.
FirstRequestOfDeleteDescribes(o) ==
  CASE o \in {"Set", "Delete"} -> "describe"
    [] o = "Rotate" -> "rotate"         [] o = "Get" -> "get"
    [] o = "Exists" -> "exists"         [] o = "List" -> "page"
    [] o = "GetVersion" -> "getVersion" [] OTHER -> "listVersions"

FirstRequest(o) ==
  CASE o = "Set" -> "describe"          [] o = "Delete" -> "delete"
    [] o = "Rotate" -> "rotate"         [] o = "Get" -> "get"
    [] o = "Exists" -> "exists"         [] o = "List" -> "page"
    [] o = "GetVersion" -> "getVersion" [] OTHER -> "listVersions"

Goto(g, s) == at' = [at EXCEPT ![g] = s]

Answer(g, r, a) ==
  /\ Goto(g, "done")
  /\ res' = [res EXCEPT ![g] = r]
  /\ ans' = [ans EXCEPT ![g] = a]
  /\ UNCHANGED <<call, cursor, tries, token, issued>>

\* Return from a method: the deferred RUnlock, or Unlock, and the answer.
ReturnRead(g, r, a)  == /\ rw' = [rw EXCEPT ![Home[g]] = RUnlock(@, g)]
                        /\ Answer(g, r, a)
ReturnWrite(g, r, a) == /\ rw' = [rw EXCEPT ![Home[g]] = Unlock(@, g)]
                        /\ Answer(g, r, a)

-----------------------------------------------------------------------------
(* What the service does with a request.                                   *)

AddVersion(p) ==
  /\ secrets' = [secrets EXCEPT ![p] = @ \cup {nextId}]
  /\ nextId' = nextId + 1
  /\ UNCHANGED rotating

RemoveSecret(p) ==
  /\ secrets' = [secrets EXCEPT ![p] = {}]
  /\ rotating' = [rotating EXCEPT ![p] = 0]
  /\ UNCHANGED nextId

\* Secrets after the cursor, and those of them that fit on one page.
Rest(c) == {p \in Paths : secrets[p] # {} /\ Rank[p] > c}
Page(c) == {p \in Rest(c) :
              Cardinality({q \in Rest(c) : Rank[q] < Rank[p]}) < PageSize}

\* The versions ListSecretVersionIds returns when it is not asked for
\* deprecated ones: those labelled AWSCURRENT and AWSPREVIOUS.
Labelled(p) == {i \in secrets[p] : Cardinality({j \in secrets[p] : j > i}) < 2}
-----------------------------------------------------------------------------
Init ==
  /\ rw = [r \in Providers |-> Unlocked]
  /\ closed = [r \in Providers |-> FALSE]
  /\ secrets = [p \in Paths |-> {}]
  /\ nextId = 1
  /\ rotating = [p \in Paths |-> 0]
  /\ at = [g \in Goroutines |-> "idle"]
  /\ call = [g \in Goroutines |-> NoCall]
  /\ res = [g \in Goroutines |-> "none"]
  /\ ans = [g \in Goroutines |-> {}]
  /\ cursor = [g \in Goroutines |-> 0]
  /\ tries = [g \in Goroutines |-> 0]
  /\ token = [g \in Goroutines |-> {}]
  /\ issued = 0

CreatesVersion(o) == o \in {"Set", "Rotate"}

\* A method is entered; a reader asks for the lock at once.
Invoke(g) ==
  /\ at[g] = "idle"
  /\ \E o \in Menu[g], p \in Paths, i \in Ids \cup {0} :
       /\ (i # 0) <=> (o = "GetVersion")
       /\ CreatesVersion(o) => issued < MaxVersions
       /\ issued' = IF CreatesVersion(o) THEN issued + 1 ELSE issued
       /\ call' = [call EXCEPT ![g] = [op |-> o, path |-> p, id |-> i]]
       /\ IF o \in ReadOps
          THEN Goto(g, "rlock") /\ rw' = [rw EXCEPT ![Home[g]] = RLock(@, g)]
          ELSE Goto(g, "lock") /\ UNCHANGED rw
  /\ UNCHANGED <<closed, service, res, ans, cursor, tries, token>>

\* p.mu.Lock: become the announced writer (the wait for readers is EnterWrite).
AnnounceWriter(g) ==
  /\ at[g] = "lock"
  /\ CanLock(rw[Home[g]])
  /\ rw' = [rw EXCEPT ![Home[g]] = Lock(@, g)]
  /\ UNCHANGED <<closed, service, at, call, res, ans, cursor, tries, token, issued>>

\* The lock is held: Close sets the flag, the others test it.
EnterWrite(g) ==
  /\ at[g] = "lock"
  /\ HoldsWrite(rw[Home[g]], g)
  /\ \/ /\ call[g].op = "Close"
        /\ closed' = [closed EXCEPT ![Home[g]] = TRUE]
        /\ ReturnWrite(g, "ok", {})
     \/ /\ call[g].op # "Close"
        /\ closed[Home[g]]
        /\ ReturnWrite(g, "closed", {})
        /\ UNCHANGED closed
     \/ /\ call[g].op # "Close"
        /\ ~closed[Home[g]]
        /\ Goto(g, FirstRequest(call[g].op))
        /\ UNCHANGED <<rw, closed, call, res, ans, cursor, tries, token, issued>>
  /\ UNCHANGED service

EnterRead(g) ==
  /\ at[g] = "rlock"
  /\ HoldsRead(rw[Home[g]], g)
  /\ \/ /\ closed[Home[g]]
        /\ ReturnRead(g, "closed", {})
     \/ /\ ~closed[Home[g]]
        /\ Goto(g, IF call[g].op = "Rotate" THEN "get" ELSE FirstRequest(call[g].op))
        /\ UNCHANGED <<rw, call, res, ans, cursor, tries, token, issued>>
  /\ UNCHANGED <<closed, service>>

\* Set, first request: existsUnlocked.
DescribeSecret(g) ==
  /\ at[g] = "describe"
  /\ \/ /\ Goto(g, IF secrets[Path(g)] # {} THEN "put" ELSE "create")
        /\ UNCHANGED <<rw, call, res, ans, cursor, tries, token, issued>>
     \/ ReturnWrite(g, "fault", {})
  /\ UNCHANGED <<closed, service>>

\* A write was carried out, its response is lost, and the SDK sends it again.
TryAgain(g) ==
  /\ tries[g] + 1 < MaxAttempts
  /\ tries' = [tries EXCEPT ![g] = @ + 1]
  /\ UNCHANGED <<rw, at, call, res, ans, cursor, issued>>

\* The secret has the version that an earlier try stored.
Stored(g) == token[g] \cap secrets[Path(g)] # {}

\* What becomes of a try that creates a version.  A request that reports a
\* failure may have been carried out.  The service stores no second version for
\* a token it knows, and forgets a token with its version: versions are named
\* by the moment they are stored, so one that is stored again has a new name.
StoreVersion(g, allowed) ==
  \/ /\ allowed /\ ~Stored(g)
     /\ AddVersion(Path(g))
     /\ \/ \E r \in {"ok", "fault"} : ReturnWrite(g, r, {})
        \/ TryAgain(g) /\ token' = [token EXCEPT ![g] = {nextId}]
  \/ /\ Stored(g)
     /\ \/ \E r \in {"ok", "fault"} : ReturnWrite(g, r, {})
        \/ TryAgain(g) /\ UNCHANGED token
     /\ UNCHANGED service
  \/ /\ ~allowed /\ ~Stored(g)
     /\ ReturnWrite(g, "conflict", {})
     /\ UNCHANGED service
  \/ ReturnWrite(g, "fault", {}) /\ UNCHANGED service

\* Set, second request.
PutSecretValue(g) ==
  /\ at[g] = "put"
  /\ StoreVersion(g, secrets[Path(g)] # {})
  /\ UNCHANGED closed

CreateSecret(g) ==
  /\ at[g] = "create"
  /\ StoreVersion(g, secrets[Path(g)] = {})
  /\ UNCHANGED closed

\* Delete: a missing secret counts as deleted.
DeleteSecretIgnoringErrors(g) ==
  /\ at[g] = "delete"
  /\ \/ RemoveSecret(Path(g))
     \/ UNCHANGED service
  /\ ReturnWrite(g, "ok", {})
  /\ UNCHANGED closed

\* No token: what has been set since the first try is deleted by the next one.
DeleteSecret(g) ==
  /\ at[g] = "delete"
  /\ \/ /\ RemoveSecret(Path(g))
        /\ \/ \E r \in {"ok", "fault"} : ReturnWrite(g, r, {})
           \/ TryAgain(g) /\ UNCHANGED token
     \/ ReturnWrite(g, "fault", {}) /\ UNCHANGED service
  /\ UNCHANGED closed

\* Get, and the p.Get at the end of Rotate.
GetSecretValue(g) ==
  /\ at[g] = "get"
  /\ \/ \E i \in secrets[Path(g)] :
          Current(Path(g), i) /\ ReturnRead(g, "ok", {i})
     \/ /\ secrets[Path(g)] = {}
        /\ ReturnRead(g, "notfound", {})
     \/ ReturnRead(g, "fault", {})
  /\ UNCHANGED <<closed, service>>

GetVersion(g) ==
  /\ at[g] = "getVersion"
  /\ \/ /\ call[g].id \in secrets[Path(g)]
        /\ ReturnRead(g, "ok", {call[g].id})
     \/ /\ call[g].id \notin secrets[Path(g)]
        /\ ReturnRead(g, "notfound", {})
     \/ ReturnRead(g, "fault", {})
  /\ UNCHANGED <<closed, service>>

Exists(g) ==
  /\ at[g] = "exists"
  /\ \/ ReturnRead(g, "ok", IF secrets[Path(g)] # {} THEN {Path(g)} ELSE {})
     \/ ReturnRead(g, "fault", {})
  /\ UNCHANGED <<closed, service>>

\* List, one page: keep the names that begin with the prefix, and go on while
\* the service says there is more.
ListFirstPageOnly(g) ==
  /\ at[g] = "page"
  /\ ReturnRead(g, "ok", Page(0) \cap Matches[Path(g)])
  /\ UNCHANGED <<closed, service>>

ListPage(g) ==
  /\ at[g] = "page"
  /\ LET page  == Page(cursor[g])
         names == ans[g] \cup (page \cap Matches[Path(g)])
     IN \/ /\ page # Rest(cursor[g])
           /\ \E last \in page :
                /\ \A p \in page : Rank[p] <= Rank[last]
                /\ cursor' = [cursor EXCEPT ![g] = Rank[last]]
           /\ ans' = [ans EXCEPT ![g] = names]
           /\ UNCHANGED <<rw, at, call, res, tries, token, issued>>
        \/ /\ page = Rest(cursor[g])
           /\ ReturnRead(g, "ok", names)
        \/ ReturnRead(g, "fault", {})
  /\ UNCHANGED <<closed, service>>

ListVersions(g) ==
  /\ at[g] = "listVersions"
  /\ \/ /\ secrets[Path(g)] # {}
        /\ ReturnRead(g, "ok", Labelled(Path(g)))
     \/ ReturnRead(g, "fault", {})
  /\ UNCHANGED <<closed, service>>

\* Rotate, first half: the service accepts the rotation, the lock is released
\* and p.Get is still to be called.  A missing secret is a fault here: Rotate
\* does not translate the error.  Whether the service knows the token of a
\* later try (the secret may have been deleted and created since) is left open.
RotateSecretHoldingLock(g) ==
  /\ at[g] = "rotate"
  /\ secrets[Path(g)] # {}
  /\ rotating' = [rotating EXCEPT ![Path(g)] = @ + 1]
  /\ Goto(g, "relock")
  /\ UNCHANGED <<rw, closed, secrets, nextId, call, res, ans, cursor, tries, token, issued>>

RotateSecret(g) ==
  /\ at[g] = "rotate"
  /\ \/ /\ secrets[Path(g)] # {}
        /\ \/ rotating' = [rotating EXCEPT ![Path(g)] = @ + 1]
           \/ tries[g] > 0 /\ UNCHANGED rotating
        /\ \/ /\ rw' = [rw EXCEPT ![Home[g]] = Unlock(@, g)]
              /\ Goto(g, "relock")
              /\ UNCHANGED <<call, res, ans, cursor, tries, token, issued>>
           \/ ReturnWrite(g, "fault", {})
           \/ TryAgain(g) /\ UNCHANGED token
     \/ ReturnWrite(g, "fault", {}) /\ UNCHANGED rotating
  /\ UNCHANGED <<closed, secrets, nextId>>

\* Rotate, second half: p.Get takes the read lock anew.
GetAfterRotateUnlocked(g) ==
  /\ at[g] = "relock"
  /\ Goto(g, "get")
  /\ UNCHANGED <<rw, closed, service, call, res, ans, cursor, tries, token, issued>>

GetAfterRotate(g) ==
  /\ at[g] = "relock"
  /\ rw' = [rw EXCEPT ![Home[g]] = RLock(@, g)]
  /\ Goto(g, "rlock")
  /\ UNCHANGED <<closed, service, call, res, ans, cursor, tries, token, issued>>

\* The caller has its answer and forgets it.
Return(g) ==
  /\ at[g] = "done"
  /\ Goto(g, "idle")
  /\ call' = [call EXCEPT ![g] = NoCall]
  /\ res' = [res EXCEPT ![g] = "none"]
  /\ ans' = [ans EXCEPT ![g] = {}]
  /\ cursor' = [cursor EXCEPT ![g] = 0]
  /\ tries' = [tries EXCEPT ![g] = 0]
  /\ token' = [token EXCEPT ![g] = {}]
  /\ UNCHANGED <<rw, closed, service, issued>>

\* The rotation function of the account stores the new version.
FinishRotation(p) ==
  /\ rotating[p] > 0
  /\ secrets' = [secrets EXCEPT ![p] = @ \cup {nextId}]
  /\ nextId' = nextId + 1
  /\ rotating' = [rotating EXCEPT ![p] = @ - 1]
  /\ UNCHANGED <<rw, closed, at, call, res, ans, cursor, tries, token, issued>>

\* A request of the method in progress, whichever it is.
Request(g) ==
  \/ DescribeSecret(g) \/ PutSecretValue(g) \/ CreateSecret(g)
  \/ DeleteSecret(g)   \/ RotateSecret(g)
  \/ GetSecretValue(g) \/ GetVersion(g)     \/ Exists(g)
  \/ ListPage(g)       \/ ListVersions(g)

Progress(g) ==
  AnnounceWriter(g) \/ EnterWrite(g) \/ EnterRead(g) \/ Request(g)
    \/ GetAfterRotate(g) \/ Return(g)

Next ==
  \/ \E g \in Goroutines : Invoke(g) \/ Progress(g)
  \/ \E p \in Paths : FinishRotation(p)

Spec == Init /\ [][Next]_vars

\* Goroutines are scheduled and the service answers each request in the end
\* (with a failure if need be): weak fairness.  A sync.Mutex hands itself over
\* to the longest waiter once that one is starved, so a writer that is often
\* able to announce itself does: strong fairness.  Nobody has to call a method,
\* and a rotation function need not finish.
Fairness ==
  \A g \in Goroutines : WF_vars(Progress(g)) /\ SF_vars(AnnounceWriter(g))

FairSpec == Spec /\ Fairness
-----------------------------------------------------------------------------
(* Properties.                                                             *)

\* The methods a step belongs to.
OpsAt(s) ==
  CASE s = "idle" -> {"none"}
    [] s = "done" -> Ops
    [] s = "lock" -> WriteOps
    [] s = "rlock" -> ReadOps \cup {"Rotate"}
    [] s \in {"rotate", "relock"} -> {"Rotate"}
    [] s = "get" -> {"Get", "Rotate"}
    [] s = "delete" -> {"Delete"}
    [] s = "exists" -> {"Exists"}
    [] s = "page" -> {"List"}
    [] s = "getVersion" -> {"GetVersion"}
    [] s = "listVersions" -> {"ListVersions"}
    [] s \in {"describe", "put", "create"} -> {"Set"}

ServiceOK ==
  /\ secrets \in [Paths -> SUBSET Nat]
  /\ nextId \in Nat
  /\ rotating \in [Paths -> Nat]

CallersOK ==
  /\ rw \in [Providers -> Locks(Goroutines)]
  /\ at \in [Goroutines -> Steps]
  /\ call \in [Goroutines -> [op : Ops \cup {"none"}, path : Paths, id : Nat]]
  /\ res \in [Goroutines -> Outcomes]
  /\ ans \in [Goroutines -> SUBSET (Paths \cup Nat)]
  /\ cursor \in [Goroutines -> Nat]
  /\ tries \in [Goroutines -> Nat]
  /\ token \in [Goroutines -> SUBSET Nat]
  /\ issued \in 0..MaxVersions

ControlOK == \A g \in Goroutines : call[g].op \in OpsAt(at[g])

\* Every variable has its type, and a goroutine is only ever at a step of the
\* method it called (a step of another method would release the wrong lock).
TypeOK ==
  /\ closed \in [Providers -> BOOLEAN]
  /\ ServiceOK
  /\ CallersOK
  /\ ControlOK

\* Whoever makes a request holds the lock of its provider the way its method
\* needs it, and no reader that was promised the lock is forgotten.
LockInv ==
  \A g \in Goroutines :
    LET l == rw[Home[g]] IN
    /\ at[g] \in WriteSteps => HoldsWrite(l, g)
    /\ at[g] \in ReadSteps => HoldsRead(l, g)
    /\ at[g] = "rlock" => g \in l.readers \cup l.parked

\* Set looks whether the secret exists and then creates or updates it with a
\* second request.  As long as every caller goes through one Provider, nobody
\* changes the answer in between: the service never refuses the second request
\* because the secret came to be or went away.
SetNeverConflicts ==
  \A g \in Goroutines :
    (\A h \in Goroutines : Home[h] = Home[g]) => res[g] # "conflict"

\* After Close no goroutine is between two requests or about to make one: Close
\* waits for the methods in progress, and a method that waits for the lock
\* finds the provider closed, the p.Get at the end of Rotate included.
ClosedQuiet ==
  \A g \in Goroutines :
    closed[Home[g]] => at[g] \notin WriteSteps \cup ReadSteps

\* Every method returns, whoever else calls and whatever the service answers.
EveryCallReturns ==
  \A g \in Goroutines : at[g] # "idle" ~> at[g] = "idle"

Phase == [g \in Goroutines |-> IF at[g] \in {"idle", "done"} THEN at[g] ELSE "pending"]

\* Only a finished List has an answer; the names collected so far have not been
\* reported.
Reported == [g \in Goroutines |-> IF at[g] = "page" THEN {} ELSE ans[g]]

Vault == INSTANCE VaultSpec WITH store <- secrets, phase <- Phase, ans <- Reported,
           named <- [g \in Goroutines |-> {call[g].id}], AtLeastOnce <- FALSE,
           Rotates <- TRUE

\* The provider keeps the promises of a vault, although Set, List and Rotate make
\* several requests and the SDK repeats one whose response is lost: an answer
\* reports an effect that took place since the call; a version is stored twice
\* only if the first one is gone; a Delete whose response was lost may delete
\* again; a call that is refused has no effect.
VaultSafety == Vault!Spec
=============================================================================
