------------------------------ MODULE VaultSpec -----------------------------
(***************************************************************************)
(* What a versioned vault promises its callers (the methods of the         *)
(* omnivault Vault and ExtendedVault interfaces, as the comments on the two*)
(* providers state them): a call takes effect between its invocation and   *)
(* its answer, on a store that is shared by all callers.                   *)
(*   - an answer "ok" means that the effect took place and that what the   *)
(*     call reports was so at that moment;                                 *)
(*   - it took place at one moment, unless responses were lost: then it may*)
(*     have taken place before, also since the call, as if called          *)
(*     repeatedly.  A Set is repeated so only when the version it stored   *)
(*     has been deleted, or when the vault does not know a repeated request*)
(*     again (AtLeastOnce);                                                *)
(*   - a failed call changed the store as it should have or not at all;    *)
(*   - a closed vault refuses, and a refused call has no effect.           *)
(* Versions may also appear on their own, by rotation (Rotates).  How many *)
(* requests a call takes, and every lock, is left open.  So is what List   *)
(* answers: see SecretsListHistory and ParameterHistory.                   *)
(***************************************************************************)
EXTENDS Naturals

CONSTANTS Goroutines, Providers, Home, Paths,
          AtLeastOnce, \* a Set is repeated although its version is there
          Rotates      \* versions also appear by rotation

VARIABLES store,   \* [Paths -> SUBSET Nat]: the versions of each secret
          named,   \* [Goroutines -> SUBSET Nat]: the version call[g].id names, if any
          token,   \* [Goroutines -> SUBSET Nat]: what a lost try of its Set stored
          closed,  \* [Providers -> BOOLEAN]
          phase,   \* [Goroutines -> {"idle", "pending", "done"}]
          call,    \* [Goroutines -> [op, path, id]]
          res,     \* [Goroutines -> outcome]
          ans      \* [Goroutines -> set of versions or names]

vars == <<store, token, closed, phase, call, res, ans>>

Path(g) == call[g].path
Newest(p, i) == i \in store[p] /\ \A j \in store[p] : j <= i

Init ==
  /\ store = [p \in Paths |-> {}]
  /\ token = [g \in Goroutines |-> {}]
  /\ closed = [r \in Providers |-> FALSE]
  /\ phase = [g \in Goroutines |-> "idle"]
  /\ res = [g \in Goroutines |-> "none"]
  /\ ans = [g \in Goroutines |-> {}]

Call(g) ==
  /\ phase[g] = "idle"
  /\ phase' = [phase EXCEPT ![g] = "pending"]
  /\ \A h \in Goroutines \ {g} : call'[h] = call[h]
  /\ UNCHANGED <<store, token, closed, res, ans>>

\* The call of g is answered with r and a.
Answer(g, r, a) ==
  /\ phase[g] = "pending"
  /\ phase' = [phase EXCEPT ![g] = "done"]
  /\ res' = [res EXCEPT ![g] = r]
  /\ ans' = [ans EXCEPT ![g] = a]
  /\ UNCHANGED <<token, call>>

\* A version newer than all the others.
Grow(p) ==
  \E i \in UNION {store'[q] : q \in Paths} :
    /\ \A q \in Paths : \A j \in store[q] : j < i
    /\ store' = [store EXCEPT ![p] = @ \cup {i}]

\* The version an earlier try stored is still there.
Stored(g) == token[g] \cap store[Path(g)] # {}

Effect(g) ==
  \/ call[g].op = "Set" /\ (AtLeastOnce \/ ~Stored(g)) /\ Grow(Path(g))
  \/ call[g].op = "Delete" /\ store' = [store EXCEPT ![Path(g)] = {}]

Write(g) ==
  /\ ~closed[Home[g]]
  /\ Answer(g, "ok", {})
  /\ Effect(g)
  /\ UNCHANGED closed

\* The write is carried out and its response lost; it will be tried again.
LostWrite(g) ==
  /\ ~closed[Home[g]]
  /\ phase[g] = "pending"
  /\ Effect(g)
  /\ token' = IF call[g].op = "Set" /\ ~AtLeastOnce
              THEN [token EXCEPT ![g] = store'[Path(g)] \ store[Path(g)]]
              ELSE token
  /\ UNCHANGED <<closed, phase, call, res, ans>>

\* A later try is answered and has nothing left to do.
Confirm(g) ==
  /\ ~closed[Home[g]]
  /\ call[g].op = "Set" /\ Stored(g)
  /\ Answer(g, "ok", {})
  /\ UNCHANGED <<store, closed>>

Read(g) ==
  /\ ~closed[Home[g]]
  /\ phase[g] = "pending"
  /\ LET a == ans'[g] IN
       /\ CASE call[g].op \in {"Get", "Rotate"} -> \E i \in a : a = {i} /\ Newest(Path(g), i)
            [] call[g].op = "GetVersion"   -> a = named[g] /\ a # {} /\ a \subseteq store[Path(g)]
            [] call[g].op = "Exists"       -> a = {p \in {Path(g)} : store[p] # {}}
            [] call[g].op = "ListVersions" -> /\ a \subseteq store[Path(g)]
                                              /\ \E i \in a : Newest(Path(g), i)
            [] call[g].op = "List"         -> a \subseteq Paths
            [] OTHER                       -> FALSE
       /\ Answer(g, "ok", a)
  /\ UNCHANGED <<store, closed>>

Missing(g) ==
  /\ ~closed[Home[g]]
  /\ Answer(g, "notfound", {})
  /\ \/ call[g].op \in {"Get", "Rotate"} /\ store[Path(g)] = {}
     \/ call[g].op = "GetVersion" /\ named[g] \cap store[Path(g)] = {}
  /\ UNCHANGED <<store, closed>>

Fail(g) ==
  /\ ~closed[Home[g]]
  /\ \/ Answer(g, "conflict", {}) /\ UNCHANGED store
     \/ Answer(g, "fault", {}) /\ (Effect(g) \/ UNCHANGED store)
  /\ UNCHANGED closed

Refuse(g) ==
  /\ closed[Home[g]]
  /\ Answer(g, "closed", {})
  /\ UNCHANGED <<store, closed>>

Close(g) ==
  /\ call[g].op = "Close"
  /\ closed' = [closed EXCEPT ![Home[g]] = TRUE]
  /\ Answer(g, "ok", {})
  /\ UNCHANGED store

Return(g) ==
  /\ phase[g] = "done"
  /\ phase' = [phase EXCEPT ![g] = "idle"]
  /\ res' = [res EXCEPT ![g] = "none"]
  /\ ans' = [ans EXCEPT ![g] = {}]
  /\ token' = [token EXCEPT ![g] = {}]
  /\ \A h \in Goroutines \ {g} : call'[h] = call[h]
  /\ UNCHANGED <<store, closed>>

\* A rotation of a secret that exists.
Rotation(p) ==
  /\ Rotates
  /\ store[p] # {}
  /\ Grow(p)
  /\ UNCHANGED <<token, closed, phase, call, res, ans>>

Next ==
  \/ \E g \in Goroutines : \/ Call(g) \/ Write(g) \/ LostWrite(g) \/ Confirm(g)
                           \/ Read(g) \/ Missing(g) \/ Fail(g)
                           \/ Refuse(g) \/ Close(g) \/ Return(g)
  \/ \E p \in Paths : Rotation(p)

Spec == Init /\ [][Next]_vars
=============================================================================
