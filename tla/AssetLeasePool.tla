--------------------------- MODULE AssetLeasePool ---------------------------
(***************************************************************************)
(* src/src/renderers/pixi/assetLeasePool.ts: reference-counted ownership   *)
(* of asynchronously loaded assets.  The operators and actions here are    *)
(* the pool's; PixiCanvasRenderer adds the client that calls acquire,      *)
(* release and releaseAll.                                                 *)
(*                                                                         *)
(* Calls of acquire are numbered.  An entry is known by the number of the  *)
(* call that created it.  Promise continuations run one after another in   *)
(* the order they were attached; each is a step.                           *)
(***************************************************************************)
EXTENDS Integers, FiniteSets

CONSTANTS
  Key,          \* the asset keys: resource URIs
  MaxAcquires   \* bound: calls of acquire in one behaviour

Acquire == 1 .. MaxAcquires
None    == 0      \* no entry, no call
NoKey   == "null" \* JavaScript's null where a key may stand

VARIABLES
  nextAcquire,
  entries,     \* the map from a key to its entry
  entryKey, refs,
  promise,     \* how far the load of the entry is
  prior,       \* the entry whose unload the load waits for
  unloading,   \* how far the unload of the entry is
  joined       \* the entry whose promise the continuation of a call waits for

poolVars == <<nextAcquire, entries, entryKey, refs, promise, prior,
              unloading, joined>>

PoolTypeOK ==
  /\ nextAcquire \in 1 .. MaxAcquires + 1
  /\ entries \in [Key -> Acquire \cup {None}]
  /\ entryKey \in [Acquire -> Key \cup {NoKey}]
  /\ refs \in [Acquire -> Nat]
  /\ promise \in [Acquire -> {"none", "waiting", "loading", "loaded", "failed"}]
  /\ prior \in [Acquire -> Acquire \cup {None}]
  /\ unloading \in [Acquire -> {"no", "chained", "unloaded", "done"}]
  /\ joined \in [Acquire -> Acquire \cup {None}]

PoolInit ==
  /\ nextAcquire = 1
  /\ entries = [k \in Key |-> None]
  /\ entryKey = [a \in Acquire |-> NoKey]
  /\ refs = [a \in Acquire |-> 0]
  /\ promise = [a \in Acquire |-> "none"]
  /\ prior = [a \in Acquire |-> None]
  /\ unloading = [a \in Acquire |-> "no"]
  /\ joined = [a \in Acquire |-> None]

-----------------------------------------------------------------------------
(* An entry that is not being unloaded takes one more reference; otherwise *)
(* a new entry replaces it, whose load waits for that unload.              *)
Join(k, a) ==
  /\ refs' = [refs EXCEPT ![entries[k]] = @ + 1]
  /\ joined' = [joined EXCEPT ![a] = entries[k]]
  /\ UNCHANGED <<entries, entryKey, promise, prior>>

AddEntry(k, a) ==
  /\ entries' = [entries EXCEPT ![k] = a]
  /\ entryKey' = [entryKey EXCEPT ![a] = k]
  /\ refs' = [refs EXCEPT ![a] = 1]
  /\ promise' = [promise EXCEPT ![a] = "waiting"]
  /\ prior' = [prior EXCEPT ![a] = entries[k]]
  /\ joined' = [joined EXCEPT ![a] = a]

(* Faulty: an entry is joined although its unload has been chained.        *)
BugJoinUnloading(k) ==
  LET a == nextAcquire
  IN  /\ a \in Acquire
      /\ nextAcquire' = a + 1
      /\ IF entries[k] # None THEN Join(k, a) ELSE AddEntry(k, a)
      /\ UNCHANGED unloading

acquire(k) ==
  LET a == nextAcquire
  IN  /\ a \in Acquire
      /\ nextAcquire' = a + 1
      /\ IF entries[k] # None /\ unloading[entries[k]] = "no"
           THEN Join(k, a)
           ELSE AddEntry(k, a)
      /\ UNCHANGED unloading

(* Faulty: an entry without references is released once more.              *)
BugReleaseBelowZero(k) ==
  LET e == IF k = NoKey THEN None ELSE entries[k]
  IN  IF e = None
        THEN UNCHANGED <<refs, unloading>>
        ELSE /\ refs' = [refs EXCEPT ![e] = @ - 1]
             /\ unloading' = [unloading EXCEPT ![e] = IF refs[e] = 1 THEN "chained" ELSE @]

(* release: the last reference chains the unload behind the load.  NoKey   *)
(* stands for a caller that holds nothing to release.                      *)
release(k) ==
  LET e == IF k = NoKey THEN None ELSE entries[k]
  IN  IF e = None \/ refs[e] = 0
        THEN UNCHANGED <<refs, unloading>>
        ELSE /\ refs' = [refs EXCEPT ![e] = @ - 1]
             /\ unloading' = [unloading EXCEPT ![e] = IF refs[e] = 1 THEN "chained" ELSE @]

releaseAll ==
  LET held == {e \in Acquire : refs[e] > 0 /\ \E k \in Key : entries[k] = e}
  IN  /\ refs' = [e \in Acquire |-> IF e \in held THEN 0 ELSE refs[e]]
      /\ unloading' = [e \in Acquire |-> IF e \in held THEN "chained" ELSE unloading[e]]

-----------------------------------------------------------------------------
Forget(e) ==
  entries' = [k \in Key |-> IF entries[k] = e THEN None ELSE entries[k]]

(* backend.load is called once the unload of the prior entry has settled.  *)
StartLoad(e) ==
  /\ promise[e] = "waiting"
  /\ prior[e] \in {None} \cup {d \in Acquire : unloading[d] = "done"}
  /\ promise' = [promise EXCEPT ![e] = "loading"]
  /\ prior' = [prior EXCEPT ![e] = None]
  /\ UNCHANGED <<nextAcquire, entries, entryKey, refs, unloading, joined>>

LoadResolves(e) ==
  /\ promise[e] = "loading"
  /\ promise' = [promise EXCEPT ![e] = "loaded"]
  /\ UNCHANGED <<nextAcquire, entries, entryKey, refs, prior, unloading, joined>>

(* The load fails; the catch handler forgets the entry, references and     *)
(* all, before any consumer hears of it.                                   *)
LoadRejects(e) ==
  /\ promise[e] = "loading"
  /\ promise' = [promise EXCEPT ![e] = "failed"]
  /\ Forget(e)
  /\ refs' = [refs EXCEPT ![e] = 0]
  /\ UNCHANGED <<nextAcquire, entryKey, prior, unloading, joined>>

(* Calls whose continuation was attached to the promise of e and waits.    *)
Undelivered(e) == {a \in Acquire : joined[a] = e}

(* backend.unload destroys the asset, after every continuation attached    *)
(* before release chained it.                                              *)
Unload(e) ==
  /\ unloading[e] = "chained"
  /\ promise[e] = "loaded"
  /\ Undelivered(e) = {}
  /\ unloading' = [unloading EXCEPT ![e] = "unloaded"]
  /\ UNCHANGED <<nextAcquire, entries, entryKey, refs, promise, prior, joined>>

(* The unload has settled (a failed load skips it); the finally handler    *)
(* forgets the entry if the map still holds it.                            *)
EndUnload(e) ==
  /\ \/ unloading[e] = "unloaded"
     \/ unloading[e] = "chained" /\ promise[e] = "failed" /\ Undelivered(e) = {}
  /\ unloading' = [unloading EXCEPT ![e] = "done"]
  /\ Forget(e)
  /\ UNCHANGED <<nextAcquire, entryKey, refs, promise, prior, joined>>

PoolStep ==
  \/ \E e \in Acquire : StartLoad(e)
  \/ \E e \in Acquire : LoadResolves(e)
  \/ \E e \in Acquire : LoadRejects(e)
  \/ \E e \in Acquire : Unload(e)
  \/ \E e \in Acquire : EndUnload(e)

(* Whatever the pool or its backend owes for an entry is done.             *)
PoolStepOf(e) ==
  StartLoad(e) \/ LoadResolves(e) \/ LoadRejects(e) \/ Unload(e) \/ EndUnload(e)
=============================================================================
