-------------------------- MODULE ThumbnailBackend --------------------------
(***************************************************************************)
(* src/src-tauri/src/ipc/representation.rs: the commands request_thumbnail,*)
(* cancel_thumbnail_request and release_representation over the request    *)
(* registry, the media resource registry and the thumbnail cache.          *)
(*                                                                         *)
(* Each call works on a thread of its own.  A step of it is one use of     *)
(* shared state: one critical section, one access to the disk.  A check of *)
(* the cancellation token is part of the step that follows it; nothing     *)
(* that step does could tell a cancellation in between from a later one.   *)
(***************************************************************************)
EXTENDS Integers, FiniteSets, Sequences

CONSTANTS
  Call, Path,
  NoPath,           \* the value of a path that is not set
  MaxPendingCancellations,
  MaintainEvery, MaxFiles, TargetFiles,
  MaxGeneration     \* bound: sessions begun

ASSUME BackendAssumption ==
  /\ IsFiniteSet(Call) /\ IsFiniteSet(Path) /\ NoPath \notin Path
  /\ MaxPendingCancellations \in Nat
  /\ MaintainEvery \in Nat \ {0}
  /\ MaxFiles \in Nat \ {0}
  /\ TargetFiles \in 0 .. MaxFiles
  /\ MaxGeneration \in Nat \ {0}

MaxKey == Cardinality(Call) - 1   \* every call registers at most one key

VARIABLES
  active, cancelled, pending, pendingOrder,
  generation, nextKey, derivedKey, registrations,
  cacheActive, cachePath, maintained, generated, file,
  pc,          \* where each call stands
  path,        \* the cache file of each call's source file and size
  source,      \* the generation of each call's source key
  newly,       \* newly_generated
  key,         \* the derived key the call registered
  outcome,     \* the result of the task
  prune,       \* the locals of prune_disk_cache
  cancelCmd,   \* the cancel command: none, sent, or executed
  releaseCmd   \* the release command: none, half executed, or executed

INSTANCE ThumbnailRequestRegistry
INSTANCE MediaResourceRegistry
INSTANCE ThumbnailCacheManager WITH CacheKey <- ResourceKey

requestVars  == <<active, cancelled, pending, pendingOrder>>
resourceVars == <<generation, nextKey, derivedKey, registrations>>
cacheVars    == <<cacheActive, cachePath, maintained, generated>>
callVars     == <<pc, path, source, newly, key, outcome, prune, cancelCmd,
                  releaseCmd>>
vars == <<requestVars, resourceVars, cacheVars, file, callVars>>

Stage == {"idle", "invoked", "started", "probed", "reusing", "decoding", "ready",
          "derived", "maintaining", "pruning", "registered", "undoing",
          "finishing", "finished", "answered"}

NoPrune == [protected |-> {}, candidates |-> {}, total |-> 0]

TypeOK ==
  /\ RequestTypeOK /\ ResourceTypeOK /\ CacheTypeOK
  /\ pc \in [Call -> Stage]
  /\ path \in [Call -> Path \cup {NoPath}]
  /\ source \in [Call -> 1 .. MaxGeneration]
  /\ newly \in [Call -> BOOLEAN]
  /\ key \in [Call -> ResourceKey]
  /\ outcome \in [Call -> {"none", "ok", "error"}]
  /\ prune \in [Call -> [protected : SUBSET Path, candidates : SUBSET Path,
                         total : 0 .. Cardinality(Path)]]
  /\ cancelCmd \in [Call -> {"none", "sent", "done"}]
  /\ releaseCmd \in [Call -> {"none", "half", "done"}]

Init ==
  /\ RequestInit /\ ResourceInit /\ CacheInit
  /\ pc = [c \in Call |-> "idle"]
  /\ path = [c \in Call |-> NoPath]
  /\ source = [c \in Call |-> 1]
  /\ newly = [c \in Call |-> FALSE]
  /\ key = [c \in Call |-> [generation |-> 1, number |-> 0]]
  /\ outcome = [c \in Call |-> "none"]
  /\ prune = [c \in Call |-> NoPrune]
  /\ cancelCmd = [c \in Call |-> "none"]
  /\ releaseCmd = [c \in Call |-> "none"]

Goto(c, stage) == pc' = [pc EXCEPT ![c] = stage]
Fail(c) == outcome' = [outcome EXCEPT ![c] = "error"] /\ Goto(c, "finishing")
Cancelled(c) == c \in cancelled

-----------------------------------------------------------------------------
(* The frontend invokes the command for an item of the current session.    *)
Invoke(c, p) ==
  /\ pc[c] = "idle"
  /\ path' = [path EXCEPT ![c] = p]
  /\ source' = [source EXCEPT ![c] = generation]
  /\ Goto(c, "invoked")
  /\ UNCHANGED <<requestVars, resourceVars, cacheVars, file, newly, key, outcome,
                 prune, cancelCmd, releaseCmd>>

(* request_thumbnail registers the call and spawns its task.               *)
Start(c) ==
  /\ pc[c] = "invoked"
  /\ register(c)
  /\ Goto(c, "started")
  /\ UNCHANGED <<resourceVars, cacheVars, file, path, source, newly, key, outcome,
                 prune, cancelCmd, releaseCmd>>

(* The source key is resolved and the cache file looked for; the source    *)
(* may be gone from the registry or from the disk.                         *)
Probe(c) ==
  /\ pc[c] = "started"
  /\ \/ /\ ~Cancelled(c) /\ CanRegister(source[c])
        /\ newly' = [newly EXCEPT ![c] = file[path[c]] = "absent"]
        /\ Goto(c, "probed")
        /\ UNCHANGED outcome
     \/ Fail(c) /\ UNCHANGED newly
  /\ UNCHANGED <<requestVars, resourceVars, cacheVars, file, path, source, key, prune,
                 cancelCmd, releaseCmd>>

(* ensure_png_cancellable decides between the existing file and a new one. *)
Ensure(c) ==
  /\ pc[c] = "probed"
  /\ IF Cancelled(c) THEN Fail(c)
     ELSE /\ Goto(c, IF file[path[c]] = "absent" THEN "decoding" ELSE "reusing")
          /\ UNCHANGED outcome
  /\ UNCHANGED <<requestVars, resourceVars, cacheVars, file, path, source, newly, key,
                 prune, cancelCmd, releaseCmd>>

(* dimensions_of reads the existing file, which may be gone by now, or no  *)
(* image that can be read.                                                 *)
Reuse(c) ==
  /\ pc[c] = "reusing"
  /\ \/ file[path[c]] # "absent" /\ Goto(c, "ready") /\ UNCHANGED outcome
     \/ Fail(c)
  /\ UNCHANGED <<requestVars, resourceVars, cacheVars, file, path, source, newly, key,
                 prune, cancelCmd, releaseCmd>>

(* Decode, resize, encode, publish; the image may be unreadable, and a     *)
(* cancellation seen before the rename leaves no file.                     *)
Generate(c) ==
  /\ pc[c] = "decoding"
  /\ \/ /\ ~Cancelled(c)
        /\ PublishFile(path[c])
        /\ Goto(c, "ready")
        /\ UNCHANGED outcome
     \/ Fail(c) /\ UNCHANGED file
  /\ UNCHANGED <<requestVars, resourceVars, cacheVars, path, source, newly, key, prune,
                 cancelCmd, releaseCmd>>

(* The thumbnail gets its key, unless a new session has begun.             *)
Derive(c) ==
  /\ pc[c] = "ready"
  /\ IF ~Cancelled(c) /\ CanRegister(source[c])
       THEN /\ register_derived(path[c])
            /\ key' = [key EXCEPT ![c] =
                 [generation |-> generation, number |-> derivedKey'[path[c]]]]
            /\ Goto(c, "derived")
            /\ UNCHANGED outcome
       ELSE Fail(c) /\ UNCHANGED <<resourceVars, key>>
  /\ UNCHANGED <<requestVars, cacheVars, file, path, source, newly, prune, cancelCmd,
                 releaseCmd>>

(* The key is registered as an active user of its file; maintenance starts *)
(* with the files in use at this moment, its own among them.               *)
Protect(c) ==
  /\ pc[c] = "derived"
  /\ IF Cancelled(c)
       THEN /\ release_derived(key[c])
            /\ Fail(c)
            /\ UNCHANGED <<cacheVars, prune>>
       ELSE /\ UNCHANGED <<resourceVars, outcome>>
            /\ IF KeyConflict(key[c], path[c])
                 THEN Goto(c, "registered") /\ UNCHANGED <<cacheVars, prune>>
                 ELSE /\ CacheRegister(key[c], path[c], newly[c])
                      /\ IF ShouldMaintain(newly[c])
                           THEN /\ prune' = [prune EXCEPT ![c].protected = ActivePaths']
                                /\ Goto(c, "maintaining")
                           ELSE Goto(c, "registered") /\ UNCHANGED prune
  /\ UNCHANGED <<requestVars, file, path, source, newly, key, cancelCmd, releaseCmd>>

(* Maintenance is over when the cache has shrunk enough, when there is     *)
(* nothing it may delete, or when the file system refuses.                 *)
PruneWith(c, candidates, total, enough) ==
  IF total <= enough \/ candidates = {}
    THEN /\ prune' = [prune EXCEPT ![c] = NoPrune]
         /\ Goto(c, "registered")
    ELSE /\ prune' = [prune EXCEPT ![c].candidates = candidates, ![c].total = total]
         /\ Goto(c, "pruning")

PruneGivesUp(c) ==
  /\ pc[c] \in {"maintaining", "pruning"}
  /\ prune' = [prune EXCEPT ![c] = NoPrune]
  /\ Goto(c, "registered")
  /\ UNCHANGED <<requestVars, resourceVars, cacheVars, file, path, source, newly, key,
                 outcome, cancelCmd, releaseCmd>>

PruneList(c) ==
  /\ pc[c] = "maintaining"
  /\ PruneWith(c, PruneCandidates(prune[c].protected), TotalFiles, MaxFiles)
  /\ UNCHANGED <<requestVars, resourceVars, cacheVars, file, path, source, newly, key,
                 outcome, cancelCmd, releaseCmd>>

PruneRemove(c, p) ==
  /\ pc[c] = "pruning"
  /\ p \in prune[c].candidates
  /\ RemoveFile(p)
  /\ PruneWith(c, prune[c].candidates \ {p}, prune[c].total - 1, TargetFiles)
  /\ UNCHANGED <<requestVars, resourceVars, cacheVars, path, source, newly, key,
                 outcome, cancelCmd, releaseCmd>>

(* Faulty: a late cancellation gives the key back and forgets the cache.   *)
BugCancelKeepsCacheEntry(c) ==
  /\ pc[c] = "registered"
  /\ IF Cancelled(c)
       THEN release_derived(key[c]) /\ Fail(c)
       ELSE /\ UNCHANGED resourceVars
            /\ outcome' = [outcome EXCEPT ![c] = "ok"]
            /\ Goto(c, "finishing")
  /\ UNCHANGED <<requestVars, cacheVars, file, path, source, newly, key, prune,
                 cancelCmd, releaseCmd>>

(* The last check of the token: a cancelled call takes back both of its    *)
(* registrations, in two critical sections.                                *)
Conclude(c) ==
  /\ pc[c] = "registered"
  /\ IF Cancelled(c)
       THEN release_derived(key[c]) /\ Goto(c, "undoing") /\ UNCHANGED outcome
       ELSE /\ UNCHANGED resourceVars
            /\ outcome' = [outcome EXCEPT ![c] = "ok"]
            /\ Goto(c, "finishing")
  /\ UNCHANGED <<requestVars, cacheVars, file, path, source, newly, key, prune,
                 cancelCmd, releaseCmd>>

Undo(c) ==
  /\ pc[c] = "undoing"
  /\ CacheRelease(key[c])
  /\ Fail(c)
  /\ UNCHANGED <<requestVars, resourceVars, file, path, source, newly, key, prune,
                 cancelCmd, releaseCmd>>

(* The task has ended, with a result or a panic: the token is dropped.     *)
Finish(c) ==
  /\ pc[c] = "finishing"
  /\ finish(c)
  /\ Goto(c, "finished")
  /\ UNCHANGED <<resourceVars, cacheVars, file, path, source, newly, key, outcome,
                 prune, cancelCmd, releaseCmd>>

(* The answer reaches the frontend, which stops listening for an abort.    *)
Answer(c) ==
  /\ pc[c] = "finished"
  /\ Goto(c, "answered")
  /\ UNCHANGED <<requestVars, resourceVars, cacheVars, file, path, source, newly, key,
                 outcome, prune, cancelCmd, releaseCmd>>

-----------------------------------------------------------------------------
(* The abort listener sends the cancel command, at most once per call.     *)
SendCancel(c) ==
  /\ pc[c] \notin {"idle", "answered"}
  /\ cancelCmd[c] = "none"
  /\ cancelCmd' = [cancelCmd EXCEPT ![c] = "sent"]
  /\ UNCHANGED <<requestVars, resourceVars, cacheVars, file, pc, path, source, newly,
                 key, outcome, prune, releaseCmd>>

(* cancel_thumbnail_request: before, during or after the call's work.      *)
ExecuteCancel(c) ==
  /\ cancelCmd[c] = "sent"
  /\ cancel(c)
  /\ cancelCmd' = [cancelCmd EXCEPT ![c] = "done"]
  /\ UNCHANGED <<resourceVars, cacheVars, file, pc, path, source, newly, key, outcome,
                 prune, releaseCmd>>

-----------------------------------------------------------------------------
Holds(c) == pc[c] = "answered" /\ outcome[c] = "ok" /\ releaseCmd[c] = "none"

(* release_representation, sent once for an answer                         *)
(* (RegistrationsMatchLeases of RepresentationScheduler): the registry,    *)
(* then the cache, which is told even if the key's session is over.        *)
ReleaseDerived(c) ==
  /\ Holds(c)
  /\ release_derived(key[c])
  /\ releaseCmd' = [releaseCmd EXCEPT ![c] = "half"]
  /\ UNCHANGED <<requestVars, cacheVars, file, pc, path, source, newly, key, outcome,
                 prune, cancelCmd>>

ReleaseCache(c) ==
  /\ releaseCmd[c] = "half"
  /\ CacheRelease(key[c])
  /\ releaseCmd' = [releaseCmd EXCEPT ![c] = "done"]
  /\ UNCHANGED <<requestVars, resourceVars, file, pc, path, source, newly, key, outcome,
                 prune, cancelCmd>>

-----------------------------------------------------------------------------
(* start_scan begins a session: the keys of the one before are void.       *)
BeginSession ==
  /\ begin_session
  /\ UNCHANGED <<requestVars, cacheVars, file, callVars>>

(* Time passes: a file outlives the grace period of maintenance.           *)
GrowOld(p) ==
  /\ file[p] = "fresh"
  /\ file' = [file EXCEPT ![p] = "old"]
  /\ UNCHANGED <<requestVars, resourceVars, cacheVars, callVars>>

Work(c) ==
  \/ Start(c) \/ Probe(c) \/ Ensure(c) \/ Reuse(c) \/ Generate(c) \/ Derive(c)
  \/ Protect(c) \/ PruneList(c) \/ (\E p \in Path : PruneRemove(c, p))
  \/ PruneGivesUp(c) \/ Conclude(c) \/ Undo(c) \/ Finish(c) \/ Answer(c)

Next ==
  \/ \E c \in Call, p \in Path : Invoke(c, p)
  \/ \E c \in Call : Work(c)
  \/ \E c \in Call : SendCancel(c)
  \/ \E c \in Call : ExecuteCancel(c)
  \/ \E c \in Call : ReleaseDerived(c)
  \/ \E c \in Call : ReleaseCache(c)
  \/ BeginSession
  \/ \E p \in Path : GrowOld(p)

Spec == Init /\ [][Next]_vars

-----------------------------------------------------------------------------
(* A call that has its registration in the media registry, or in the cache *)
(* manager, and has not begun to give it back there.                       *)
Delivering(c) == pc[c] \in {"finishing", "finished", "answered"} /\ outcome[c] = "ok"
UsesDerived(c) ==
  \/ pc[c] \in {"derived", "maintaining", "pruning", "registered"}
  \/ Delivering(c) /\ releaseCmd[c] = "none"
UsesCache(c) ==
  \/ pc[c] \in {"maintaining", "pruning", "registered", "undoing"}
  \/ Delivering(c) /\ releaseCmd[c] # "done"

(* Neither reference count leaks or runs short: a cancellation at any      *)
(* stage, a new session under a working call, and releases of a shared key *)
(* in either registry leave exactly the registrations still in use.        *)
CountsMatchUsers ==
  /\ \A p \in Path : registrations[p] =
       Cardinality({c \in Call : /\ UsesDerived(c) /\ path[c] = p
                                 /\ key[c].generation = generation})
  /\ \A k \in ResourceKey : cacheActive[k] =
       Cardinality({c \in Call : UsesCache(c) /\ key[c] = k})

(* A key serves the file it was given out for as long as its holder has    *)
(* not released it, and never another file, however the sessions and the   *)
(* other holders of that file come and go.                                 *)
KeyServesItsFile ==
  \A c \in Call :
    /\ UsesDerived(c) /\ key[c].generation = generation
         => ResolveDerived(key[c]) = {path[c]}
    /\ pc[c] = "answered" /\ outcome[c] = "ok"
         => ResolveDerived(key[c]) \subseteq {path[c]}

(* A cancellation executed while its call can still see it is not lost,    *)
(* also when it overtakes the call on the way to the backend; only         *)
(* MaxPendingCancellations others can push it out.                         *)
CancellationNotLost ==
  \A c \in Call :
    /\ cancelCmd[c] = "done"
    /\ pc[c] \in Stage \ {"finished", "answered"}
    /\ c \notin (IF pc[c] = "invoked" THEN pending ELSE cancelled)
    => \/ pc[c] = "idle"
       \/ MaxPendingCancellations <=
            Cardinality({d \in Call \ {c} : cancelCmd[d] = "done"})

(* thumbnail_cache.rs:63-67: maintenance "never removes paths still        *)
(* registered as active".                                                  *)
ActiveFilesKept ==
  [][\A p \in ActivePaths : file[p] # "absent" => file'[p] # "absent"]_vars

(* thumbnail_request.rs:30-34: the race is settled "without retaining      *)
(* unbounded request IDs".                                                 *)
RetainedIdsBounded ==
  Len(pendingOrder) <= MaxPendingCancellations
=============================================================================
