------------------------- MODULE PixiCanvasRenderer -------------------------
(***************************************************************************)
(* src/src/renderers/pixi/pixiCanvasRenderer.ts over its AssetLeasePool:   *)
(* one record per rendered item, which loads, shows, swaps and gives back  *)
(* the texture of the item's representation URI.                           *)
(*                                                                         *)
(* A snapshot that changes several items runs the updates of the items one *)
(* after another; each is a step here.  CanvasBrowserController publishes  *)
(* every change of state, and between two URIs of an item the item is      *)
(* loading, with the URI null: item gives the last URI published.          *)
(***************************************************************************)
EXTENDS AssetLeasePool

CONSTANT Media    \* the items that may be rendered

Absent == "absent"   \* an item outside the render set: no record

ASSUME RendererAssumption ==
  /\ Key # {} /\ NoKey \notin Key /\ Absent \notin Key
  /\ MaxAcquires \in Nat
  /\ Media # {} /\ IsFiniteSet(Media)

VARIABLES
  item,          \* the representation URI of the last snapshot
  currentUri, desiredUri, failedUri,   \* fields of the record of an item
  loadRevision,  \* the load whose continuation finds its revision unchanged
  sprite,        \* the entry whose texture the sprite shows
  loadOf,        \* the item a load under way was begun for
  disposed

recordVars == <<currentUri, desiredUri, failedUri, loadRevision, sprite>>
vars == <<poolVars, recordVars, item, loadOf, disposed>>

MaybeKey == Key \cup {NoKey}

TypeOK ==
  /\ PoolTypeOK
  /\ item \in [Media -> MaybeKey \cup {Absent}]
  /\ currentUri \in [Media -> MaybeKey]
  /\ desiredUri \in [Media -> MaybeKey]
  /\ failedUri \in [Media -> MaybeKey]
  /\ loadRevision \in [Media -> Acquire \cup {None}]
  /\ sprite \in [Media -> Acquire \cup {None}]
  /\ loadOf \in [Acquire -> Media \cup {None}]
  /\ disposed \in BOOLEAN

Init ==
  /\ PoolInit
  /\ item = [m \in Media |-> Absent]
  /\ currentUri = [m \in Media |-> NoKey]
  /\ desiredUri = [m \in Media |-> NoKey]
  /\ failedUri = [m \in Media |-> NoKey]
  /\ loadRevision = [m \in Media |-> None]
  /\ sprite = [m \in Media |-> None]
  /\ loadOf = [a \in Acquire |-> None]
  /\ disposed = FALSE

-----------------------------------------------------------------------------
(* #detachCurrentSprite                                                    *)
detachCurrentSprite(m) ==
  /\ sprite' = [sprite EXCEPT ![m] = None]
  /\ currentUri' = [currentUri EXCEPT ![m] = NoKey]
  /\ release(currentUri[m])

(* Faulty: the revision moves on, the record still claims to be loading.   *)
BugDetachKeepsDesired(m) ==
  /\ loadRevision' = [loadRevision EXCEPT ![m] = None]
  /\ detachCurrentSprite(m)
  /\ UNCHANGED desiredUri
  /\ UNCHANGED <<nextAcquire, entries, entryKey, promise, prior, joined>>

(* #detachTexture, and what #removeRecord shares with it                   *)
detachTexture(m) ==
  /\ loadRevision' = [loadRevision EXCEPT ![m] = None]
  /\ desiredUri' = [desiredUri EXCEPT ![m] = NoKey]
  /\ detachCurrentSprite(m)
  /\ UNCHANGED <<nextAcquire, entries, entryKey, promise, prior, joined>>

(* #beginTextureLoad up to the promise                                     *)
beginTextureLoad(m, uri) ==
  /\ acquire(uri)
  /\ loadRevision' = [loadRevision EXCEPT ![m] = nextAcquire]
  /\ desiredUri' = [desiredUri EXCEPT ![m] = uri]
  /\ failedUri' = [failedUri EXCEPT ![m] = NoKey]
  /\ loadOf' = [loadOf EXCEPT ![nextAcquire] = m]
  /\ UNCHANGED <<currentUri, sprite>>

(* #updateRecord; a record is created, all fields null, when there is none *)
updateRecord(m, uri) ==
  \/ /\ uri = NoKey
     /\ detachTexture(m)
     /\ failedUri' = [failedUri EXCEPT ![m] = NoKey]
     /\ UNCHANGED loadOf
  \/ /\ uri # NoKey
     /\ uri \in {currentUri[m], desiredUri[m], failedUri[m]}
     /\ UNCHANGED <<poolVars, recordVars, loadOf>>
  \/ /\ uri # NoKey
     /\ uri \notin {currentUri[m], desiredUri[m], failedUri[m]}
     /\ beginTextureLoad(m, uri)

(* update, for one item of the snapshot                                    *)
update(m, uri) ==
  /\ ~disposed
  /\ item[m] \in {Absent, NoKey, uri} \/ uri = NoKey
  /\ item' = [item EXCEPT ![m] = uri]
  /\ updateRecord(m, uri)
  /\ UNCHANGED disposed

(* #removeRecord, when the snapshot lacks the item.  The record object is  *)
(* dropped; a later one starts with its fields null.                       *)
removeRecord(m) ==
  /\ ~disposed
  /\ item[m] # Absent
  /\ item' = [item EXCEPT ![m] = Absent]
  /\ detachTexture(m)
  /\ failedUri' = [failedUri EXCEPT ![m] = NoKey]
  /\ UNCHANGED <<loadOf, disposed>>

(* destroy: removeRecord for every record, then releaseAll.  The releases  *)
(* of the records are among those of releaseAll.                           *)
destroy ==
  /\ ~disposed
  /\ disposed' = TRUE
  /\ item' = [m \in Media |-> Absent]
  /\ currentUri' = [m \in Media |-> NoKey]
  /\ desiredUri' = [m \in Media |-> NoKey]
  /\ failedUri' = [m \in Media |-> NoKey]
  /\ loadRevision' = [m \in Media |-> None]
  /\ sprite' = [m \in Media |-> None]
  /\ releaseAll
  /\ UNCHANGED <<nextAcquire, entries, entryKey, promise, prior, joined, loadOf>>

-----------------------------------------------------------------------------
(* The continuation of load a is the next to run on its promise.           *)
Delivers(a, outcome) ==
  /\ joined[a] # None
  /\ promise[joined[a]] = outcome
  /\ \A b \in Undelivered(joined[a]) : a <= b
  /\ joined' = [joined EXCEPT ![a] = None]
  /\ loadOf' = [loadOf EXCEPT ![a] = None]
  /\ UNCHANGED <<nextAcquire, entries, entryKey, promise, prior, item, disposed>>

uriOf(a) == entryKey[joined[a]]

(* Does the record still wait for load a?                                  *)
Awaited(a) ==
  /\ loadRevision[loadOf[a]] = a
  /\ desiredUri[loadOf[a]] = uriOf(a)

(* Faulty: a texture nobody waits for any more is kept.                    *)
BugStaleTextureKept(a) ==
  /\ Delivers(a, "loaded")
  /\ disposed \/ ~Awaited(a)
  /\ UNCHANGED <<refs, unloading>>
  /\ UNCHANGED recordVars

(* The texture arrives too late: give it back.                             *)
DropTexture(a) ==
  /\ Delivers(a, "loaded")
  /\ disposed \/ ~Awaited(a)
  /\ release(uriOf(a))
  /\ UNCHANGED recordVars

(* The texture arrives: it replaces what the tile shows.                   *)
ShowTexture(a) ==
  LET m == loadOf[a]
  IN  /\ Delivers(a, "loaded")
      /\ ~disposed /\ Awaited(a)
      /\ release(currentUri[m])
      /\ sprite' = [sprite EXCEPT ![m] = joined[a]]
      /\ currentUri' = [currentUri EXCEPT ![m] = uriOf(a)]
      /\ desiredUri' = [desiredUri EXCEPT ![m] = NoKey]
      /\ UNCHANGED <<failedUri, loadRevision>>

(* The load failed.  The pool has forgotten the entry: nothing to release. *)
LoadFailed(a) ==
  LET m == loadOf[a]
  IN  /\ Delivers(a, "failed")
      /\ IF Awaited(a)
           THEN /\ desiredUri' = [desiredUri EXCEPT ![m] = NoKey]
                /\ failedUri' = [failedUri EXCEPT ![m] = uriOf(a)]
                /\ UNCHANGED <<currentUri, loadRevision, sprite>>
           ELSE UNCHANGED recordVars
      /\ UNCHANGED <<refs, unloading>>

Deliver(a) == DropTexture(a) \/ ShowTexture(a) \/ LoadFailed(a)

-----------------------------------------------------------------------------
Next ==
  \/ \E m \in Media, uri \in MaybeKey : update(m, uri)
  \/ \E m \in Media : removeRecord(m)
  \/ destroy
  \/ \E a \in Acquire : DropTexture(a)
  \/ \E a \in Acquire : ShowTexture(a)
  \/ \E a \in Acquire : LoadFailed(a)
  \/ PoolStep /\ UNCHANGED <<recordVars, item, loadOf, disposed>>

(* The event loop runs every continuation, and an image load settles.      *)
Fairness ==
  \A a \in Acquire :
    /\ WF_vars(Deliver(a))
    /\ WF_vars(PoolStepOf(a) /\ UNCHANGED <<recordVars, item, loadOf, disposed>>)

Safe == Init /\ [][Next]_vars
Spec == Safe /\ Fairness

-----------------------------------------------------------------------------
Live(e) == promise[e] = "loading" \/ (promise[e] = "loaded" /\ unloading[e] \in {"no", "chained"})

(* While the renderer lives, an entry counts exactly the tiles that show   *)
(* its texture and the loads whose continuation is still to come, those    *)
(* of tiles that scrolled away included: release, which is told a key and  *)
(* not an entry, never takes the reference of another generation.          *)
RefsMatchHolders ==
  ~disposed =>
    \A e \in Acquire : promise[e] \notin {"none", "failed"} =>
      refs[e] = Cardinality({m \in Media : sprite[m] = e}) + Cardinality(Undelivered(e))

ShownTextureAlive ==
  \A m \in Media : sprite[m] # None =>
    /\ promise[sprite[m]] = "loaded"
    /\ unloading[sprite[m]] = "no"
    /\ currentUri[m] # NoKey /\ entries[currentUri[m]] = sprite[m]

(* A tile shows the texture of the URI its item has now, or nothing: no    *)
(* late load brings back the texture of an earlier LOD or thumbnail.  A    *)
(* texture on screen has not been destroyed, nor is it about to be: its    *)
(* entry is the one the map holds for the tile's URI.                      *)
TileShowsItsItem ==
  /\ ShownTextureAlive
  /\ \A m \in Media :
       /\ currentUri[m] \in {NoKey, item[m]}
       /\ desiredUri[m] \in {NoKey, item[m]}
       /\ failedUri[m] \in {NoKey, item[m]}

TexturesConverge ==
  \A k \in Key :
    (\A m \in Media : item[m] # k)
      ~> \/ \E m \in Media : item[m] = k
         \/ entries[k] = None /\ \A e \in Acquire : entryKey[e] = k => ~Live(e)

TileSettles ==
  \A m \in Media, k \in Key :
    (item[m] = k) ~> (item[m] # k \/ currentUri[m] = k \/ failedUri[m] = k)

(* A URI no item has any more leaves the pool, its texture destroyed:      *)
(* the entry and reference counts of the telemetry converge, also after    *)
(* destroy and when the load of the URI settles only then.  An item with a *)
(* URI gets its texture or a failure, unless the URI goes.                 *)
TexturesSettle == TexturesConverge /\ TileSettles
=============================================================================
