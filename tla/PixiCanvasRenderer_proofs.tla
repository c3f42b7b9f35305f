------------------------ MODULE PixiCanvasRenderer_proofs ------------------------
(***************************************************************************)
(* Proofs about PixiCanvasRenderer over AssetLeasePool: for every set of   *)
(* tiles, of URIs and every number of loads, the pool counts exactly the   *)
(* holders of a texture, and a tile shows the texture of its own item.     *)
(***************************************************************************)
EXTENDS PixiCanvasRenderer, FiniteSetTheorems, TLAPS

-----------------------------------------------------------------------------
(* How many there are in a set that changes.                               *)

LEMMA CountLoses ==
  ASSUME NEW A, NEW B, NEW x, IsFiniteSet(A), B = A \ {x}
  PROVE  /\ Cardinality(A) \in Nat
         /\ x \in A => Cardinality(B) = Cardinality(A) - 1
         /\ x \notin A => Cardinality(B) = Cardinality(A)
<1>1. Cardinality(A) \in Nat
  BY FS_CardinalityType
<1>2. x \in A => Cardinality(B) = Cardinality(A) - 1
  BY FS_RemoveElement
<1>3. x \notin A => B = A
  OBVIOUS
<1> QED
  BY <1>1, <1>2, <1>3

LEMMA CountGains ==
  ASSUME NEW A, NEW B, NEW x, IsFiniteSet(A), x \notin A, B = A \cup {x}
  PROVE  Cardinality(A) \in Nat /\ Cardinality(B) = Cardinality(A) + 1
BY FS_CardinalityType, FS_AddElement

-----------------------------------------------------------------------------
(* Counting: how often a function takes a value.                           *)

Where(f, S, v) == {x \in S : f[x] = v}

LEMMA CountNone ==
  ASSUME NEW S, NEW f, NEW v, \A x \in S : f[x] # v
  PROVE  Cardinality(Where(f, S, v)) = 0
<1>1. Where(f, S, v) = {}
  BY DEF Where
<1> QED
  BY <1>1, FS_EmptySet

-----------------------------------------------------------------------------
(* The inductive invariant.  RefsMatchHolders needs every reference to be  *)
(* found again through the key alone, which release is told: an entry with *)
(* references is the one the map holds for its key (Owned).                *)

Started == {"waiting", "loading", "loaded"}

(* Calls of acquire to come have left nothing yet.                         *)
Fresh == \A a \in Acquire : a >= nextAcquire => joined[a] = None /\ promise[a] = "none"

Joined == \A a \in Acquire : joined[a] # None => promise[joined[a]] # "none"

Mapped == \A k \in Key : entries[k] # None =>
  promise[entries[k]] \in Started /\ entryKey[entries[k]] = k

Owned == \A e \in Acquire :
  /\ promise[e] = "none" => unloading[e] = "no"
  /\ promise[e] \in Started =>
       /\ entryKey[e] \in Key
       /\ refs[e] > 0 <=> unloading[e] = "no"
       /\ unloading[e] = "no" => entries[entryKey[e]] = e

PoolInv == PoolTypeOK /\ Fresh /\ Joined /\ Mapped /\ Owned

LoadsHaveTile == \A a \in Acquire : joined[a] # None => loadOf[a] \in Media

(* A record that loads shows nothing; what it shows is loaded, under the   *)
(* URI it names, the URI of its item.  After destroy there is no record.   *)
Records == \A m \in Media :
  /\ currentUri[m] = NoKey <=> sprite[m] = None
  /\ sprite[m] # None => promise[sprite[m]] = "loaded" /\ currentUri[m] = entryKey[sprite[m]]
  /\ NoKey \in {currentUri[m], desiredUri[m]}
  /\ {currentUri[m], desiredUri[m], failedUri[m]} \subseteq {NoKey, item[m]}
  /\ disposed => currentUri[m] = NoKey /\ desiredUri[m] = NoKey /\ loadRevision[m] = None

IInv == TypeOK /\ PoolInv /\ LoadsHaveTile /\ Records /\ RefsMatchHolders

-----------------------------------------------------------------------------
(* The pool keeps its part whatever its client does.                       *)

LEMMA Constants ==
  /\ MaxAcquires \in Nat /\ IsFiniteSet(Media)
  /\ NoKey \notin Key /\ Absent \notin Key /\ Absent # NoKey
  /\ \A a \in Acquire : a \in Nat /\ a # None
  /\ IsFiniteSet(Acquire)
BY RendererAssumption, FS_Interval DEF Acquire, None, Absent, NoKey

LEMMA AcquireKeepsPool ==
  ASSUME PoolInv, NEW k \in Key, acquire(k)
  PROVE  PoolInv'
<1> DEFINE a == nextAcquire
<1>1. /\ a \in Acquire /\ nextAcquire' = a + 1 /\ unloading' = unloading
      /\ a \in Nat /\ a # None /\ nextAcquire' \in 1 .. MaxAcquires + 1
      /\ joined[a] = None /\ promise[a] = "none" /\ unloading[a] = "no"
  BY Constants DEF acquire, PoolInv, PoolTypeOK, Fresh, Owned, Acquire
<1>2. CASE entries[k] # None /\ unloading[entries[k]] = "no"
  <2>1. entries[k] \in Acquire /\ promise[entries[k]] \in Started
    BY <1>2 DEF PoolInv, PoolTypeOK, Mapped
  <2>2. /\ refs' = [refs EXCEPT ![entries[k]] = @ + 1]
        /\ joined' = [joined EXCEPT ![a] = entries[k]]
        /\ UNCHANGED <<entries, entryKey, promise, prior>>
    BY <1>2 DEF acquire, Join
  <2>3. PoolTypeOK'
    <3>1. refs[entries[k]] + 1 \in Nat /\ refs \in [Acquire -> Nat]
      BY <2>1 DEF PoolInv, PoolTypeOK
    <3>2. refs' \in [Acquire -> Nat]
      BY <2>1, <2>2, <3>1
    <3>3. joined' \in [Acquire -> Acquire \cup {None}]
      BY <1>1, <2>1, <2>2 DEF PoolInv, PoolTypeOK
    <3> QED
      BY <1>1, <2>2, <3>2, <3>3 DEF PoolInv, PoolTypeOK
  <2>4. Fresh' /\ Joined' /\ Mapped'
    BY <1>1, <2>1, <2>2, Constants DEF PoolInv, PoolTypeOK, Fresh, Joined, Mapped, Started
  <2>5. refs[entries[k]] \in Nat /\ refs[entries[k]] > 0
    BY <1>2, <2>1 DEF PoolInv, PoolTypeOK, Owned
  <2>6. Owned'
    BY <1>1, <2>1, <2>2, <2>5 DEF PoolInv, PoolTypeOK, Owned
  <2> QED
    BY <2>3, <2>4, <2>6 DEF PoolInv
<1>3. CASE ~(entries[k] # None /\ unloading[entries[k]] = "no")
  <2>1. /\ entries' = [entries EXCEPT ![k] = a]
        /\ entryKey' = [entryKey EXCEPT ![a] = k]
        /\ refs' = [refs EXCEPT ![a] = 1]
        /\ promise' = [promise EXCEPT ![a] = "waiting"]
        /\ prior' = [prior EXCEPT ![a] = entries[k]]
        /\ joined' = [joined EXCEPT ![a] = a]
    BY <1>3 DEF acquire, AddEntry
  <2>2. PoolTypeOK'
    BY <1>1, <2>1 DEF PoolInv, PoolTypeOK
  <2>3. Fresh' /\ Joined'
    BY <1>1, <2>1, Constants DEF PoolInv, PoolTypeOK, Fresh, Joined
  <2>4. Mapped'
    BY <1>1, <2>1 DEF PoolInv, PoolTypeOK, Mapped, Started
  <2>5. Owned'
    BY <1>1, <1>3, <2>1, Constants DEF PoolInv, PoolTypeOK, Owned, Mapped, Started
  <2> QED
    BY <2>2, <2>3, <2>4, <2>5 DEF PoolInv
<1> QED
  BY <1>2, <1>3

(* release, in a step that also delivers a continuation or not.            *)
LEMMA ReleaseKeepsPool ==
  ASSUME PoolInv, NEW k \in MaybeKey, release(k),
         UNCHANGED <<nextAcquire, entries, entryKey, promise, prior>>,
         NEW a, joined' = joined \/ joined' = [joined EXCEPT ![a] = None]
  PROVE  PoolInv'
<1>1. Fresh' /\ Joined' /\ Mapped'
  BY DEF PoolInv, PoolTypeOK, Fresh, Joined, Mapped
<1>2. joined' \in [Acquire -> Acquire \cup {None}]
  BY DEF PoolInv, PoolTypeOK
<1>3. CASE UNCHANGED <<refs, unloading>>
  BY <1>1, <1>2, <1>3 DEF PoolInv, PoolTypeOK, Owned
<1>4. CASE ~UNCHANGED <<refs, unloading>>
  <2> DEFINE e == entries[k]
  <2>1. /\ k \in Key /\ e \in Acquire /\ refs[e] \in Nat /\ refs[e] > 0
        /\ refs' = [refs EXCEPT ![e] = refs[e] - 1]
        /\ unloading' = [unloading EXCEPT ![e] = IF refs[e] = 1 THEN "chained" ELSE unloading[e]]
    BY <1>4 DEF release, MaybeKey, PoolInv, PoolTypeOK
  <2>2. promise[e] \in Started
    BY <2>1, Constants DEF PoolInv, Mapped
  <2> HIDE DEF e
  <2>3. PoolTypeOK'
    BY <1>2, <2>1 DEF PoolInv, PoolTypeOK
  <2>4. Owned'
    BY <2>1, <2>2 DEF PoolInv, PoolTypeOK, Owned, Started
  <2> QED
    BY <1>1, <2>3, <2>4 DEF PoolInv
<1> QED
  BY <1>3, <1>4

LEMMA ReleaseAllKeepsPool ==
  ASSUME PoolInv, releaseAll,
         UNCHANGED <<nextAcquire, entries, entryKey, promise, prior, joined>>
  PROVE  PoolInv'
<1>1. PICK held \in SUBSET Acquire :
        /\ held = {e \in Acquire : refs[e] > 0 /\ \E k \in Key : entries[k] = e}
        /\ refs' = [e \in Acquire |-> IF e \in held THEN 0 ELSE refs[e]]
        /\ unloading' = [e \in Acquire |-> IF e \in held THEN "chained" ELSE unloading[e]]
  BY DEF releaseAll
<1>2. PoolTypeOK'
  BY <1>1 DEF PoolInv, PoolTypeOK
<1>3. Fresh' /\ Joined' /\ Mapped'
  BY DEF PoolInv, Fresh, Joined, Mapped
<1>4. \A e \in held : promise[e] \in Started
  BY <1>1, Constants DEF PoolInv, Mapped
<1>5. Owned'
  BY <1>1, <1>4 DEF PoolInv, PoolTypeOK, Owned, Started
<1> QED
  BY <1>2, <1>3, <1>5 DEF PoolInv

LEMMA PoolStepKeepsPool ==
  ASSUME PoolInv, PoolStep
  PROVE  PoolInv'
<1>1. CASE \E e \in Acquire : StartLoad(e) \/ LoadResolves(e)
  <2>1. PICK e \in Acquire : StartLoad(e) \/ LoadResolves(e)
    BY <1>1
  <2>2. /\ promise[e] \in Started
        /\ \E p \in {"loading", "loaded"} : promise' = [promise EXCEPT ![e] = p]
        /\ prior' \in [Acquire -> Acquire \cup {None}]
        /\ UNCHANGED <<nextAcquire, entries, entryKey, refs, unloading, joined>>
    BY <2>1 DEF StartLoad, LoadResolves, PoolInv, PoolTypeOK, Started
  <2>3. PoolTypeOK'
    <3>1. promise' \in [Acquire -> {"none", "waiting", "loading", "loaded", "failed"}]
      BY <2>2 DEF PoolInv, PoolTypeOK
    <3> QED
      BY <2>2, <3>1 DEF PoolInv, PoolTypeOK
  <2>4. Fresh' /\ Joined'
    BY <2>2 DEF PoolInv, PoolTypeOK, Fresh, Joined, Started
  <2>5. Mapped' /\ Owned'
    BY <2>2 DEF PoolInv, PoolTypeOK, Mapped, Owned, Started
  <2> QED
    BY <2>3, <2>4, <2>5 DEF PoolInv
<1>2. CASE \E e \in Acquire : LoadRejects(e)
  <2>1. PICK e \in Acquire : LoadRejects(e)
    BY <1>2
  <2>2. /\ promise[e] = "loading" /\ promise' = [promise EXCEPT ![e] = "failed"]
        /\ entries' = [k \in Key |-> IF entries[k] = e THEN None ELSE entries[k]]
        /\ refs' = [refs EXCEPT ![e] = 0]
        /\ UNCHANGED <<nextAcquire, entryKey, prior, unloading, joined>>
    BY <2>1 DEF LoadRejects, Forget
  <2>3. PoolTypeOK' /\ Fresh' /\ Joined'
    BY <2>2 DEF PoolInv, PoolTypeOK, Fresh, Joined
  <2>4. Mapped' /\ Owned'
    BY <2>2 DEF PoolInv, PoolTypeOK, Mapped, Owned, Started
  <2> QED
    BY <2>3, <2>4 DEF PoolInv
<1>3. CASE \E e \in Acquire : Unload(e)
  <2>1. PICK e \in Acquire : Unload(e)
    BY <1>3
  <2>2. /\ unloading[e] = "chained" /\ promise[e] = "loaded"
        /\ unloading' = [unloading EXCEPT ![e] = "unloaded"]
        /\ UNCHANGED <<nextAcquire, entries, entryKey, refs, promise, prior, joined>>
    BY <2>1 DEF Unload
  <2>3. PoolTypeOK' /\ Fresh' /\ Joined' /\ Mapped'
    BY <2>2 DEF PoolInv, PoolTypeOK, Fresh, Joined, Mapped
  <2>4. Owned'
    BY <2>2 DEF PoolInv, PoolTypeOK, Owned, Started
  <2> QED
    BY <2>3, <2>4 DEF PoolInv
<1>4. CASE \E e \in Acquire : EndUnload(e)
  <2>1. PICK e \in Acquire : EndUnload(e)
    BY <1>4
  <2>2. /\ unloading[e] # "no" /\ unloading' = [unloading EXCEPT ![e] = "done"]
        /\ entries' = [k \in Key |-> IF entries[k] = e THEN None ELSE entries[k]]
        /\ UNCHANGED <<nextAcquire, entryKey, refs, promise, prior, joined>>
    BY <2>1 DEF EndUnload, Forget
  <2>3. PoolTypeOK' /\ Fresh' /\ Joined' /\ Mapped'
    BY <2>2 DEF PoolInv, PoolTypeOK, Fresh, Joined, Mapped
  <2>4. Owned'
    BY <2>2 DEF PoolInv, PoolTypeOK, Owned, Started
  <2> QED
    BY <2>3, <2>4 DEF PoolInv
<1> QED
  BY <1>1, <1>2, <1>3, <1>4 DEF PoolStep

-----------------------------------------------------------------------------
(* The references and their holders.                                       *)

Shown(e)   == Where(sprite, Media, e)
Waiting(e) == Where(joined, Acquire, e)

LEMMA Counts ==
  ASSUME IInv
  PROVE  /\ \A e \in Acquire :
              /\ Cardinality(Shown(e)) \in Nat /\ Cardinality(Waiting(e)) \in Nat
              /\ \A m \in Media : sprite[m] = e => Cardinality(Shown(e)) > 0
              /\ \A a \in Acquire : joined[a] = e => Cardinality(Waiting(e)) > 0
         /\ ~disposed => \A e \in Acquire : promise[e] \in Started =>
              refs[e] = Cardinality(Shown(e)) + Cardinality(Waiting(e))
<1>1. ASSUME NEW e \in Acquire
      PROVE  /\ IsFiniteSet(Shown(e)) /\ Cardinality(Shown(e)) \in Nat
             /\ IsFiniteSet(Waiting(e)) /\ Cardinality(Waiting(e)) \in Nat
  <2>1. Shown(e) \in SUBSET Media /\ Waiting(e) \in SUBSET Acquire
    BY DEF Shown, Waiting, Where
  <2>2. IsFiniteSet(Shown(e)) /\ IsFiniteSet(Waiting(e))
    BY <2>1, Constants, FS_Subset
  <2> QED
    BY <2>2, FS_CardinalityType
<1>2. \A e \in Acquire : \A m \in Media : sprite[m] = e => Cardinality(Shown(e)) # 0
  BY <1>1, FS_EmptySet DEF Shown, Where
<1>3. \A e \in Acquire : \A a \in Acquire : joined[a] = e => Cardinality(Waiting(e)) # 0
  BY <1>1, FS_EmptySet DEF Waiting, Where
<1>4. ~disposed => \A e \in Acquire : promise[e] \in Started =>
        refs[e] = Cardinality(Shown(e)) + Cardinality(Waiting(e))
  BY DEF IInv, RefsMatchHolders, Undelivered, Shown, Waiting, Where, Started
<1> QED
  BY <1>1, <1>2, <1>3, <1>4

(* An entry with a holder is the one the map holds for its key.            *)
LEMMA HeldIsMapped ==
  ASSUME IInv, ~disposed, NEW e \in Acquire, promise[e] \in Started,
         (\E m \in Media : sprite[m] = e) \/ (\E a \in Acquire : joined[a] = e)
  PROVE  /\ refs[e] \in Nat /\ refs[e] > 0 /\ unloading[e] = "no"
         /\ entryKey[e] \in Key /\ entries[entryKey[e]] = e
<1>1. refs[e] = Cardinality(Shown(e)) + Cardinality(Waiting(e))
      /\ Cardinality(Shown(e)) \in Nat /\ Cardinality(Waiting(e)) \in Nat
      /\ (Cardinality(Shown(e)) > 0 \/ Cardinality(Waiting(e)) > 0)
  BY Counts
<1>2. refs[e] \in Nat /\ refs[e] > 0
  BY <1>1
<1> QED
  BY <1>2 DEF IInv, PoolInv, Owned

LEMMA TilesShowTheirItem == IInv => TileShowsItsItem
<1> SUFFICES ASSUME IInv PROVE TileShowsItsItem
  OBVIOUS
<1>1. ASSUME NEW m \in Media, sprite[m] # None
      PROVE  /\ promise[sprite[m]] = "loaded" /\ unloading[sprite[m]] = "no"
             /\ currentUri[m] # NoKey /\ entries[currentUri[m]] = sprite[m]
  <2>1. /\ sprite[m] \in Acquire /\ promise[sprite[m]] = "loaded" /\ ~disposed
        /\ currentUri[m] = entryKey[sprite[m]] /\ currentUri[m] # NoKey
    BY <1>1 DEF IInv, TypeOK, Records
  <2> QED
    BY <2>1, HeldIsMapped DEF Started
<1> QED
  BY <1>1 DEF TileShowsItsItem, ShownTextureAlive, IInv, Records

LEMMA InitIInv == Init => IInv
<1> SUFFICES ASSUME Init PROVE IInv
  OBVIOUS
<1> USE DEF Init, PoolInit
<1>1. PoolInv
  BY Constants DEF PoolInv, PoolTypeOK, Fresh, Joined, Mapped, Owned, Started, Acquire, None
<1>2. TypeOK
  BY <1>1 DEF PoolInv, TypeOK, MaybeKey
<1>3. LoadsHaveTile /\ Records /\ RefsMatchHolders
  BY DEF LoadsHaveTile, Records, RefsMatchHolders
<1> QED
  BY <1>1, <1>2, <1>3 DEF IInv

-----------------------------------------------------------------------------
(* What the pool does on its own.                                          *)
LEMMA PoolStepStep ==
  ASSUME IInv, PoolStep, UNCHANGED <<recordVars, item, loadOf, disposed>>
  PROVE  IInv'
<1> USE DEF recordVars
<1>1. PoolInv'
  BY PoolStepKeepsPool DEF IInv
<1>2. TypeOK'
  BY <1>1 DEF IInv, TypeOK, PoolInv
<1>3. /\ UNCHANGED <<entryKey, joined>>
      /\ \A e \in Acquire : promise[e] = "loaded" => promise'[e] = "loaded"
      /\ \A e \in Acquire : promise'[e] \notin {"none", "failed"} =>
           promise[e] \notin {"none", "failed"} /\ refs'[e] = refs[e]
  BY DEF PoolStep, StartLoad, LoadResolves, LoadRejects, Unload, EndUnload, IInv, PoolInv, PoolTypeOK
<1>4. LoadsHaveTile'
  BY <1>3 DEF IInv, LoadsHaveTile
<1>5. Records'
  BY <1>3 DEF IInv, TypeOK, Records
<1>6. RefsMatchHolders'
  BY <1>3 DEF IInv, RefsMatchHolders, Undelivered
<1> QED
  BY <1>1, <1>2, <1>4, <1>5, <1>6 DEF IInv

-----------------------------------------------------------------------------
(* A record lets go of its texture: the item has no URI, or is not shown.  *)
LEMMA DetachStep ==
  ASSUME IInv, ~disposed, NEW m \in Media, NEW x \in {NoKey, Absent},
         detachTexture(m), item' = [item EXCEPT ![m] = x],
         failedUri' = [failedUri EXCEPT ![m] = NoKey], UNCHANGED <<loadOf, disposed>>
  PROVE  IInv'
<1>1. TypeOK /\ currentUri[m] \in MaybeKey
  BY DEF IInv, TypeOK
<1>2. /\ loadRevision' = [loadRevision EXCEPT ![m] = None]
      /\ desiredUri' = [desiredUri EXCEPT ![m] = NoKey]
      /\ sprite' = [sprite EXCEPT ![m] = None]
      /\ currentUri' = [currentUri EXCEPT ![m] = NoKey]
      /\ release(currentUri[m])
      /\ UNCHANGED <<nextAcquire, entries, entryKey, promise, prior, joined>>
  BY DEF detachTexture, detachCurrentSprite
<1>3. PoolInv'
  BY <1>1, <1>2, ReleaseKeepsPool DEF IInv
<1>4. TypeOK'
  BY <1>1, <1>2, <1>3 DEF TypeOK, PoolInv, MaybeKey
<1>5. LoadsHaveTile'
  BY <1>2 DEF IInv, LoadsHaveTile
<1>6. Records'
  BY <1>1, <1>2 DEF IInv, TypeOK, Records
<1>7. ASSUME NEW e \in Acquire
      PROVE  Cardinality(Where(sprite', Media, e)) =
               Cardinality(Shown(e)) - (IF sprite[m] = e THEN 1 ELSE 0)
  <2>1. sprite'[m] = None /\ \A y \in Media : y # m => sprite'[y] = sprite[y]
    BY <1>1, <1>2 DEF TypeOK
  <2>2. Where(sprite', Media, e) = Shown(e) \ {m} /\ (m \in Shown(e) <=> sprite[m] = e)
    BY <2>1, Constants DEF Shown, Where
  <2>3. IsFiniteSet(Shown(e))
    BY Constants, FS_Subset DEF Shown, Where
  <2> QED
    BY <2>2, <2>3, CountLoses
<1>8. ASSUME NEW e \in Acquire, promise[e] \in Started
      PROVE  refs'[e] = refs[e] - (IF sprite[m] = e THEN 1 ELSE 0)
  <2>1. refs[e] \in Nat
    BY <1>1 DEF TypeOK, PoolTypeOK
  <2>2. CASE sprite[m] = None
    <3>1. refs' = refs /\ sprite[m] # e
      BY <1>2, <2>2, Constants DEF IInv, Records, release
    <3> QED
      BY <2>1, <3>1
  <2>3. CASE sprite[m] # None
    <3> DEFINE s == sprite[m]
    <3>1. /\ s \in Acquire /\ promise[s] = "loaded" /\ currentUri[m] = entryKey[s]
          /\ currentUri[m] # NoKey
      BY <1>1, <2>3 DEF TypeOK, IInv, Records
    <3>2. refs[s] # 0 /\ entries[currentUri[m]] = s
      BY <3>1, HeldIsMapped DEF Started
    <3>3. refs' = [refs EXCEPT ![s] = refs[s] - 1]
      BY <1>2, <2>3, <3>1, <3>2 DEF release
    <3> QED
      BY <1>1, <2>1, <3>1, <3>3 DEF TypeOK, PoolTypeOK
  <2> QED
    BY <2>2, <2>3
<1>9. ASSUME NEW e \in Acquire, promise[e] \in Started
      PROVE  refs'[e] = Cardinality(Where(sprite', Media, e)) + Cardinality(Waiting(e))
  <2>1. refs[e] = Cardinality(Shown(e)) + Cardinality(Waiting(e))
        /\ Cardinality(Shown(e)) \in Nat /\ Cardinality(Waiting(e)) \in Nat
    BY <1>9, Counts
  <2> QED
    BY <1>7, <1>8, <1>9, <2>1
<1>10. RefsMatchHolders'
  BY <1>1, <1>2, <1>9
     DEF RefsMatchHolders, Undelivered, Waiting, Where, TypeOK, PoolTypeOK, Started
<1> QED
  BY <1>3, <1>4, <1>5, <1>6, <1>10 DEF IInv

LEMMA BeginLoadStep ==
  ASSUME IInv, ~disposed, NEW m \in Media, NEW uri \in Key, beginTextureLoad(m, uri),
         uri \notin {currentUri[m], desiredUri[m], failedUri[m]},
         item[m] \in {Absent, NoKey, uri}, item' = [item EXCEPT ![m] = uri],
         UNCHANGED disposed
  PROVE  IInv'
<1> DEFINE a == nextAcquire
<1>1. /\ acquire(uri)
      /\ loadRevision' = [loadRevision EXCEPT ![m] = a]
      /\ desiredUri' = [desiredUri EXCEPT ![m] = uri]
      /\ failedUri' = [failedUri EXCEPT ![m] = NoKey]
      /\ loadOf' = [loadOf EXCEPT ![a] = m]
      /\ UNCHANGED <<currentUri, sprite>>
  BY DEF beginTextureLoad
<1>2. /\ a \in Acquire /\ a # None /\ joined[a] = None /\ promise[a] = "none"
      /\ unloading' = unloading
  BY <1>1, Constants DEF acquire, IInv, PoolInv, Fresh
<1>3. PoolInv' /\ PoolInv /\ TypeOK
  BY <1>1, AcquireKeepsPool DEF IInv
<1> HIDE DEF a
<1>4. TypeOK'
  BY <1>1, <1>2, <1>3 DEF TypeOK, PoolInv, MaybeKey
<1>5. currentUri[m] = NoKey
  BY <1>3, Constants DEF IInv, Records, TypeOK, MaybeKey
<1>6. PICK e0 \in Acquire :
        /\ joined' = [joined EXCEPT ![a] = e0]
        /\ \/ /\ promise[e0] \in Started /\ promise' = promise /\ entryKey' = entryKey
              /\ refs' = [refs EXCEPT ![e0] = refs[e0] + 1]
           \/ /\ e0 = a /\ promise' = [promise EXCEPT ![a] = "waiting"]
              /\ entryKey' = [entryKey EXCEPT ![a] = uri]
              /\ refs' = [refs EXCEPT ![a] = 1]
  <2>1. CASE entries[uri] # None /\ unloading[entries[uri]] = "no"
    <3>1. entries[uri] \in Acquire /\ promise[entries[uri]] \in Started
      BY <1>3, <2>1 DEF PoolInv, PoolTypeOK, Mapped
    <3>2. /\ joined' = [joined EXCEPT ![a] = entries[uri]]
          /\ refs' = [refs EXCEPT ![entries[uri]] = refs[entries[uri]] + 1]
          /\ promise' = promise /\ entryKey' = entryKey
      BY <1>1, <2>1 DEF acquire, Join, a
    <3> QED
      BY <3>1, <3>2
  <2>2. CASE ~(entries[uri] # None /\ unloading[entries[uri]] = "no")
    BY <1>1, <1>2, <2>2 DEF acquire, AddEntry, a
  <2> QED
    BY <2>1, <2>2
<1>7. LoadsHaveTile'
  BY <1>1, <1>2, <1>3, <1>6 DEF IInv, LoadsHaveTile, TypeOK, PoolTypeOK
<1>8. \A e \in Acquire : promise[e] # "none" => promise'[e] = promise[e] /\ entryKey'[e] = entryKey[e]
  BY <1>2, <1>3, <1>6 DEF PoolInv, PoolTypeOK
<1>9. Records'
  <2>1. \A t \in Media : sprite[t] # None => sprite[t] \in Acquire /\ promise[sprite[t]] # "none"
    BY <1>3 DEF IInv, Records, TypeOK
  <2>2. ASSUME NEW t \in Media, sprite[t] # None
        PROVE  promise'[sprite[t]] = "loaded" /\ currentUri[t] = entryKey'[sprite[t]]
    BY <1>8, <2>1, <2>2 DEF IInv, Records
  <2>3. ASSUME NEW t \in Media
        PROVE  /\ NoKey \in {currentUri[t], desiredUri'[t]}
               /\ {currentUri[t], desiredUri'[t], failedUri'[t]} \subseteq {NoKey, item'[t]}
    BY <1>1, <1>3, <1>5 DEF IInv, Records, TypeOK
  <2> QED
    BY <1>1, <2>2, <2>3 DEF IInv, Records
<1>10. ASSUME NEW e \in Acquire
       PROVE  Cardinality(Where(joined', Acquire, e)) =
                Cardinality(Waiting(e)) + (IF e = e0 THEN 1 ELSE 0)
  <2>1. joined'[a] = e0 /\ \A b \in Acquire : b # a => joined'[b] = joined[b]
    BY <1>2, <1>3, <1>6 DEF PoolInv, PoolTypeOK
  <2>2. joined[a] # e
    BY <1>2, Constants
  <2>3. IsFiniteSet(Waiting(e))
    BY Constants, FS_Subset DEF Waiting, Where
  <2>4. CASE e = e0
    <3>1. Where(joined', Acquire, e) = Waiting(e) \cup {a} /\ a \notin Waiting(e)
      BY <1>2, <2>1, <2>2, <2>4 DEF Waiting, Where
    <3> QED
      BY <2>3, <2>4, <3>1, CountGains
  <2>5. CASE e # e0
    <3>1. Where(joined', Acquire, e) = Waiting(e)
      BY <2>1, <2>2, <2>5 DEF Waiting, Where
    <3>2. Cardinality(Waiting(e)) \in Nat
      BY <2>3, FS_CardinalityType
    <3> QED
      BY <2>5, <3>1, <3>2
  <2> QED
    BY <2>4, <2>5
<1>11. ASSUME NEW e \in Acquire, promise'[e] \in Started
       PROVE  refs'[e] = Cardinality(Shown(e)) + Cardinality(Where(joined', Acquire, e))
  <2>1. CASE promise[e] \in Started
    <3>1. refs[e] = Cardinality(Shown(e)) + Cardinality(Waiting(e))
          /\ Cardinality(Shown(e)) \in Nat /\ Cardinality(Waiting(e)) \in Nat
      BY <2>1, Counts
    <3>2. refs'[e] = refs[e] + (IF e = e0 THEN 1 ELSE 0)
      <4>1. e # a /\ refs \in [Acquire -> Nat] /\ refs[e] \in Nat
        BY <1>2, <1>3, <2>1 DEF Started, PoolInv, PoolTypeOK
      <4> QED
        BY <1>6, <4>1
    <3> QED
      BY <1>10, <3>1, <3>2
  <2>2. CASE promise[e] \notin Started
    <3>1. e = a /\ e0 = a /\ refs'[e] = 1
      BY <1>2, <1>3, <1>6, <1>11, <2>2 DEF PoolInv, PoolTypeOK
    <3>2. \A t \in Media : sprite[t] # e
      BY <1>2, <3>1 DEF IInv, Records
    <3>3. \A b \in Acquire : joined[b] # e
      BY <1>2, <1>3, <3>1 DEF PoolInv, Joined
    <3>4. Cardinality(Shown(e)) = 0 /\ Cardinality(Waiting(e)) = 0
      BY <3>2, <3>3, CountNone DEF Shown, Waiting
    <3> QED
      BY <1>10, <3>1, <3>4
  <2> QED
    BY <2>1, <2>2
<1>12. RefsMatchHolders'
  <2>1. \A e \in Acquire : promise'[e] \notin {"none", "failed"} => promise'[e] \in Started
    BY <1>3 DEF PoolInv, PoolTypeOK, Started
  <2> QED
    BY <1>1, <1>11, <2>1 DEF RefsMatchHolders, Undelivered, Shown, Where
<1> QED
  BY <1>3, <1>4, <1>7, <1>9, <1>12 DEF IInv

LEMMA UpdateStep ==
  ASSUME IInv, NEW m \in Media, NEW uri \in MaybeKey, update(m, uri)
  PROVE  IInv'
<1>1. /\ ~disposed /\ UNCHANGED disposed
      /\ item[m] \in {Absent, NoKey, uri} \/ uri = NoKey
      /\ item' = [item EXCEPT ![m] = uri]
      /\ updateRecord(m, uri)
  BY DEF update
<1>2. CASE uri = NoKey
  BY <1>1, <1>2, DetachStep DEF updateRecord
<1>3. CASE uri # NoKey /\ uri \in {currentUri[m], desiredUri[m], failedUri[m]}
  <2>1. UNCHANGED <<poolVars, recordVars, loadOf>>
    BY <1>1, <1>3 DEF updateRecord, beginTextureLoad
  <2>2. item[m] = uri
    BY <1>3 DEF IInv, Records
  <2>3. item' = item
    BY <1>1, <2>2 DEF IInv, TypeOK
  <2> QED
    BY <1>1, <2>1, <2>3
       DEF IInv, TypeOK, PoolTypeOK, PoolInv, Fresh, Joined, Mapped, Owned, LoadsHaveTile,
           Records, RefsMatchHolders, Undelivered, poolVars, recordVars
<1>4. CASE uri # NoKey /\ uri \notin {currentUri[m], desiredUri[m], failedUri[m]}
  BY <1>1, <1>4, BeginLoadStep DEF updateRecord, MaybeKey
<1> QED
  BY <1>2, <1>3, <1>4

LEMMA RemoveRecordStep ==
  ASSUME IInv, NEW m \in Media, removeRecord(m)
  PROVE  IInv'
BY DetachStep DEF removeRecord

LEMMA DestroyStep ==
  ASSUME IInv, destroy
  PROVE  IInv'
<1>1. /\ disposed' = TRUE
      /\ item' = [m \in Media |-> Absent]
      /\ currentUri' = [m \in Media |-> NoKey]
      /\ desiredUri' = [m \in Media |-> NoKey]
      /\ failedUri' = [m \in Media |-> NoKey]
      /\ loadRevision' = [m \in Media |-> None]
      /\ sprite' = [m \in Media |-> None]
      /\ releaseAll
      /\ UNCHANGED <<nextAcquire, entries, entryKey, promise, prior, joined, loadOf>>
  BY DEF destroy
<1>2. PoolInv'
  BY <1>1, ReleaseAllKeepsPool DEF IInv
<1>3. TypeOK'
  BY <1>1, <1>2 DEF IInv, TypeOK, PoolInv, MaybeKey
<1>4. LoadsHaveTile' /\ Records' /\ RefsMatchHolders'
  BY <1>1 DEF IInv, LoadsHaveTile, Records, RefsMatchHolders
<1> QED
  BY <1>2, <1>3, <1>4 DEF IInv

-----------------------------------------------------------------------------
(* A continuation runs.                                                    *)
LEMMA DeliveryCounts ==
  ASSUME IInv, NEW a \in Acquire, joined[a] # None, joined' = [joined EXCEPT ![a] = None],
         NEW e \in Acquire
  PROVE  /\ Cardinality(Waiting(e)) \in Nat
         /\ Cardinality(Where(joined', Acquire, e)) =
              Cardinality(Waiting(e)) - (IF joined[a] = e THEN 1 ELSE 0)
<1>1. joined'[a] = None /\ \A b \in Acquire : b # a => joined'[b] = joined[b]
  BY DEF IInv, PoolInv, PoolTypeOK
<1>2. Where(joined', Acquire, e) = Waiting(e) \ {a} /\ (a \in Waiting(e) <=> joined[a] = e)
  BY <1>1, Constants DEF Waiting, Where
<1>3. IsFiniteSet(Waiting(e))
  BY Constants, FS_Subset DEF Waiting, Where
<1>4. Cardinality(Waiting(e)) \in Nat
  BY <1>3, FS_CardinalityType
<1>5. joined[a] = e => Cardinality(Where(joined', Acquire, e)) = Cardinality(Waiting(e)) - 1
  BY <1>2, <1>3, CountLoses
<1>6. joined[a] # e => Cardinality(Where(joined', Acquire, e)) = Cardinality(Waiting(e))
  BY <1>2, <1>3, CountLoses
<1> QED
  BY <1>4, <1>5, <1>6

LEMMA DropTextureStep ==
  ASSUME IInv, NEW a \in Acquire, DropTexture(a)
  PROVE  IInv'
<1> DEFINE e0 == joined[a]
<1>1. /\ e0 # None /\ promise[e0] = "loaded"
      /\ joined' = [joined EXCEPT ![a] = None]
      /\ loadOf' = [loadOf EXCEPT ![a] = None]
      /\ UNCHANGED <<nextAcquire, entries, entryKey, promise, prior, item, disposed>>
      /\ release(entryKey[e0])
      /\ UNCHANGED <<currentUri, desiredUri, failedUri, loadRevision, sprite>>
  BY DEF DropTexture, Delivers, uriOf, recordVars
<1>2. TypeOK /\ e0 \in Acquire
  BY <1>1 DEF IInv, TypeOK, PoolTypeOK
<1> HIDE DEF e0
<1>3. entryKey[e0] \in MaybeKey
  BY <1>2 DEF TypeOK, PoolTypeOK, MaybeKey
<1>4. PoolInv'
  BY <1>1, <1>3, ReleaseKeepsPool DEF IInv
<1>5. TypeOK'
  BY <1>1, <1>2, <1>4 DEF TypeOK, PoolInv
<1>6. LoadsHaveTile' /\ Records'
  BY <1>1, <1>2 DEF IInv, LoadsHaveTile, Records, TypeOK, PoolTypeOK
<1>7. ASSUME ~disposed, NEW e \in Acquire, promise[e] \in Started
      PROVE  refs'[e] = Cardinality(Shown(e)) + Cardinality(Where(joined', Acquire, e))
  <2>1. refs[e] = Cardinality(Shown(e)) + Cardinality(Waiting(e))
        /\ Cardinality(Shown(e)) \in Nat /\ Cardinality(Waiting(e)) \in Nat
    BY <1>7, Counts
  <2>2. refs[e0] # 0 /\ entries[entryKey[e0]] = e0 /\ entryKey[e0] # NoKey
    BY <1>1, <1>2, <1>7, Constants, HeldIsMapped DEF Started, e0
  <2>3. refs' = [refs EXCEPT ![e0] = refs[e0] - 1]
    <3>1. release(entryKey[e0])
      BY <1>1
    <3> QED
      BY <1>2, <2>2, <3>1, Constants DEF release
  <2>4. refs'[e] = refs[e] - (IF e0 = e THEN 1 ELSE 0)
    BY <1>2, <2>1, <2>3 DEF TypeOK, PoolTypeOK
  <2>5. Cardinality(Where(joined', Acquire, e)) = Cardinality(Waiting(e)) - (IF e0 = e THEN 1 ELSE 0)
    BY <1>1, DeliveryCounts DEF e0
  <2> QED
    BY <2>1, <2>4, <2>5
<1>8. RefsMatchHolders'
  <2>1. \A e \in Acquire : promise[e] \notin {"none", "failed"} => promise[e] \in Started
    BY <1>2 DEF TypeOK, PoolTypeOK, Started
  <2> QED
    BY <1>1, <1>7, <2>1 DEF RefsMatchHolders, Undelivered, Shown, Where
<1> QED
  BY <1>4, <1>5, <1>6, <1>8 DEF IInv

(* The tile that waits for a texture shows nothing: desiredUri is a key.   *)
LEMMA ShowTextureStep ==
  ASSUME IInv, NEW a \in Acquire, ShowTexture(a)
  PROVE  IInv'
<1> DEFINE e0 == joined[a]
           m  == loadOf[a]
<1>1. /\ e0 # None /\ promise[e0] = "loaded" /\ ~disposed
      /\ desiredUri[m] = entryKey[e0]
      /\ joined' = [joined EXCEPT ![a] = None]
      /\ loadOf' = [loadOf EXCEPT ![a] = None]
      /\ UNCHANGED <<nextAcquire, entries, entryKey, promise, prior, item, disposed>>
      /\ release(currentUri[m])
      /\ sprite' = [sprite EXCEPT ![m] = e0]
      /\ currentUri' = [currentUri EXCEPT ![m] = entryKey[e0]]
      /\ desiredUri' = [desiredUri EXCEPT ![m] = NoKey]
      /\ UNCHANGED <<failedUri, loadRevision>>
  BY DEF ShowTexture, Delivers, uriOf, Awaited
<1>2. TypeOK /\ e0 \in Acquire /\ m \in Media
  BY <1>1 DEF IInv, TypeOK, PoolTypeOK, LoadsHaveTile
<1>3. \A b \in Acquire : b # a => loadOf'[b] = loadOf[b] /\ joined'[b] = joined[b]
  BY <1>1, <1>2 DEF TypeOK, PoolTypeOK
<1>4. joined'[a] = None
  BY <1>1, <1>2 DEF TypeOK, PoolTypeOK
<1> HIDE DEF e0, m
<1>5. entryKey[e0] \in Key /\ entryKey[e0] # NoKey
  BY <1>1, <1>2, Constants DEF IInv, PoolInv, Owned, Started
<1>6. currentUri[m] = NoKey /\ sprite[m] = None
  BY <1>1, <1>2, <1>5 DEF IInv, Records
<1>7. UNCHANGED <<refs, unloading>>
  BY <1>1, <1>6 DEF release
<1>8. PoolInv'
  <2>1. NoKey \in MaybeKey /\ release(NoKey)
    BY <1>1, <1>6 DEF MaybeKey
  <2> QED
    BY <1>1, <2>1, ReleaseKeepsPool DEF IInv
<1>9. TypeOK'
  BY <1>1, <1>2, <1>5, <1>8 DEF TypeOK, PoolInv, MaybeKey
<1>10. LoadsHaveTile'
  BY <1>3, <1>4 DEF IInv, LoadsHaveTile
<1>11. Records'
  BY <1>1, <1>2, <1>5, Constants DEF IInv, Records, TypeOK
<1>12. ASSUME NEW e \in Acquire
       PROVE  Cardinality(Where(sprite', Media, e)) =
                Cardinality(Shown(e)) + (IF e = e0 THEN 1 ELSE 0)
  <2>1. sprite'[m] = e0 /\ \A t \in Media : t # m => sprite'[t] = sprite[t]
    BY <1>1, <1>2 DEF TypeOK
  <2>2. IsFiniteSet(Shown(e))
    BY Constants, FS_Subset DEF Shown, Where
  <2>3. CASE e = e0
    <3>1. Where(sprite', Media, e) = Shown(e) \cup {m} /\ m \notin Shown(e)
      BY <1>2, <1>6, <2>1, <2>3, Constants DEF Shown, Where
    <3> QED
      BY <2>2, <2>3, <3>1, CountGains
  <2>4. CASE e # e0
    <3>1. Where(sprite', Media, e) = Shown(e)
      BY <1>6, <2>1, <2>4, Constants DEF Shown, Where
    <3>2. Cardinality(Shown(e)) \in Nat
      BY <2>2, FS_CardinalityType
    <3> QED
      BY <2>4, <3>1, <3>2
  <2> QED
    BY <2>3, <2>4
<1>13. ASSUME NEW e \in Acquire, promise[e] \in Started
       PROVE  refs[e] = Cardinality(Where(sprite', Media, e)) + Cardinality(Where(joined', Acquire, e))
  <2>1. refs[e] = Cardinality(Shown(e)) + Cardinality(Waiting(e))
        /\ Cardinality(Shown(e)) \in Nat /\ Cardinality(Waiting(e)) \in Nat
    BY <1>1, <1>13, Counts
  <2>2. Cardinality(Where(joined', Acquire, e)) = Cardinality(Waiting(e)) - (IF e0 = e THEN 1 ELSE 0)
    BY <1>1, DeliveryCounts DEF e0
  <2>3. Cardinality(Where(sprite', Media, e)) = Cardinality(Shown(e)) + (IF e = e0 THEN 1 ELSE 0)
    BY <1>12
  <2> QED
    BY <2>1, <2>2, <2>3
<1>14. RefsMatchHolders'
  <2>1. \A e \in Acquire : promise[e] \notin {"none", "failed"} => promise[e] \in Started
    BY <1>2 DEF TypeOK, PoolTypeOK, Started
  <2> QED
    BY <1>1, <1>7, <1>13, <2>1 DEF RefsMatchHolders, Undelivered, Where
<1> QED
  BY <1>8, <1>9, <1>10, <1>11, <1>14 DEF IInv

(* The entry of a load that failed counts nothing any more.                *)
LEMMA LoadFailedStep ==
  ASSUME IInv, NEW a \in Acquire, LoadFailed(a)
  PROVE  IInv'
<1> DEFINE e0 == joined[a]
           m  == loadOf[a]
<1>1. /\ e0 # None /\ promise[e0] = "failed"
      /\ joined' = [joined EXCEPT ![a] = None]
      /\ loadOf' = [loadOf EXCEPT ![a] = None]
      /\ UNCHANGED <<nextAcquire, entries, entryKey, promise, prior, item, disposed>>
      /\ UNCHANGED <<refs, unloading, currentUri, loadRevision, sprite>>
      /\ \/ UNCHANGED <<desiredUri, failedUri>>
         \/ /\ desiredUri' = [desiredUri EXCEPT ![m] = NoKey]
            /\ failedUri' = [failedUri EXCEPT ![m] = desiredUri[m]]
  BY DEF LoadFailed, Delivers, Awaited, recordVars
<1>2. TypeOK /\ e0 \in Acquire /\ m \in Media
  BY <1>1 DEF IInv, TypeOK, PoolTypeOK, LoadsHaveTile
<1>3. \A b \in Acquire : b # a => loadOf'[b] = loadOf[b] /\ joined'[b] = joined[b]
  BY <1>1, <1>2 DEF TypeOK, PoolTypeOK
<1>4. joined'[a] = None /\ joined[a] = e0
  BY <1>1, <1>2 DEF TypeOK, PoolTypeOK
<1> HIDE DEF e0, m
<1>5. PoolInv'
  <2>1. NoKey \in MaybeKey /\ release(NoKey)
    BY <1>1 DEF MaybeKey, release
  <2> QED
    BY <1>1, <2>1, ReleaseKeepsPool DEF IInv
<1>6. TypeOK'
  BY <1>1, <1>2, <1>5 DEF TypeOK, PoolInv, MaybeKey
<1>7. LoadsHaveTile'
  BY <1>3, <1>4 DEF IInv, LoadsHaveTile
<1>8. Records'
  BY <1>1, <1>2 DEF IInv, Records, TypeOK
<1>9. ASSUME NEW e \in Acquire, promise[e] \notin {"none", "failed"}
      PROVE  {b \in Acquire : joined'[b] = e} = Undelivered(e)
  BY <1>1, <1>3, <1>4, <1>9, Constants DEF Undelivered
<1>10. RefsMatchHolders'
  BY <1>1, <1>9 DEF IInv, RefsMatchHolders, Undelivered
<1> QED
  BY <1>5, <1>6, <1>7, <1>8, <1>10 DEF IInv

-----------------------------------------------------------------------------
LEMMA StepKeepsIInv == IInv /\ [Next]_vars => IInv'
<1> SUFFICES ASSUME IInv, [Next]_vars PROVE IInv'
  OBVIOUS
<1>1. CASE \E m \in Media, uri \in MaybeKey : update(m, uri)
  BY <1>1, UpdateStep
<1>2. CASE \E m \in Media : removeRecord(m)
  BY <1>2, RemoveRecordStep
<1>3. CASE destroy
  BY <1>3, DestroyStep
<1>4. CASE \E a \in Acquire : DropTexture(a)
  BY <1>4, DropTextureStep
<1>5. CASE \E a \in Acquire : ShowTexture(a)
  BY <1>5, ShowTextureStep
<1>6. CASE \E a \in Acquire : LoadFailed(a)
  BY <1>6, LoadFailedStep
<1>7. CASE PoolStep /\ UNCHANGED <<recordVars, item, loadOf, disposed>>
  BY <1>7, PoolStepStep
<1>8. CASE UNCHANGED vars
  BY <1>8 DEF IInv, TypeOK, PoolTypeOK, PoolInv, Fresh, Joined, Mapped, Owned, LoadsHaveTile,
              Records, RefsMatchHolders, Undelivered, vars, poolVars, recordVars
<1> QED
  BY <1>1, <1>2, <1>3, <1>4, <1>5, <1>6, <1>7, <1>8 DEF Next

(* In every reachable state an entry with references is the one the map    *)
(* holds for its key, and the records name the URI of their item.          *)
THEOREM Invariance == Safe => []IInv
<1>1. Init => IInv
  BY InitIInv
<1>2. IInv /\ [Next]_vars => IInv'
  BY StepKeepsIInv
<1> QED
  BY <1>1, <1>2, PTL DEF Safe

(* Every variable of the renderer and of the pool keeps its type.          *)
THEOREM TypeCorrect == Safe => []TypeOK
<1>1. IInv => TypeOK
  BY DEF IInv
<1> QED
  BY <1>1, Invariance, PTL

(* AssetLeasePool never loses or invents a reference: refs counts the      *)
(* tiles that show the texture and the loads whose continuation is to      *)
(* come, though release is told a key and not an entry.                    *)
THEOREM RefsMatchHoldersHolds == Safe => []RefsMatchHolders
<1>1. IInv => RefsMatchHolders
  BY DEF IInv
<1> QED
  BY <1>1, Invariance, PTL

(* No late load, release or unload leaves a tile with the texture of       *)
(* another URI or one that is destroyed under it.                          *)
THEOREM TileShowsItsItemHolds == Safe => []TileShowsItsItem
<1>1. IInv => TileShowsItsItem
  BY TilesShowTheirItem
<1> QED
  BY <1>1, Invariance, PTL
===============================================================================
