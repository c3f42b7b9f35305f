------------------------- MODULE ThumbnailBackend_proofs -------------------------
(***************************************************************************)
(* Proofs about ThumbnailBackend over its three registries: for every set  *)
(* of calls and of cache files, both reference counts match their users,   *)
(* a key serves its file, and a cancellation is not lost.                  *)
(***************************************************************************)
EXTENDS ThumbnailBackend, FiniteSetTheorems, WellFoundedInduction, TLAPS

-----------------------------------------------------------------------------
(* How many there are in a set that changes.                               *)

LEMMA CountLoses ==
  ASSUME NEW A, NEW B, NEW x, IsFiniteSet(A), B = A \ {x}
  PROVE  /\ Cardinality(A) \in Nat
         /\ x \in A => Cardinality(B) = Cardinality(A) - 1
         /\ x \notin A => Cardinality(B) = Cardinality(A)
<1>1. Cardinality(A) \in Nat
  BY FS_CardinalityType
<1>2. x \in A => Cardinality(B) = Cardinality(A) - 1
  BY FS_RemoveElement
<1>3. x \notin A => B = A
  OBVIOUS
<1> QED
  BY <1>1, <1>2, <1>3

LEMMA CountGains ==
  ASSUME NEW A, NEW B, NEW x, IsFiniteSet(A), x \notin A, B = A \cup {x}
  PROVE  Cardinality(A) \in Nat /\ Cardinality(B) = Cardinality(A) + 1
BY FS_CardinalityType, FS_AddElement

(* Whoever is counted shows in the count, and an only one is alone.        *)
LEMMA CountOfMember ==
  ASSUME NEW A, IsFiniteSet(A), NEW x \in A
  PROVE  /\ Cardinality(A) \in Nat /\ Cardinality(A) > 0
         /\ Cardinality(A) = 1 => A = {x}
<1>1. Cardinality(A) \in Nat /\ Cardinality(A) # 0
  BY FS_CardinalityType, FS_EmptySet
<1>2. ASSUME Cardinality(A) = 1 PROVE A = {x}
  <2>1. \E y : A = {y}
    BY <1>2, FS_Singleton
  <2> QED
    BY <2>1
<1> QED
  BY <1>1, <1>2

(* The least-number principle, from the well-foundedness of inclusion      *)
(* among finite sets.                                                      *)
LEMMA LeastNatural ==
  ASSUME NEW T \in SUBSET Nat, T # {}
  PROVE  \E n \in T : \A m \in T : n <= m
<1> DEFINE U == {0 .. n : n \in T}
           R == StrictSubsetOrdering(Nat)
<1>1. \A n \in T : IsFiniteSet(0 .. n) /\ 0 .. n \in SUBSET Nat
  BY FS_Interval
<1>2. U \subseteq FiniteSubsetsOf(Nat) /\ U # {}
  BY <1>1 DEF FiniteSubsetsOf
<1>3. PICK A \in U : \A B \in U : <<B, A>> \notin R
  <2> HIDE DEF U, R
  <2>1. IsWellFoundedOn(R, FiniteSubsetsOf(Nat))
    BY FS_StrictSubsetOrderingWellFounded DEF R
  <2> QED
    BY <1>2, <2>1, WFMin
<1>4. PICK n \in T : A = 0 .. n
  OBVIOUS
<1>5. ASSUME NEW m \in T, m < n PROVE FALSE
  <2>1. 0 .. m \in U /\ 0 .. m \in SUBSET Nat /\ 0 .. n \in SUBSET Nat
    OBVIOUS
  <2>2. 0 .. m \subseteq 0 .. n /\ n \in 0 .. n /\ n \notin 0 .. m
    BY <1>5
  <2>3. 0 .. m # 0 .. n
    BY <2>2
  <2>4. <<0 .. m, 0 .. n>> \in R
    BY <2>1, <2>2, <2>3 DEF StrictSubsetOrdering
  <2> QED
    BY <1>3, <1>4, <2>1, <2>4
<1> QED
  BY <1>5

-----------------------------------------------------------------------------
(* The inductive invariant, in terms of sets of calls.                     *)

Early == {"idle", "invoked", "started", "probed", "reusing", "decoding", "ready"}
Busy  == Stage \ {"idle", "invoked", "finished", "answered"}

\* Calls that may have been given a key, and those whose key is still good.
Given == {c \in Call : pc[c] \notin Early}
Keyed == {c \in Call :
            \/ pc[c] \in {"derived", "maintaining", "pruning", "registered", "undoing"}
            \/ Delivering(c)}

\* The users CountsMatchUsers counts.
Derived == {c \in Call : UsesDerived(c)}
Cached  == {c \in Call : UsesCache(c)}
DerivedUsers(p) == {c \in Derived : path[c] = p /\ key[c].generation = generation}
CacheUsers(k)   == {c \in Cached : key[c] = k}

CallTypeOK ==
  /\ pc \in [Call -> Stage]
  /\ path \in [Call -> Path \cup {NoPath}]
  /\ source \in [Call -> 1 .. MaxGeneration]
  /\ newly \in [Call -> BOOLEAN]
  /\ key \in [Call -> ResourceKey]
  /\ outcome \in [Call -> {"none", "ok", "error"}]
  /\ prune \in [Call -> [protected : SUBSET Path, candidates : SUBSET Path,
                         total : 0 .. Cardinality(Path)]]
  /\ cancelCmd \in [Call -> {"none", "sent", "done"}]
  /\ releaseCmd \in [Call -> {"none", "half", "done"}]

Stages == \A c \in Call :
  /\ pc[c] # "idle" => path[c] \in Path
  /\ releaseCmd[c] # "none" => pc[c] = "answered" /\ outcome[c] = "ok"
  /\ pc[c] = "pruning" => prune[c].total > 0
CallInv == CallTypeOK /\ Stages

(* The keys the registry has given out: a number is never given twice in a *)
(* generation, and while a call uses its key the registry knows it.        *)
RegistryInv ==
  /\ ResourceTypeOK
  /\ nextKey <= Cardinality(Given)
  /\ \A p \in Path : derivedKey[p] = NoKey <=> registrations[p] = 0
  /\ \A p \in Path : derivedKey[p] < nextKey
  /\ \A p, q \in Path : derivedKey[p] = derivedKey[q] /\ derivedKey[p] # NoKey => p = q
  /\ \A c \in Keyed : key[c].generation <= generation
  /\ \A c \in Keyed : key[c].generation = generation =>
       key[c].number < nextKey /\ \A p \in Path : derivedKey[p] = key[c].number => p = path[c]
  /\ \A c \in Derived : key[c].generation = generation => derivedKey[path[c]] = key[c].number
  /\ \A p \in Path : registrations[p] = Cardinality(DerivedUsers(p))

(* A key names one file for ever, so that the cache never sees a conflict. *)
CacheInv ==
  /\ CacheTypeOK
  /\ \A c, d \in Keyed : key[c] = key[d] => path[c] = path[d]
  /\ \A c \in Cached : cachePath[key[c]] = path[c]
  /\ \A k \in ResourceKey : cacheActive[k] = Cardinality(CacheUsers(k))

(* The tombstones are of executed cancellations, the tokens of busy calls. *)
Done    == {d \in Call : cancelCmd[d] = "done"}
Invoked == {c \in Call : pc[c] = "invoked"}
Working == {c \in Call : pc[c] \in Busy}
Idle    == {c \in Call : pc[c] = "idle"}
PushedOut(c) == MaxPendingCancellations <= Cardinality(Done \ {c})
RequestInv ==
  /\ RequestTypeOK
  /\ pending \subseteq Done
  /\ active = Working
  /\ \A c \in Idle : cancelCmd[c] = "none"
  /\ \A c \in Done : c \in Invoked \ pending \/ c \in Working \ cancelled => PushedOut(c)

IInv == CallInv /\ RegistryInv /\ CacheInv /\ RequestInv

-----------------------------------------------------------------------------
LEMMA Constants ==
  /\ IsFiniteSet(Call) /\ IsFiniteSet(Path) /\ NoPath \notin Path
  /\ MaxPendingCancellations \in Nat /\ MaintainEvery \in Nat \ {0}
  /\ MaxFiles \in Nat /\ TargetFiles \in Nat /\ MaxGeneration \in Nat \ {0}
  /\ Cardinality(Call) \in Nat /\ Cardinality(Path) \in Nat
  /\ MaxKey \in Int
BY BackendAssumption, FS_CardinalityType DEF MaxKey

LEMMA TypesMatch ==
  TypeOK <=> CallTypeOK /\ RequestTypeOK /\ ResourceTypeOK /\ CacheTypeOK
BY DEF TypeOK, CallTypeOK

LEMMA UsersAreKeyed ==
  /\ Derived \subseteq Keyed /\ Cached \subseteq Keyed /\ Keyed \subseteq Call
  /\ IsFiniteSet(Given)
  /\ \A p \in Path : IsFiniteSet(DerivedUsers(p))
  /\ \A k \in ResourceKey : IsFiniteSet(CacheUsers(k))
<1>1. Derived \subseteq Keyed /\ Cached \subseteq Keyed /\ Keyed \subseteq Call
  BY DEF Derived, Cached, Keyed, UsesDerived, UsesCache
<1>2. /\ Given \in SUBSET Call
      /\ \A p \in Path : DerivedUsers(p) \in SUBSET Call
      /\ \A k \in ResourceKey : CacheUsers(k) \in SUBSET Call
  BY <1>1 DEF Given, DerivedUsers, CacheUsers
<1> QED
  BY <1>1, <1>2, Constants, FS_Subset

(* A key that is used is the registry's key of its file, and of no other.  *)
LEMMA KeyOfUser ==
  ASSUME CallInv, RegistryInv, NEW c \in Derived, key[c].generation = generation
  PROVE  /\ path[c] \in Path /\ derivedKey[path[c]] = key[c].number
         /\ key[c].number \in 0 .. MaxKey
         /\ ResolveDerived(key[c]) = {path[c]}
<1>1. c \in Call /\ c \in Keyed
  BY UsersAreKeyed
<1>2. path[c] \in Path /\ key[c] \in ResourceKey
  BY <1>1 DEF CallInv, CallTypeOK, Stages, Keyed, Delivering
<1>3. derivedKey[path[c]] = key[c].number /\ key[c].number \in 0 .. MaxKey
  BY <1>2 DEF RegistryInv, ResourceKey
<1>4. \A p \in Path : derivedKey[p] = key[c].number => p = path[c]
  BY <1>1 DEF RegistryInv
<1> QED
  BY <1>2, <1>3, <1>4 DEF ResolveDerived

LEMMA CountsMatch ==
  RegistryInv /\ CacheInv => CountsMatchUsers
<1>1. \A p \in Path : DerivedUsers(p) =
        {c \in Call : /\ UsesDerived(c) /\ path[c] = p /\ key[c].generation = generation}
  BY DEF DerivedUsers, Derived
<1>2. \A k \in ResourceKey : CacheUsers(k) = {c \in Call : UsesCache(c) /\ key[c] = k}
  BY DEF CacheUsers, Cached
<1> QED
  BY <1>1, <1>2 DEF RegistryInv, CacheInv, CountsMatchUsers

LEMMA KeysServe == CallInv /\ RegistryInv => KeyServesItsFile
<1> SUFFICES ASSUME CallInv, RegistryInv, NEW c \in Call
             PROVE  /\ UsesDerived(c) /\ key[c].generation = generation
                         => ResolveDerived(key[c]) = {path[c]}
                    /\ pc[c] = "answered" /\ outcome[c] = "ok"
                         => ResolveDerived(key[c]) \subseteq {path[c]}
  BY DEF KeyServesItsFile
<1>1. UsesDerived(c) /\ key[c].generation = generation => ResolveDerived(key[c]) = {path[c]}
  BY KeyOfUser DEF Derived
<1>2. ASSUME pc[c] = "answered", outcome[c] = "ok"
      PROVE  ResolveDerived(key[c]) \subseteq {path[c]}
  <2>1. c \in Keyed
    BY <1>2 DEF Keyed, Delivering
  <2> QED
    BY <2>1 DEF RegistryInv, ResolveDerived
<1> QED
  BY <1>1, <1>2

LEMMA NotLost == CallInv /\ RequestInv => CancellationNotLost
<1> SUFFICES ASSUME CallInv, RequestInv, NEW c \in Call, cancelCmd[c] = "done",
                    pc[c] \in Stage \ {"finished", "answered"}, pc[c] # "idle",
                    c \notin (IF pc[c] = "invoked" THEN pending ELSE cancelled)
             PROVE  MaxPendingCancellations <=
                      Cardinality({d \in Call \ {c} : cancelCmd[d] = "done"})
  BY DEF CancellationNotLost
<1>1. c \in Done /\ (c \in Invoked \ pending \/ c \in Working \ cancelled)
  BY DEF Done, Invoked, Working, Busy
<1>2. Done \ {c} = {d \in Call \ {c} : cancelCmd[d] = "done"}
  BY DEF Done
<1> QED
  BY <1>1, <1>2 DEF RequestInv, PushedOut

-----------------------------------------------------------------------------
(* The request registry.                                                   *)

(* Only more than MaxPendingCancellations tombstones push one out.         *)
LEMMA EvictedCountIsLeast ==
  ASSUME NEW order \in Seq(Call), NEW set \in SUBSET Call
  PROVE  /\ EvictedCount(order, set) \in 0 .. Len(order)
         /\ \A d \in set : d \in ToSet(SubSeq(order, 1, EvictedCount(order, set))) =>
              MaxPendingCancellations <= Cardinality(set \ {d})
<1> DEFINE kept(n) == set \ ToSet(SubSeq(order, 1, n))
           enough(n) == Cardinality(kept(n)) <= MaxPendingCancellations
           T == {n \in 0 .. Len(order) : enough(n) \/ n = Len(order)}
           e == EvictedCount(order, set)
<1>1. Len(order) \in Nat
  OBVIOUS
<1>2. PICK n \in T : \A m \in T : n <= m
  <2>1. T \in SUBSET Nat /\ Len(order) \in T
    BY <1>1
  <2> HIDE DEF T
  <2> QED
    BY <2>1, LeastNatural
<1>3. n \in 0 .. Len(order) /\ (enough(n) \/ n = Len(order))
      /\ \A m \in 0 .. n - 1 : ~enough(m)
  BY <1>1, <1>2
<1>4. e \in 0 .. Len(order) /\ \A m \in 0 .. e - 1 : ~enough(m)
  BY <1>3 DEF EvictedCount
<1> HIDE DEF e
<1>5. ASSUME NEW d \in set, d \in ToSet(SubSeq(order, 1, e))
      PROVE  MaxPendingCancellations <= Cardinality(set \ {d})
  <2>1. e # 0
    <3>1. ToSet(SubSeq(order, 1, 0)) = {}
      BY DEF ToSet
    <3> QED
      BY <1>5, <3>1
  <2>2. ~enough(e - 1)
    BY <1>1, <1>4, <2>1
  <2>3. IsFiniteSet(set)
    BY Constants, FS_Subset
  <2>4. kept(e - 1) \in SUBSET set
    OBVIOUS
  <2> HIDE DEF kept
  <2>5. Cardinality(kept(e - 1)) <= Cardinality(set) /\ Cardinality(kept(e - 1)) \in Nat
    BY <2>3, <2>4, FS_Subset, FS_CardinalityType
  <2>6. Cardinality(set) \in Nat /\ Cardinality(set \ {d}) = Cardinality(set) - 1
    BY <1>5, <2>3, CountLoses
  <2> QED
    BY <2>2, <2>5, <2>6, Constants
<1> QED
  BY <1>4, <1>5 DEF e

LEMMA PushedOutGrows ==
  ASSUME NEW A \in SUBSET Call, NEW B \in SUBSET Call, A \subseteq B, NEW c
  PROVE  /\ Cardinality(A \ {c}) \in Nat /\ Cardinality(B \ {c}) \in Nat
         /\ Cardinality(A \ {c}) <= Cardinality(B \ {c})
<1>1. IsFiniteSet(B \ {c}) /\ A \ {c} \in SUBSET (B \ {c})
  BY Constants, FS_Subset
<1>2. IsFiniteSet(A \ {c}) /\ Cardinality(A \ {c}) <= Cardinality(B \ {c})
  BY <1>1, FS_Subset
<1> QED
  BY <1>1, <1>2, FS_CardinalityType

LEMMA RequestKept ==
  ASSUME RequestInv, UNCHANGED <<requestVars, cancelCmd>>,
         Idle' \subseteq Idle, Working' = Working, Invoked' \subseteq Invoked
  PROVE  RequestInv'
<1>1. Done' = Done
  BY DEF Done
<1>2. \A c \in Call : PushedOut(c)' <=> PushedOut(c)
  BY <1>1 DEF PushedOut
<1> QED
  BY <1>1, <1>2 DEF RequestInv, RequestTypeOK, requestVars, Done

LEMMA InvokeRequest ==
  ASSUME RequestInv, NEW c \in Idle, UNCHANGED <<requestVars, cancelCmd>>,
         Idle' \subseteq Idle, Working' = Working, Invoked' = Invoked \cup {c}
  PROVE  RequestInv'
<1>1. Done' = Done /\ c \notin Done
  BY DEF Done, RequestInv
<1>2. \A d \in Call : PushedOut(d)' <=> PushedOut(d)
  BY <1>1 DEF PushedOut
<1> QED
  BY <1>1, <1>2 DEF RequestInv, RequestTypeOK, requestVars, Done

LEMMA StartRequest ==
  ASSUME RequestInv, NEW c \in Invoked, register(c), UNCHANGED cancelCmd,
         Idle' \subseteq Idle, Working' = Working \cup {c}, Invoked' = Invoked \ {c}
  PROVE  RequestInv'
<1>1. Done' = Done /\ c \in Call
  BY DEF Done, Invoked
<1>2. \A d \in Call : PushedOut(d)' <=> PushedOut(d)
  BY <1>1 DEF PushedOut
<1>3. /\ pending' = pending \ {c} /\ active' = active \cup {c}
      /\ pendingOrder' = pendingOrder
      /\ cancelled' = IF c \in pending THEN cancelled \cup {c} ELSE cancelled
  BY DEF register
<1>4. RequestTypeOK'
  BY <1>1, <1>3 DEF RequestInv, RequestTypeOK
<1>5. pending' \subseteq Done' /\ active' = Working' /\ \A d \in Idle' : cancelCmd'[d] = "none"
  BY <1>1, <1>3 DEF RequestInv
<1>6. \A d \in Done : d \in Invoked' \ pending' \/ d \in Working' \ cancelled' => PushedOut(d)
  BY <1>3 DEF RequestInv
<1> QED
  BY <1>1, <1>2, <1>4, <1>5, <1>6 DEF RequestInv, Done

LEMMA FinishRequest ==
  ASSUME RequestInv, NEW c \in Call, finish(c), UNCHANGED cancelCmd,
         Idle' \subseteq Idle, Working' = Working \ {c}, Invoked' \subseteq Invoked
  PROVE  RequestInv'
<1>1. Done' = Done
  BY DEF Done
<1>2. \A d \in Call : PushedOut(d)' <=> PushedOut(d)
  BY <1>1 DEF PushedOut
<1>3. active' = active \ {c} /\ UNCHANGED <<cancelled, pending, pendingOrder>>
  BY DEF finish
<1> QED
  BY <1>1, <1>2, <1>3 DEF RequestInv, RequestTypeOK, Done

LEMMA SendCancelRequest ==
  ASSUME RequestInv, CallInv, NEW c \in Call \ Idle, cancelCmd[c] = "none", UNCHANGED <<requestVars, pc>>,
         cancelCmd' = [cancelCmd EXCEPT ![c] = "sent"]
  PROVE  RequestInv'
<1>1. Done' = Done
  BY DEF Done, CallInv, CallTypeOK
<1>2. \A d \in Call : PushedOut(d)' <=> PushedOut(d)
  BY <1>1 DEF PushedOut
<1>3. Idle' = Idle /\ Working' = Working /\ Invoked' = Invoked
  BY DEF Idle, Working, Invoked
<1> QED
  BY <1>1, <1>2, <1>3 DEF RequestInv, RequestTypeOK, requestVars, Done, Idle

LEMMA ExecuteCancelRequest ==
  ASSUME RequestInv, CallInv, NEW c \in Call, cancelCmd[c] = "sent", cancel(c), UNCHANGED pc,
         cancelCmd' = [cancelCmd EXCEPT ![c] = "done"]
  PROVE  RequestInv'
<1>1. /\ Idle' = Idle /\ Working' = Working /\ Invoked' = Invoked
      /\ Done' = Done \cup {c} /\ Done \in SUBSET Call /\ Done' \in SUBSET Call
      /\ c \notin Idle
  BY DEF Idle, Working, Invoked, Done, CallInv, CallTypeOK, RequestInv
<1>2. \A d \in Call : PushedOut(d) => PushedOut(d)'
  <2>1. \A d \in Call : /\ Cardinality(Done \ {d}) \in Nat /\ Cardinality(Done' \ {d}) \in Nat
                        /\ Cardinality(Done \ {d}) <= Cardinality(Done' \ {d})
    BY <1>1, PushedOutGrows
  <2> QED
    BY <2>1, Constants DEF PushedOut
<1>3. \A d \in Idle' : cancelCmd'[d] = "none"
  BY <1>1 DEF RequestInv, CallInv, CallTypeOK, Idle
<1>4. CASE CancelActive(c)
  <2>1. /\ cancelled' = cancelled \cup {c} /\ UNCHANGED <<active, pending, pendingOrder>>
        /\ c \in active
    BY <1>4 DEF CancelActive
  <2>2. c \notin Invoked
    BY <2>1 DEF RequestInv, Working, Invoked, Busy
  <2>3. \A d \in Done' : d \in Invoked' \ pending' \/ d \in Working' \ cancelled' => PushedOut(d)'
    BY <1>1, <1>2, <2>1, <2>2 DEF RequestInv
  <2> QED
    BY <1>1, <1>3, <2>1, <2>3 DEF RequestInv, RequestTypeOK
<1>5. CASE CancelUnknown(c)
  <2> DEFINE order == IF c \in pending THEN pendingOrder ELSE Append(pendingOrder, c)
             set   == pending \cup {c}
             n     == EvictedCount(order, set)
  <2>1. /\ c \notin active /\ UNCHANGED <<active, cancelled>>
        /\ pending' = set \ ToSet(SubSeq(order, 1, n))
        /\ pendingOrder' = SubSeq(order, n + 1, Len(order))
    BY <1>5 DEF CancelUnknown
  <2>2. order \in Seq(Call) /\ set \in SUBSET Call /\ set \subseteq Done'
    BY <1>1 DEF RequestInv, RequestTypeOK
  <2> HIDE DEF order, set
  <2>3. /\ n \in 0 .. Len(order)
        /\ \A d \in set : d \in ToSet(SubSeq(order, 1, n)) =>
             MaxPendingCancellations <= Cardinality(set \ {d})
    BY <2>2, EvictedCountIsLeast
  <2> HIDE DEF n
  <2>4. RequestTypeOK'
    <3>1. SubSeq(order, n + 1, Len(order)) \in Seq(Call)
      BY <2>2, <2>3
    <3> QED
      BY <2>1, <2>2, <3>1 DEF RequestInv, RequestTypeOK
  <2>5. \A d \in set \ pending' : PushedOut(d)'
    <3>1. \A d \in Call : /\ Cardinality(set \ {d}) \in Nat /\ Cardinality(Done' \ {d}) \in Nat
                          /\ Cardinality(set \ {d}) <= Cardinality(Done' \ {d})
      BY <1>1, <2>2, PushedOutGrows
    <3>2. \A d \in set \ pending' : d \in Call /\ MaxPendingCancellations <= Cardinality(set \ {d})
      BY <2>1, <2>2, <2>3
    <3>3. \A d \in set \ pending' : MaxPendingCancellations <= Cardinality(Done' \ {d})
      <4> TAKE d \in set \ pending'
      <4>1. /\ Cardinality(set \ {d}) \in Nat /\ Cardinality(Done' \ {d}) \in Nat
            /\ Cardinality(set \ {d}) <= Cardinality(Done' \ {d})
        BY <3>1, <3>2
      <4>2. MaxPendingCancellations <= Cardinality(set \ {d}) /\ MaxPendingCancellations \in Nat
        BY <3>2, Constants
      <4> QED
        BY <4>1, <4>2
    <3> QED
      BY <3>3 DEF PushedOut
  <2>6. pending \subseteq set /\ c \in set
    BY DEF set
  <2>7. \A d \in Done' : d \in Invoked' \ pending' \/ d \in Working' \ cancelled' => PushedOut(d)'
    BY <1>1, <1>2, <2>1, <2>5, <2>6 DEF RequestInv
  <2> QED
    BY <1>1, <1>3, <2>1, <2>2, <2>4, <2>7 DEF RequestInv
<1> QED
  BY <1>4, <1>5 DEF cancel

-----------------------------------------------------------------------------
(* The media resource registry.                                            *)

LEMMA GivenGrows ==
  ASSUME Given \subseteq Given'
  PROVE  /\ Cardinality(Given) \in Nat /\ Cardinality(Given') \in Nat
         /\ Cardinality(Given) <= Cardinality(Given')
<1>1. IsFiniteSet(Given') /\ Given \in SUBSET Given'
  BY Constants, FS_Subset DEF Given
<1> QED
  BY <1>1, FS_Subset, FS_CardinalityType

LEMMA RegistryKept ==
  ASSUME RegistryInv, UNCHANGED <<resourceVars, key>>,
         Derived' = Derived, Keyed' \subseteq Keyed, Given \subseteq Given',
         \A c \in Keyed : path'[c] = path[c]
  PROVE  RegistryInv'
<1>1. UNCHANGED <<generation, nextKey, derivedKey, registrations>>
  BY DEF resourceVars
<1>2. \A p \in Path : DerivedUsers(p)' = DerivedUsers(p)
  BY <1>1, UsersAreKeyed DEF DerivedUsers
<1>3. nextKey' <= Cardinality(Given')
  BY <1>1, GivenGrows DEF RegistryInv, ResourceTypeOK
<1> QED
  BY <1>1, <1>2, <1>3, UsersAreKeyed DEF RegistryInv, ResourceTypeOK

(* A user gives its key back, in its own generation or after it.           *)
LEMMA RegistryReleases ==
  ASSUME CallInv, RegistryInv, NEW c \in Derived, release_derived(key[c]),
         UNCHANGED <<key, path>>,
         Derived' = Derived \ {c}, Keyed' \subseteq Keyed, Given \subseteq Given'
  PROVE  RegistryInv'
<1>1. UNCHANGED <<generation, nextKey>>
  BY DEF release_derived
<1>2. c \in Call /\ c \in Keyed
  BY UsersAreKeyed
<1>3. nextKey' <= Cardinality(Given')
  BY <1>1, GivenGrows DEF RegistryInv, ResourceTypeOK
<1>4. CASE key[c].generation # generation
  <2>1. ResolveDerived(key[c]) = {}
    BY <1>4 DEF ResolveDerived
  <2>2. registrations' = registrations /\ derivedKey' = derivedKey
    BY <2>1 DEF release_derived, RegistryInv, ResourceTypeOK
  <2>3. \A p \in Path : DerivedUsers(p)' = DerivedUsers(p)
    BY <1>1, <1>4 DEF DerivedUsers
  <2> QED
    BY <1>1, <1>3, <2>2, <2>3 DEF RegistryInv, ResourceTypeOK
<1>5. CASE key[c].generation = generation
  <2> DEFINE f == path[c]
  <2>1. f \in Path /\ ResolveDerived(key[c]) = {f} /\ derivedKey[f] = key[c].number
        /\ key[c].number \in 0 .. MaxKey
    BY <1>5, KeyOfUser
  <2>2. /\ registrations' = [p \in Path |-> IF p = f THEN registrations[p] - 1 ELSE registrations[p]]
        /\ derivedKey' = [p \in Path |-> IF p = f /\ registrations[p] <= 1 THEN NoKey ELSE derivedKey[p]]
    BY <2>1 DEF release_derived
  <2>3. /\ c \in DerivedUsers(f)
        /\ \A p \in Path : DerivedUsers(p)' = IF p = f THEN DerivedUsers(p) \ {c} ELSE DerivedUsers(p)
    BY <1>1, <1>5 DEF DerivedUsers
  <2> HIDE DEF f
  <2>4. /\ registrations[f] \in Nat /\ registrations[f] > 0
        /\ registrations[f] = Cardinality(DerivedUsers(f))
        /\ registrations[f] = 1 => DerivedUsers(f) = {c}
    BY <2>1, <2>3, UsersAreKeyed, CountOfMember DEF RegistryInv
  <2>5. ResourceTypeOK'
    <3>1. registrations' \in [Path -> Nat]
      BY <2>2, <2>4 DEF RegistryInv, ResourceTypeOK
    <3>2. derivedKey' \in [Path -> 0 .. MaxKey \cup {NoKey}]
      BY <2>2 DEF RegistryInv, ResourceTypeOK
    <3> QED
      BY <1>1, <3>1, <3>2 DEF RegistryInv, ResourceTypeOK
  <2>6. \A p \in Path : registrations'[p] = Cardinality(DerivedUsers(p)')
    <3>1. Cardinality(DerivedUsers(f) \ {c}) = registrations[f] - 1
      BY <2>1, <2>3, <2>4, UsersAreKeyed, CountLoses
    <3> QED
      BY <2>2, <2>3, <3>1 DEF RegistryInv
  <2>7. /\ \A p \in Path : derivedKey'[p] = NoKey <=> registrations'[p] = 0
        /\ \A p \in Path : derivedKey'[p] < nextKey'
    <3>1. derivedKey[f] # NoKey
      BY <2>1 DEF NoKey
    <3>2. derivedKey'[f] = NoKey <=> registrations'[f] = 0
      BY <2>1, <2>2, <2>4, <3>1
    <3>3. \A p \in Path : p # f => derivedKey'[p] = derivedKey[p] /\ registrations'[p] = registrations[p]
      BY <2>2
    <3>4. nextKey \in Nat
      BY DEF RegistryInv, ResourceTypeOK
    <3>5. \A p \in Path : derivedKey'[p] \in {NoKey, derivedKey[p]}
      BY <2>2
    <3>6. \A p \in Path : derivedKey'[p] < nextKey'
      BY <1>1, <3>4, <3>5 DEF RegistryInv, NoKey
    <3> QED
      BY <3>2, <3>3, <3>6 DEF RegistryInv
  <2>8. \A p, q \in Path : derivedKey'[p] = derivedKey'[q] /\ derivedKey'[p] # NoKey => p = q
    BY <2>2 DEF RegistryInv
  <2>9. \A d \in Keyed' : key'[d].generation = generation' =>
          key'[d].number < nextKey' /\ \A p \in Path : derivedKey'[p] = key'[d].number => p = path'[d]
    <3>1. \A d \in Keyed : key[d].number # NoKey
      BY DEF CallInv, CallTypeOK, ResourceKey, Keyed, NoKey
    <3> QED
      BY <1>1, <2>2, <3>1 DEF RegistryInv
  <2>10. \A d \in Derived' : key'[d].generation = generation' => derivedKey'[path'[d]] = key'[d].number
    <3> SUFFICES ASSUME NEW d \in Derived, d # c, key[d].generation = generation
                 PROVE  derivedKey'[path[d]] = key[d].number
      BY <1>1
    <3>1. path[d] \in Path /\ derivedKey[path[d]] = key[d].number
      BY KeyOfUser
    <3>2. path[d] = f => registrations[f] # 1
      BY <2>4, <3>1 DEF DerivedUsers
    <3> QED
      BY <2>2, <2>4, <3>1, <3>2
  <2> QED
    BY <1>1, <1>3, <2>5, <2>6, <2>7, <2>8, <2>9, <2>10 DEF RegistryInv
<1> QED
  BY <1>4, <1>5

(* A call gets the key of its file, a new one if the file has none.        *)
LEMMA RegistryGives ==
  ASSUME CallInv, RegistryInv, NEW c \in Call \ (Given \cup Keyed), path[c] \in Path,
         register_derived(path[c]), UNCHANGED path,
         key' = [key EXCEPT ![c] = [generation |-> generation, number |-> derivedKey'[path[c]]]],
         Derived' = Derived \cup {c}, Keyed' = Keyed \cup {c}, Given' = Given \cup {c}
  PROVE  /\ RegistryInv' /\ key' \in [Call -> ResourceKey]
         /\ \A d \in Keyed : key[d] = key'[c] => path[d] = path[c]
<1>0. PICK f \in Path : f = path[c]
  OBVIOUS
<1>1. /\ generation' = generation
      /\ registrations' = [registrations EXCEPT ![f] = registrations[f] + 1]
      /\ \/ derivedKey[f] # NoKey /\ UNCHANGED <<nextKey, derivedKey>>
         \/ /\ derivedKey[f] = NoKey /\ nextKey' = nextKey + 1
            /\ derivedKey' = [derivedKey EXCEPT ![f] = nextKey]
  BY <1>0 DEF register_derived
<1>2. /\ key'[c] = [generation |-> generation, number |-> derivedKey'[f]]
      /\ \A d \in Call : d # c => key'[d] = key[d]
      /\ c \notin Derived
  BY <1>0, UsersAreKeyed DEF CallInv, CallTypeOK
<1>3. f \in Path
  OBVIOUS
<1>4. nextKey <= MaxKey
  <2>1. Given \in SUBSET (Call \ {c}) /\ IsFiniteSet(Call \ {c})
    BY Constants, FS_Subset DEF Given
  <2>2. Cardinality(Given) <= Cardinality(Call \ {c})
    BY <2>1, FS_Subset
  <2>3. Cardinality(Call \ {c}) = Cardinality(Call) - 1
    BY Constants, CountLoses
  <2>4. Cardinality(Given) \in Nat
    BY UsersAreKeyed, FS_CardinalityType
  <2>5. nextKey <= Cardinality(Given) /\ nextKey \in Nat /\ Cardinality(Call) \in Nat
    BY Constants DEF RegistryInv, ResourceTypeOK
  <2> QED
    BY <2>2, <2>3, <2>4, <2>5 DEF MaxKey
<1>5. nextKey \in Nat /\ nextKey \in 0 .. MaxKey /\ nextKey' \in 0 .. MaxKey + 1 /\ nextKey <= nextKey'
  BY <1>1, <1>4, Constants DEF RegistryInv, ResourceTypeOK
<1>6. /\ derivedKey' \in [Path -> 0 .. MaxKey \cup {NoKey}]
      /\ derivedKey'[f] \in 0 .. MaxKey /\ derivedKey'[f] # NoKey
      /\ \A p \in Path : p # f => derivedKey'[p] = derivedKey[p]
      /\ derivedKey'[f] \in {derivedKey[f], nextKey}
      /\ derivedKey[f] # NoKey => derivedKey'[f] = derivedKey[f]
  <2>1. derivedKey \in [Path -> 0 .. MaxKey \cup {NoKey}] /\ derivedKey[f] \in 0 .. MaxKey \cup {NoKey}
    BY <1>3 DEF RegistryInv, ResourceTypeOK
  <2>2. CASE derivedKey[f] # NoKey /\ UNCHANGED <<nextKey, derivedKey>>
    BY <2>1, <2>2 DEF NoKey
  <2>3. CASE derivedKey[f] = NoKey /\ derivedKey' = [derivedKey EXCEPT ![f] = nextKey]
    BY <1>3, <1>5, <2>1, <2>3 DEF NoKey
  <2> QED
    BY <1>1, <2>2, <2>3
<1>7. registrations[f] \in Nat /\ registrations'[f] = registrations[f] + 1
      /\ registrations' \in [Path -> Nat]
      /\ \A p \in Path : p # f => registrations'[p] = registrations[p]
  <2>1. registrations \in [Path -> Nat] /\ registrations[f] \in Nat
    BY <1>3 DEF RegistryInv, ResourceTypeOK
  <2>2. registrations[f] + 1 \in Nat
    BY <2>1
  <2> QED
    BY <1>1, <1>3, <2>1, <2>2
<1>8. ResourceTypeOK' /\ key' \in [Call -> ResourceKey]
  <2>1. generation \in 1 .. MaxGeneration
    BY DEF RegistryInv, ResourceTypeOK
  <2>2. key'[c] \in ResourceKey
    BY <1>2, <1>6, <2>1 DEF ResourceKey
  <2>3. ResourceTypeOK'
    BY <1>1, <1>5, <1>6, <1>7, <2>1 DEF ResourceTypeOK
  <2> QED
    BY <2>2, <2>3, <1>2 DEF CallInv, CallTypeOK
<1>9. nextKey' <= Cardinality(Given')
  <2>1. Cardinality(Given') = Cardinality(Given) + 1 /\ Cardinality(Given) \in Nat
    BY UsersAreKeyed, CountGains
  <2> QED
    BY <1>1, <1>5, <2>1 DEF RegistryInv
<1>10. /\ \A p \in Path : derivedKey'[p] = NoKey <=> registrations'[p] = 0
       /\ \A p \in Path : derivedKey'[p] < nextKey'
  <2>1. derivedKey'[f] < nextKey'
    <3>1. derivedKey[f] < nextKey
      BY <1>3 DEF RegistryInv
    <3>2. CASE derivedKey[f] # NoKey /\ UNCHANGED <<nextKey, derivedKey>>
      BY <3>1, <3>2
    <3>3. CASE derivedKey[f] = NoKey /\ nextKey' = nextKey + 1 /\ derivedKey' = [derivedKey EXCEPT ![f] = nextKey]
      <4>1. derivedKey'[f] = nextKey
        BY <1>3, <3>3 DEF RegistryInv, ResourceTypeOK
      <4> QED
        BY <1>5, <3>3, <4>1
    <3> QED
      BY <1>1, <3>2, <3>3
  <2>2. ASSUME NEW p \in Path, p # f PROVE derivedKey'[p] < nextKey'
    <3>1. derivedKey[p] < nextKey /\ (derivedKey[p] \in Int)
      BY DEF RegistryInv, ResourceTypeOK, NoKey
    <3> QED
      BY <1>5, <1>6, <2>2, <3>1
  <2>3. registrations'[f] # 0
    BY <1>7
  <2>4. \A p \in Path : p # f => (derivedKey'[p] = NoKey <=> registrations'[p] = 0)
    BY <1>6, <1>7 DEF RegistryInv
  <2> QED
    BY <1>6, <2>1, <2>2, <2>3, <2>4
<1>11. \A p \in Path : p # f => derivedKey'[p] # derivedKey'[f]
  <2>1. \A p \in Path : derivedKey[p] < nextKey
    BY DEF RegistryInv
  <2>2. \A p \in Path : derivedKey[p] # nextKey
    BY <1>5, <2>1
  <2>3. \A p \in Path : derivedKey[f] # NoKey /\ derivedKey[p] = derivedKey[f] => p = f
    BY <1>3 DEF RegistryInv
  <2> QED
    BY <1>1, <1>6, <2>2, <2>3
<1>12. \A p, q \in Path : derivedKey'[p] = derivedKey'[q] /\ derivedKey'[p] # NoKey => p = q
  BY <1>3, <1>6, <1>11 DEF RegistryInv
<1>13. \A d \in Keyed : key[d].generation = generation =>
         /\ key[d].number \in 0 .. MaxKey /\ key[d].number < nextKey
         /\ derivedKey'[f] = key[d].number => f = path[d]
  <2> SUFFICES ASSUME NEW d \in Keyed, key[d].generation = generation
               PROVE  /\ key[d].number \in 0 .. MaxKey /\ key[d].number < nextKey
                      /\ derivedKey'[f] = key[d].number => f = path[d]
    OBVIOUS
  <2>1. key[d].number \in 0 .. MaxKey /\ key[d].number < nextKey
    BY UsersAreKeyed DEF RegistryInv, CallInv, CallTypeOK, ResourceKey
  <2>2. key[d].number # nextKey
    BY <1>5, <2>1
  <2>3. derivedKey[f] = key[d].number => f = path[d]
    BY <1>3 DEF RegistryInv
  <2> QED
    BY <1>6, <2>1, <2>2, <2>3
<1>14. \A d \in Keyed' : key'[d].generation <= generation'
  <2>1. generation \in Nat /\ key'[c].generation = generation
    BY <1>2 DEF RegistryInv, ResourceTypeOK
  <2> QED
    BY <1>1, <1>2, <2>1, UsersAreKeyed DEF RegistryInv
<1>15. \A d \in Keyed' : key'[d].generation = generation' =>
         key'[d].number < nextKey' /\ \A p \in Path : derivedKey'[p] = key'[d].number => p = path'[d]
  <2>1. key'[c].number = derivedKey'[f]
    BY <1>2
  <2>2. ASSUME NEW d \in Keyed, key[d].generation = generation
        PROVE  key[d].number < nextKey' /\ \A p \in Path : derivedKey'[p] = key[d].number => p = path[d]
    <3>1. key[d].number < nextKey /\ key[d].number \in Int
      BY <1>13, <2>2
    <3>2. key[d].number < nextKey'
      BY <1>5, <3>1
    <3>3. \A p \in Path : derivedKey'[p] = key[d].number => p = path[d]
      BY <1>6, <1>13, <2>2 DEF RegistryInv
    <3> QED
      BY <3>2, <3>3
  <2>3. key'[c].number < nextKey' /\ \A p \in Path : derivedKey'[p] = key'[c].number => p = f
    BY <1>3, <1>10, <1>11, <2>1
  <2> QED
    BY <1>0, <1>1, <1>2, <2>2, <2>3, UsersAreKeyed
<1>16. \A d \in Derived' : key'[d].generation = generation' => derivedKey'[path'[d]] = key'[d].number
  <2>1. ASSUME NEW d \in Derived, key[d].generation = generation
        PROVE  derivedKey'[path[d]] = key[d].number
    <3>1. path[d] \in Path /\ derivedKey[path[d]] = key[d].number /\ key[d].number \in 0 .. MaxKey
      BY <2>1, KeyOfUser
    <3>2. key[d].number # NoKey
      BY <3>1 DEF NoKey
    <3> QED
      BY <1>6, <3>1, <3>2
  <2> QED
    BY <1>0, <1>1, <1>2, <2>1, UsersAreKeyed
<1>17. \A p \in Path : registrations'[p] = Cardinality(DerivedUsers(p)')
  <2>1. /\ DerivedUsers(f)' = DerivedUsers(f) \cup {c} /\ c \notin DerivedUsers(f)
        /\ \A p \in Path : p # f => DerivedUsers(p)' = DerivedUsers(p)
    BY <1>0, <1>1, <1>2, UsersAreKeyed DEF DerivedUsers
  <2>2. Cardinality(DerivedUsers(f)') = Cardinality(DerivedUsers(f)) + 1
    BY <1>3, <2>1, UsersAreKeyed, CountGains
  <2>3. registrations[f] = Cardinality(DerivedUsers(f))
    BY <1>3 DEF RegistryInv
  <2>4. registrations'[f] = Cardinality(DerivedUsers(f)')
    BY <1>7, <2>2, <2>3
  <2>5. \A p \in Path : p # f => registrations'[p] = Cardinality(DerivedUsers(p)')
    BY <1>7, <2>1 DEF RegistryInv
  <2> QED
    BY <2>4, <2>5
<1>18. \A d \in Keyed : key[d] = key'[c] => path[d] = path[c]
  BY <1>0, <1>2, <1>13
<1> QED
  BY <1>8, <1>9, <1>10, <1>12, <1>14, <1>15, <1>16, <1>17, <1>18 DEF RegistryInv

LEMMA RegistryResets ==
  ASSUME CallInv, RegistryInv, begin_session, UNCHANGED <<callVars>>
  PROVE  RegistryInv'
<1>1. /\ generation \in Nat /\ generation' = generation + 1 /\ generation' \in 1 .. MaxGeneration
      /\ nextKey' = 0
      /\ derivedKey' = [p \in Path |-> NoKey]
      /\ registrations' = [p \in Path |-> 0]
  BY Constants DEF begin_session, RegistryInv, ResourceTypeOK
<1>2. /\ Given' = Given /\ Keyed' = Keyed /\ Derived' = Derived /\ key' = key /\ path' = path
  BY DEF callVars, Given, Keyed, Derived, UsesDerived, Delivering
<1>3. \A d \in Keyed : key[d].generation <= generation /\ key[d].generation \in Nat
  BY UsersAreKeyed DEF RegistryInv, CallInv, CallTypeOK, ResourceKey
<1>4. \A d \in Keyed : key[d].generation <= generation' /\ key[d].generation # generation'
  BY <1>1, <1>3
<1>5. \A p \in Path : DerivedUsers(p)' = {}
  BY <1>2, <1>4, UsersAreKeyed DEF DerivedUsers
<1>6. ResourceTypeOK'
  BY <1>1, Constants, BackendAssumption, FS_CardinalityType DEF ResourceTypeOK, MaxKey
<1>7. nextKey' <= Cardinality(Given')
  BY <1>1, <1>2, UsersAreKeyed, FS_CardinalityType
<1>8. /\ \A p \in Path : derivedKey'[p] = NoKey <=> registrations'[p] = 0
      /\ \A p \in Path : derivedKey'[p] < nextKey'
      /\ \A p \in Path : registrations'[p] = Cardinality(DerivedUsers(p)')
  BY <1>1, <1>5, FS_EmptySet DEF NoKey
<1> QED
  BY <1>1, <1>2, <1>4, <1>6, <1>7, <1>8, UsersAreKeyed DEF RegistryInv

-----------------------------------------------------------------------------
(* The cache manager.                                                      *)

LEMMA CacheKept ==
  ASSUME CacheInv, CacheTypeOK', UNCHANGED <<cacheActive, cachePath, key>>,
         Cached' = Cached, Keyed' \subseteq Keyed, \A c \in Keyed : path'[c] = path[c]
  PROVE  CacheInv'
<1>1. \A k \in ResourceKey : CacheUsers(k)' = CacheUsers(k)
  BY DEF CacheUsers
<1> QED
  BY <1>1, UsersAreKeyed DEF CacheInv

(* The key a call was given is of its file alone.                          *)
LEMMA CacheSeesKey ==
  ASSUME CacheInv, NEW c \in Call \ Keyed, UNCHANGED <<cacheVars, file, path>>,
         \A d \in Call : d # c => key'[d] = key[d],
         \A d \in Keyed : key[d] = key'[c] => path[d] = path[c],
         Cached' = Cached, Keyed' = Keyed \cup {c}
  PROVE  CacheInv'
<1>1. c \notin Cached /\ \A d \in Keyed : d # c /\ key'[d] = key[d]
  BY UsersAreKeyed
<1>2. \A k \in ResourceKey : CacheUsers(k)' = CacheUsers(k)
  BY <1>1, UsersAreKeyed DEF CacheUsers
<1>3. CacheTypeOK'
  BY DEF CacheInv, CacheTypeOK, cacheVars
<1>4. \A d, e \in Keyed' : key'[d] = key'[e] => path'[d] = path'[e]
  BY <1>1 DEF CacheInv
<1> QED
  BY <1>1, <1>2, <1>3, <1>4, UsersAreKeyed DEF CacheInv, cacheVars

LEMMA NoConflict ==
  ASSUME CallInv, CacheInv, NEW c \in Keyed
  PROVE  ~KeyConflict(key[c], path[c])
<1>1. c \in Call /\ key[c] \in ResourceKey
  BY UsersAreKeyed DEF CallInv, CallTypeOK
<1>2. ASSUME cacheActive[key[c]] > 0 PROVE cachePath[key[c]] = path[c]
  <2>1. CacheUsers(key[c]) # {}
    BY <1>1, <1>2, FS_EmptySet DEF CacheInv
  <2>2. PICK d \in Cached : key[d] = key[c]
    BY <2>1 DEF CacheUsers
  <2> QED
    BY <2>2, UsersAreKeyed DEF CacheInv
<1> QED
  BY <1>2 DEF KeyConflict

LEMMA CacheTakes ==
  ASSUME CallInv, CacheInv, NEW c \in Keyed \ Cached, NEW b \in BOOLEAN,
         CacheRegister(key[c], path[c], b), UNCHANGED <<file, key, path>>,
         Cached' = Cached \cup {c}, Keyed' \subseteq Keyed
  PROVE  CacheInv'
<1>1. PICK k \in ResourceKey : k = key[c]
  BY UsersAreKeyed DEF CallInv, CallTypeOK
<1>2. PICK f \in Path : f = path[c]
  BY UsersAreKeyed DEF CallInv, CallTypeOK, Stages, Keyed, Delivering
<1>3. /\ cacheActive' = [cacheActive EXCEPT ![k] = cacheActive[k] + 1]
      /\ cachePath' = [cachePath EXCEPT ![k] = f]
      /\ maintained' \in BOOLEAN
  BY <1>1, <1>2 DEF CacheRegister, CacheInv, CacheTypeOK
<1>4. generated' \in 0 .. MaintainEvery - 1
  <2>1. generated \in 0 .. MaintainEvery - 1 /\ MaintainEvery \in Nat \ {0}
    BY Constants DEF CacheInv, CacheTypeOK
  <2>2. CASE ShouldMaintain(b)
    <3>1. generated' = 0
      BY <2>2 DEF CacheRegister
    <3> QED
      BY <2>1, <3>1
  <2>3. CASE ~ShouldMaintain(b)
    <3>1. generated' = (IF b THEN generated + 1 ELSE generated)
      BY <2>3 DEF CacheRegister
    <3>2. ~((IF b THEN generated + 1 ELSE generated) >= MaintainEvery)
      BY <2>3 DEF ShouldMaintain
    <3> QED
      BY <2>1, <3>1, <3>2
  <2> QED
    BY <2>2, <2>3
<1>5. cacheActive \in [ResourceKey -> Nat] /\ cacheActive[k] \in Nat
  BY DEF CacheInv, CacheTypeOK
<1>6. cacheActive[k] + 1 \in Nat
  BY <1>5
<1>7. /\ cacheActive' \in [ResourceKey -> Nat] /\ cacheActive'[k] = cacheActive[k] + 1
      /\ \A l \in ResourceKey : l # k => cacheActive'[l] = cacheActive[l]
  BY <1>3, <1>5, <1>6
<1>8. CacheTypeOK'
  BY <1>3, <1>4, <1>7 DEF CacheInv, CacheTypeOK
<1>9. \A l \in ResourceKey : cacheActive'[l] = Cardinality(CacheUsers(l)')
  <2>1. /\ CacheUsers(k)' = CacheUsers(k) \cup {c} /\ c \notin CacheUsers(k)
        /\ \A l \in ResourceKey : l # k => CacheUsers(l)' = CacheUsers(l)
    BY <1>1 DEF CacheUsers
  <2>2. Cardinality(CacheUsers(k)') = Cardinality(CacheUsers(k)) + 1
    BY <2>1, UsersAreKeyed, CountGains
  <2>3. cacheActive[k] = Cardinality(CacheUsers(k))
    BY DEF CacheInv
  <2>4. cacheActive'[k] = Cardinality(CacheUsers(k)')
    BY <1>7, <2>2, <2>3
  <2>5. \A l \in ResourceKey : l # k => cacheActive'[l] = Cardinality(CacheUsers(l)')
    BY <1>7, <2>1 DEF CacheInv
  <2> QED
    BY <2>4, <2>5
<1>10. \A d \in Cached' : cachePath'[key'[d]] = path'[d]
  <2>1. cachePath \in [ResourceKey -> Path \cup {NoPath}]
    BY DEF CacheInv, CacheTypeOK
  <2>2. ASSUME NEW d \in Cached \cup {c} PROVE cachePath'[key[d]] = path[d]
    <3>1. d \in Keyed /\ key[d] \in ResourceKey
      BY UsersAreKeyed DEF CallInv, CallTypeOK
    <3>2. CASE key[d] = k
      BY <1>1, <1>2, <1>3, <2>1, <3>1, <3>2 DEF CacheInv
    <3>3. CASE key[d] # k
      BY <1>1, <1>3, <2>1, <2>2, <3>1, <3>3 DEF CacheInv
    <3> QED
      BY <3>2, <3>3
  <2> QED
    BY <2>2
<1> QED
  BY <1>8, <1>9, <1>10 DEF CacheInv

LEMMA CacheReleases ==
  ASSUME CallInv, CacheInv, NEW c \in Cached, CacheRelease(key[c]), UNCHANGED <<file, key, path>>,
         Cached' = Cached \ {c}, Keyed' \subseteq Keyed
  PROVE  CacheInv'
<1>1. PICK k \in ResourceKey : k = key[c]
  BY UsersAreKeyed DEF CallInv, CallTypeOK
<1>2. /\ c \in CacheUsers(k) /\ CacheUsers(k)' = CacheUsers(k) \ {c}
      /\ \A l \in ResourceKey : l # k => CacheUsers(l)' = CacheUsers(l)
  BY <1>1 DEF CacheUsers
<1>3. /\ cacheActive[k] \in Nat /\ cacheActive[k] > 0
      /\ cacheActive[k] = Cardinality(CacheUsers(k))
      /\ cacheActive[k] = 1 => CacheUsers(k) = {c}
  BY <1>2, UsersAreKeyed, CountOfMember DEF CacheInv
<1>4. /\ cacheActive' = [cacheActive EXCEPT ![k] = cacheActive[k] - 1]
      /\ cachePath' = [cachePath EXCEPT ![k] = IF cacheActive[k] > 1 THEN cachePath[k] ELSE NoPath]
      /\ UNCHANGED <<maintained, generated>>
  BY <1>1, <1>3 DEF CacheRelease
<1>5. cacheActive \in [ResourceKey -> Nat] /\ cachePath \in [ResourceKey -> Path \cup {NoPath}]
  BY DEF CacheInv, CacheTypeOK
<1>6. cacheActive[k] - 1 \in Nat
  BY <1>3
<1>7. /\ cacheActive' \in [ResourceKey -> Nat] /\ cacheActive'[k] = cacheActive[k] - 1
      /\ \A l \in ResourceKey : l # k => cacheActive'[l] = cacheActive[l]
  BY <1>4, <1>5, <1>6
<1>8. CacheTypeOK'
  <2>1. cachePath' \in [ResourceKey -> Path \cup {NoPath}]
    BY <1>4, <1>5
  <2> QED
    BY <1>4, <1>7, <2>1 DEF CacheInv, CacheTypeOK
<1>9. \A l \in ResourceKey : cacheActive'[l] = Cardinality(CacheUsers(l)')
  <2>1. Cardinality(CacheUsers(k)') = Cardinality(CacheUsers(k)) - 1
    BY <1>2, UsersAreKeyed, CountLoses
  <2>2. cacheActive'[k] = Cardinality(CacheUsers(k)')
    BY <1>3, <1>7, <2>1
  <2>3. \A l \in ResourceKey : l # k => cacheActive'[l] = Cardinality(CacheUsers(l)')
    BY <1>2, <1>7 DEF CacheInv
  <2> QED
    BY <2>2, <2>3
<1>10. ASSUME NEW d \in Cached, d # c PROVE cachePath'[key[d]] = path[d]
  <2>1. key[d] \in ResourceKey /\ cachePath[key[d]] = path[d]
    BY UsersAreKeyed DEF CacheInv, CallInv, CallTypeOK
  <2>2. CASE key[d] = k
    <3>1. d \in CacheUsers(k)
      BY <2>2 DEF CacheUsers
    <3>2. cacheActive[k] # 1
      BY <1>3, <1>10, <3>1
    <3>3. cacheActive[k] > 1
      BY <1>3, <3>2
    <3> QED
      BY <1>4, <1>5, <2>1, <2>2, <3>3
  <2>3. CASE key[d] # k
    BY <1>4, <1>5, <2>1, <2>3
  <2> QED
    BY <2>2, <2>3
<1> QED
  BY <1>8, <1>9, <1>10 DEF CacheInv

-----------------------------------------------------------------------------
(* What a call that moves on is, or ceases to be, among.                   *)

Registered == {"maintaining", "pruning", "registered"}
Ending     == {"finishing", "finished", "answered"}

Moved(c, s) ==
  /\ Given' = IF s \in Early THEN Given \ {c} ELSE Given \cup {c}
  /\ \A d \in Call \ {c} : /\ d \in Keyed' <=> d \in Keyed
                           /\ d \in Derived' <=> d \in Derived
                           /\ d \in Cached' <=> d \in Cached
  /\ c \in Keyed' <=> \/ s \in {"derived", "undoing"} \cup Registered
                      \/ s \in Ending /\ outcome'[c] = "ok"
  /\ c \in Derived' <=> \/ s \in {"derived"} \cup Registered
                        \/ s \in Ending /\ outcome'[c] = "ok" /\ releaseCmd[c] = "none"
  /\ c \in Cached' <=> \/ s \in {"undoing"} \cup Registered
                       \/ s \in Ending /\ outcome'[c] = "ok" /\ releaseCmd[c] # "done"
  /\ Keyed' \subseteq Call /\ Derived' \subseteq Call /\ Cached' \subseteq Call
  /\ Idle' = IF s = "idle" THEN Idle \cup {c} ELSE Idle \ {c}
  /\ Invoked' = IF s = "invoked" THEN Invoked \cup {c} ELSE Invoked \ {c}
  /\ Working' = IF s \in Busy THEN Working \cup {c} ELSE Working \ {c}

LEMMA CallMoves ==
  ASSUME CallInv, NEW c \in Call, NEW s \in Stage, pc' = [pc EXCEPT ![c] = s],
         UNCHANGED releaseCmd, \A d \in Call : d # c => outcome'[d] = outcome[d]
  PROVE  Moved(c, s)
<1>1. pc'[c] = s /\ \A d \in Call \ {c} : pc'[d] = pc[d] /\ outcome'[d] = outcome[d]
  BY DEF CallInv, CallTypeOK
<1>2. Given' = IF s \in Early THEN Given \ {c} ELSE Given \cup {c}
  BY <1>1 DEF Given
<1>3. /\ Idle' = IF s = "idle" THEN Idle \cup {c} ELSE Idle \ {c}
      /\ Invoked' = IF s = "invoked" THEN Invoked \cup {c} ELSE Invoked \ {c}
      /\ Working' = IF s \in Busy THEN Working \cup {c} ELSE Working \ {c}
  BY <1>1 DEF Idle, Invoked, Working
<1>4. /\ \A d \in Call \ {c} : /\ d \in Keyed' <=> d \in Keyed
                               /\ d \in Derived' <=> d \in Derived
                               /\ d \in Cached' <=> d \in Cached
      /\ Keyed' \subseteq Call /\ Derived' \subseteq Call /\ Cached' \subseteq Call
  BY <1>1 DEF Keyed, Derived, Cached, UsesDerived, UsesCache, Delivering
<1>5. /\ c \in Keyed' <=> \/ s \in {"derived", "undoing"} \cup Registered
                          \/ s \in Ending /\ outcome'[c] = "ok"
      /\ c \in Derived' <=> \/ s \in {"derived"} \cup Registered
                            \/ s \in Ending /\ outcome'[c] = "ok" /\ releaseCmd[c] = "none"
      /\ c \in Cached' <=> \/ s \in {"undoing"} \cup Registered
                           \/ s \in Ending /\ outcome'[c] = "ok" /\ releaseCmd[c] # "done"
  BY <1>1 DEF Keyed, Derived, Cached, UsesDerived, UsesCache, Delivering, Registered, Ending
<1> QED
  BY <1>2, <1>3, <1>4, <1>5 DEF Moved

LEMMA WhereCallIs ==
  ASSUME NEW c \in Call
  PROVE  /\ c \in Given <=> pc[c] \notin Early
         /\ c \in Keyed <=> \/ pc[c] \in {"derived", "undoing"} \cup Registered
                            \/ pc[c] \in Ending /\ outcome[c] = "ok"
         /\ c \in Derived <=> \/ pc[c] \in {"derived"} \cup Registered
                              \/ pc[c] \in Ending /\ outcome[c] = "ok" /\ releaseCmd[c] = "none"
         /\ c \in Cached <=> \/ pc[c] \in {"undoing"} \cup Registered
                             \/ pc[c] \in Ending /\ outcome[c] = "ok" /\ releaseCmd[c] # "done"
         /\ c \in Idle <=> pc[c] = "idle"
         /\ c \in Invoked <=> pc[c] = "invoked"
         /\ c \in Working <=> pc[c] \in Busy
BY DEF Given, Keyed, Derived, Cached, UsesDerived, UsesCache, Delivering, Idle, Invoked, Working,
       Registered, Ending

(* A step of a call that takes no key and gives none back.                 *)
LEMMA QuietMove ==
  ASSUME IInv, NEW c \in Call, NEW s \in Stage, pc' = [pc EXCEPT ![c] = s],
         UNCHANGED <<resourceVars, cacheVars, key, releaseCmd>>,
         file' \in [Path -> {"absent", "fresh", "old"}],
         \A d \in Call : d # c => outcome'[d] = outcome[d] /\ path'[d] = path[d],
         \/ pc[c] \in Early /\ s \in Early
         \/ pc[c] \in Early /\ s = "finishing" /\ outcome'[c] = "error"
         \/ pc[c] \in Registered /\ s \in Registered /\ path'[c] = path[c]
         \/ pc[c] \in Ending /\ s \in Ending /\ outcome'[c] = outcome[c] /\ path'[c] = path[c]
  PROVE  RegistryInv' /\ CacheInv'
<1> USE DEF IInv
<1>0. Moved(c, s)
  BY CallMoves
<1>1. /\ c \in Derived' <=> c \in Derived
      /\ c \in Cached' <=> c \in Cached
      /\ c \in Keyed' => c \in Keyed
      /\ c \in Given => c \in Given'
      /\ c \in Keyed => path'[c] = path[c]
  BY <1>0, WhereCallIs DEF Moved, Early, Registered, Ending
<1>2. Derived' = Derived /\ Cached' = Cached /\ Keyed' \subseteq Keyed /\ Given \subseteq Given'
  <2>1. Derived \subseteq Call /\ Cached \subseteq Call /\ Keyed \subseteq Call
    BY UsersAreKeyed
  <2>2. /\ \A d \in Call : d \in Derived' <=> d \in Derived
        /\ \A d \in Call : d \in Cached' <=> d \in Cached
        /\ \A d \in Call : d \in Keyed' => d \in Keyed
        /\ Derived' \subseteq Call /\ Cached' \subseteq Call /\ Keyed' \subseteq Call
    BY <1>0, <1>1 DEF Moved
  <2>3. Given \subseteq Given'
    BY <1>0, <1>1 DEF Moved
  <2>4. Derived' = Derived
    BY <2>1, <2>2
  <2>5. Cached' = Cached
    BY <2>1, <2>2
  <2> QED
    BY <2>2, <2>3, <2>4, <2>5
<1>3. \A d \in Keyed : path'[d] = path[d]
  BY <1>1, UsersAreKeyed
<1>4. RegistryInv'
  BY <1>2, <1>3, RegistryKept
<1>5. CacheTypeOK'
  BY DEF CacheInv, CacheTypeOK, cacheVars
<1> QED
  BY <1>2, <1>3, <1>4, <1>5, CacheKept DEF cacheVars

(* A step of a call that does not touch the request registry.              *)
LEMMA SilentMove ==
  ASSUME IInv, NEW c \in Call, NEW s \in Stage, pc' = [pc EXCEPT ![c] = s],
         UNCHANGED <<requestVars, cancelCmd, releaseCmd>>,
         \A d \in Call : d # c => outcome'[d] = outcome[d],
         \/ pc[c] \in Busy /\ s \in Busy
         \/ pc[c] = "finished" /\ s = "answered"
  PROVE  RequestInv'
<1>0. Moved(c, s)
  BY CallMoves DEF IInv
<1>1. /\ Idle' = Idle \ {c} /\ Invoked' = Invoked \ {c} /\ Working' = Working
  BY <1>0, WhereCallIs DEF Moved, Busy
<1> QED
  BY <1>1, RequestKept DEF IInv

-----------------------------------------------------------------------------
(* The steps that only move a call on.                                     *)

LEMMA InvokeStep ==
  ASSUME IInv, NEW c \in Call, NEW p \in Path, Invoke(c, p)
  PROVE  IInv'
<1>1. /\ pc[c] = "idle" /\ pc' = [pc EXCEPT ![c] = "invoked"]
      /\ path' = [path EXCEPT ![c] = p] /\ source' = [source EXCEPT ![c] = generation]
      /\ UNCHANGED <<requestVars, resourceVars, cacheVars, file, newly, key, outcome,
                     prune, cancelCmd, releaseCmd>>
  BY DEF Invoke, Goto
<1>2. CallInv'
  BY <1>1 DEF IInv, CallInv, CallTypeOK, Stages, Stage, RegistryInv, ResourceTypeOK
<1>3. RegistryInv' /\ CacheInv'
  BY <1>1, QuietMove DEF Early, Stage, IInv, CallInv, CallTypeOK, CacheInv, CacheTypeOK
<1>4. /\ Idle' \subseteq Idle /\ Working' = Working /\ Invoked' = Invoked \cup {c} /\ c \in Idle
  <2>1. Moved(c, "invoked")
    BY <1>1, CallMoves DEF IInv, Stage
  <2> QED
    BY <1>1, <2>1, WhereCallIs DEF Moved, Stage, Busy
<1>5. RequestInv'
  BY <1>1, <1>4, InvokeRequest DEF IInv
<1> QED
  BY <1>2, <1>3, <1>5 DEF IInv

LEMMA StartStep ==
  ASSUME IInv, NEW c \in Call, Start(c)
  PROVE  IInv'
<1>1. /\ pc[c] = "invoked" /\ pc' = [pc EXCEPT ![c] = "started"] /\ register(c)
      /\ UNCHANGED <<resourceVars, cacheVars, file, path, source, newly, key, outcome,
                     prune, cancelCmd, releaseCmd>>
  BY DEF Start, Goto
<1>2. CallInv'
  BY <1>1 DEF IInv, CallInv, CallTypeOK, Stages, Stage
<1>3. RegistryInv' /\ CacheInv'
  BY <1>1, QuietMove DEF Early, Stage, IInv, CacheInv, CacheTypeOK
<1>4. /\ Idle' \subseteq Idle /\ Working' = Working \cup {c} /\ Invoked' = Invoked \ {c} /\ c \in Invoked
  <2>1. Moved(c, "started")
    BY <1>1, CallMoves DEF IInv, Stage
  <2> QED
    BY <1>1, <2>1, WhereCallIs DEF Moved, Stage, Busy
<1>5. RequestInv'
  BY <1>1, <1>4, StartRequest DEF IInv
<1> QED
  BY <1>2, <1>3, <1>5 DEF IInv

(* Probe, Ensure, Reuse and Generate: the next stage before the key, or a  *)
(* failure.                                                                *)
LEMMA EarlyStep ==
  ASSUME IInv, NEW c \in Call, Probe(c) \/ Ensure(c) \/ Reuse(c) \/ Generate(c)
  PROVE  IInv'
<1>1. PICK s \in Stage :
        /\ pc[c] \in Early \ {"idle", "invoked"} /\ pc' = [pc EXCEPT ![c] = s]
        /\ \/ s \in Early \ {"idle", "invoked"} /\ outcome' = outcome
           \/ s = "finishing" /\ outcome' = [outcome EXCEPT ![c] = "error"]
  BY DEF Probe, Ensure, Reuse, Generate, Goto, Fail, Stage, Early
<1>2. UNCHANGED <<requestVars, resourceVars, cacheVars, path, source, key, prune,
                  cancelCmd, releaseCmd>>
  BY DEF Probe, Ensure, Reuse, Generate
<1>3. file' \in [Path -> {"absent", "fresh", "old"}]
  BY DEF Probe, Ensure, Reuse, Generate, PublishFile, IInv, CacheInv, CacheTypeOK
<1>4. newly' \in [Call -> BOOLEAN]
  <2>1. newly \in [Call -> BOOLEAN]
    BY DEF IInv, CallInv, CallTypeOK
  <2>2. newly' = newly \/ newly' = [newly EXCEPT ![c] = file[path[c]] = "absent"]
    BY DEF Probe, Ensure, Reuse, Generate
  <2> QED
    BY <2>1, <2>2
<1>5. /\ \A d \in Call : d # c => outcome'[d] = outcome[d]
      /\ s = "finishing" => outcome'[c] = "error"
      /\ outcome' \in [Call -> {"none", "ok", "error"}]
  BY <1>1 DEF IInv, CallInv, CallTypeOK, Early
<1>6. CallInv'
  <2>1. CallTypeOK'
    BY <1>1, <1>2, <1>4, <1>5 DEF IInv, CallInv, CallTypeOK
  <2>2. Stages'
    BY <1>1, <1>2, <1>5 DEF IInv, CallInv, CallTypeOK, Stages, Early
  <2> QED
    BY <2>1, <2>2 DEF CallInv
<1>7. RegistryInv' /\ CacheInv'
  BY <1>1, <1>2, <1>3, <1>5, QuietMove
<1>8. RequestInv'
  BY <1>1, <1>2, <1>5, SilentMove DEF Busy, Early, Stage
<1> QED
  BY <1>6, <1>7, <1>8 DEF IInv

(* Maintenance: a round of it, or its end.                                 *)
LEMMA PruneTypes ==
  ASSUME IInv, NEW c \in Call, NEW candidates \in SUBSET Path, NEW total \in 0 .. Cardinality(Path),
         NEW enough \in Nat, PruneWith(c, candidates, total, enough)
  PROVE  \E s \in {"registered", "pruning"} :
           /\ pc' = [pc EXCEPT ![c] = s]
           /\ prune' \in [Call -> [protected : SUBSET Path, candidates : SUBSET Path,
                                   total : 0 .. Cardinality(Path)]]
           /\ \A d \in Call : d # c => prune'[d] = prune[d]
           /\ s = "pruning" => prune'[c].total > 0
<1>1. prune \in [Call -> [protected : SUBSET Path, candidates : SUBSET Path,
                          total : 0 .. Cardinality(Path)]]
  BY DEF IInv, CallInv, CallTypeOK
<1>2. CASE total <= enough \/ candidates = {}
  <2>1. prune' = [prune EXCEPT ![c] = NoPrune] /\ pc' = [pc EXCEPT ![c] = "registered"]
    BY <1>2 DEF PruneWith, Goto
  <2>2. NoPrune \in [protected : SUBSET Path, candidates : SUBSET Path, total : 0 .. Cardinality(Path)]
    BY Constants DEF NoPrune
  <2> QED
    BY <1>1, <2>1, <2>2
<1>3. CASE ~(total <= enough \/ candidates = {})
  <2>1. /\ prune' = [prune EXCEPT ![c].candidates = candidates, ![c].total = total]
        /\ pc' = [pc EXCEPT ![c] = "pruning"]
    BY <1>3 DEF PruneWith, Goto
  <2>2. total > 0
    BY <1>3, Constants
  <2>3. prune'[c].total = total
    BY <1>1, <2>1
  <2>4. prune' \in [Call -> [protected : SUBSET Path, candidates : SUBSET Path,
                             total : 0 .. Cardinality(Path)]]
    BY <1>1, <2>1
  <2>5. \A d \in Call : d # c => prune'[d] = prune[d]
    BY <1>1, <2>1
  <2> QED
    BY <2>1, <2>2, <2>3, <2>4, <2>5
<1> QED
  BY <1>2, <1>3

LEMMA MaintenanceStep ==
  ASSUME IInv, NEW c \in Call,
         PruneGivesUp(c) \/ PruneList(c) \/ (\E p \in Path : PruneRemove(c, p))
  PROVE  IInv'
<1>1. /\ pc[c] \in {"maintaining", "pruning"}
      /\ UNCHANGED <<requestVars, resourceVars, cacheVars, path, source, newly, key,
                     outcome, cancelCmd, releaseCmd>>
  BY DEF PruneGivesUp, PruneList, PruneRemove
<1>2. file' \in [Path -> {"absent", "fresh", "old"}]
  BY DEF PruneGivesUp, PruneList, PruneRemove, RemoveFile, IInv, CacheInv, CacheTypeOK
<1>3. PICK s \in {"registered", "pruning"} :
        /\ pc' = [pc EXCEPT ![c] = s]
        /\ prune' \in [Call -> [protected : SUBSET Path, candidates : SUBSET Path,
                                total : 0 .. Cardinality(Path)]]
        /\ \A d \in Call : d # c => prune'[d] = prune[d]
        /\ s = "pruning" => prune'[c].total > 0
  <2>1. prune \in [Call -> [protected : SUBSET Path, candidates : SUBSET Path,
                            total : 0 .. Cardinality(Path)]]
    BY DEF IInv, CallInv, CallTypeOK
  <2>2. CASE PruneGivesUp(c)
    <3>1. prune' = [prune EXCEPT ![c] = NoPrune] /\ pc' = [pc EXCEPT ![c] = "registered"]
      BY <2>2 DEF PruneGivesUp, Goto
    <3>2. NoPrune \in [protected : SUBSET Path, candidates : SUBSET Path, total : 0 .. Cardinality(Path)]
      BY Constants DEF NoPrune
    <3> QED
      BY <2>1, <3>1, <3>2
  <2>3. CASE PruneList(c)
    <3>1. PruneWith(c, PruneCandidates(prune[c].protected), TotalFiles, MaxFiles)
      BY <2>3 DEF PruneList
    <3>2. PruneCandidates(prune[c].protected) \in SUBSET Path
      BY DEF PruneCandidates
    <3>3. TotalFiles \in 0 .. Cardinality(Path)
      <4>1. {p \in Path : file[p] # "absent"} \in SUBSET Path
        OBVIOUS
      <4> QED
        BY <4>1, Constants, FS_Subset, FS_CardinalityType DEF TotalFiles
    <3> QED
      BY <3>1, <3>2, <3>3, Constants, PruneTypes
  <2>4. CASE \E p \in Path : PruneRemove(c, p)
    <3>1. PICK p \in Path : PruneRemove(c, p)
      BY <2>4
    <3>2. /\ pc[c] = "pruning"
          /\ PruneWith(c, prune[c].candidates \ {p}, prune[c].total - 1, TargetFiles)
      BY <3>1 DEF PruneRemove
    <3>3. prune[c].candidates \ {p} \in SUBSET Path
      BY <2>1
    <3>4. prune[c].total \in 0 .. Cardinality(Path) /\ prune[c].total > 0
      BY <2>1, <3>2 DEF IInv, CallInv, Stages
    <3>5. prune[c].total - 1 \in 0 .. Cardinality(Path)
      BY <3>4, Constants
    <3> QED
      BY <3>2, <3>3, <3>5, Constants, PruneTypes
  <2> QED
    BY <2>2, <2>3, <2>4
<1>4. CallInv'
  BY <1>1, <1>3 DEF IInv, CallInv, CallTypeOK, Stages, Stage
<1>5. RegistryInv' /\ CacheInv'
  BY <1>1, <1>2, <1>3, QuietMove DEF Registered, Stage
<1>6. RequestInv'
  BY <1>1, <1>3, SilentMove DEF Busy, Stage
<1> QED
  BY <1>4, <1>5, <1>6 DEF IInv

LEMMA FinishStep ==
  ASSUME IInv, NEW c \in Call, Finish(c)
  PROVE  IInv'
<1>1. /\ pc[c] = "finishing" /\ pc' = [pc EXCEPT ![c] = "finished"] /\ finish(c)
      /\ UNCHANGED <<resourceVars, cacheVars, file, path, source, newly, key, outcome,
                     prune, cancelCmd, releaseCmd>>
  BY DEF Finish, Goto
<1>2. CallInv'
  BY <1>1 DEF IInv, CallInv, CallTypeOK, Stages, Stage
<1>3. RegistryInv' /\ CacheInv'
  BY <1>1, QuietMove DEF Ending, Stage, IInv, CacheInv, CacheTypeOK
<1>4. Idle' \subseteq Idle /\ Working' = Working \ {c} /\ Invoked' \subseteq Invoked
  <2>1. Moved(c, "finished")
    BY <1>1, CallMoves DEF IInv, Stage
  <2> QED
    BY <1>1, <2>1, WhereCallIs DEF Moved, Stage, Busy
<1>5. RequestInv'
  BY <1>1, <1>4, FinishRequest DEF IInv
<1> QED
  BY <1>2, <1>3, <1>5 DEF IInv

LEMMA AnswerStep ==
  ASSUME IInv, NEW c \in Call, Answer(c)
  PROVE  IInv'
<1>1. /\ pc[c] = "finished" /\ pc' = [pc EXCEPT ![c] = "answered"]
      /\ UNCHANGED <<requestVars, resourceVars, cacheVars, file, path, source, newly, key,
                     outcome, prune, cancelCmd, releaseCmd>>
  BY DEF Answer, Goto
<1>2. CallInv'
  BY <1>1 DEF IInv, CallInv, CallTypeOK, Stages, Stage
<1>3. RegistryInv' /\ CacheInv'
  BY <1>1, QuietMove DEF Ending, Stage, IInv, CacheInv, CacheTypeOK
<1>4. RequestInv'
  BY <1>1, SilentMove DEF Stage
<1> QED
  BY <1>2, <1>3, <1>4 DEF IInv

-----------------------------------------------------------------------------
(* The steps that take a key or give one back.                             *)

LEMMA DeriveStep ==
  ASSUME IInv, NEW c \in Call, Derive(c)
  PROVE  IInv'
<1>1. /\ pc[c] = "ready"
      /\ UNCHANGED <<requestVars, cacheVars, file, path, source, newly, prune, cancelCmd, releaseCmd>>
  BY DEF Derive
<1>2. CASE ~Cancelled(c) /\ CanRegister(source[c])
  <2>1. /\ register_derived(path[c])
        /\ key' = [key EXCEPT ![c] = [generation |-> generation, number |-> derivedKey'[path[c]]]]
        /\ pc' = [pc EXCEPT ![c] = "derived"] /\ outcome' = outcome
    BY <1>2 DEF Derive, Goto
  <2>2. Moved(c, "derived")
    BY <1>1, <2>1, CallMoves DEF IInv, Stage
  <2>3. c \notin Given /\ c \notin Keyed /\ c \notin Derived /\ c \notin Cached
    BY <1>1, WhereCallIs DEF Early, Registered, Ending
  <2>4. /\ Given' = Given \cup {c} /\ c \in Keyed' /\ c \in Derived' /\ c \notin Cached'
    BY <2>2 DEF Moved, Early, Registered, Ending
  <2>5. Derived' = Derived \cup {c} /\ Keyed' = Keyed \cup {c} /\ Cached' = Cached
    BY <2>2, <2>3, <2>4, UsersAreKeyed DEF Moved
  <2>6. path[c] \in Path
    BY <1>1 DEF IInv, CallInv, Stages
  <2>7. /\ RegistryInv' /\ key' \in [Call -> ResourceKey]
        /\ \A d \in Keyed : key[d] = key'[c] => path[d] = path[c]
    BY <1>1, <2>1, <2>3, <2>4, <2>5, <2>6, RegistryGives DEF IInv
  <2>8. \A d \in Call : d # c => key'[d] = key[d]
    BY <2>1 DEF IInv, CallInv, CallTypeOK
  <2>9. CacheInv'
    BY <1>1, <2>3, <2>5, <2>7, <2>8, CacheSeesKey DEF IInv
  <2>10. CallInv'
    BY <1>1, <2>1, <2>7 DEF IInv, CallInv, CallTypeOK, Stages, Stage
  <2>11. RequestInv'
    BY <1>1, <2>1, SilentMove DEF Busy, Stage
  <2> QED
    BY <2>7, <2>9, <2>10, <2>11 DEF IInv
<1>3. CASE ~(~Cancelled(c) /\ CanRegister(source[c]))
  <2>1. /\ pc' = [pc EXCEPT ![c] = "finishing"] /\ outcome' = [outcome EXCEPT ![c] = "error"]
        /\ UNCHANGED <<resourceVars, key>>
    BY <1>3 DEF Derive, Fail, Goto
  <2>2. /\ \A d \in Call : d # c => outcome'[d] = outcome[d] /\ path'[d] = path[d]
        /\ outcome'[c] = "error"
    BY <1>1, <2>1 DEF IInv, CallInv, CallTypeOK
  <2>3. CallInv'
    BY <1>1, <2>1 DEF IInv, CallInv, CallTypeOK, Stages, Stage
  <2>4. file' \in [Path -> {"absent", "fresh", "old"}]
    BY <1>1 DEF IInv, CacheInv, CacheTypeOK
  <2>5. RegistryInv' /\ CacheInv'
    BY <1>1, <2>1, <2>2, <2>4, QuietMove DEF Early, Stage
  <2>6. RequestInv'
    BY <1>1, <2>1, <2>2, SilentMove DEF Busy, Stage
  <2> QED
    BY <2>3, <2>5, <2>6 DEF IInv
<1> QED
  BY <1>2, <1>3

(* A call that gives back its key in the registry, and moves on.           *)
LEMMA GivesKeyBack ==
  ASSUME IInv, NEW c \in Call, NEW s \in Stage, pc' = [pc EXCEPT ![c] = s],
         release_derived(key[c]), UNCHANGED <<cacheVars, file, path, key, releaseCmd>>,
         \A d \in Call : d # c => outcome'[d] = outcome[d],
         \/ pc[c] = "derived" /\ s = "finishing" /\ outcome'[c] = "error"
         \/ pc[c] = "registered" /\ s = "undoing"
  PROVE  RegistryInv' /\ CacheInv'
<1>1. Moved(c, s)
  BY CallMoves DEF IInv
<1>2. c \in Derived /\ c \in Keyed /\ c \in Given
  BY WhereCallIs DEF Early, Registered
<1>3. c \notin Derived' /\ (c \in Cached' <=> c \in Cached) /\ Given' = Given \cup {c}
  BY <1>1, WhereCallIs DEF Moved, Early, Registered, Ending
<1>4. Derived' = Derived \ {c}
  <2>1. Derived \subseteq Call /\ Derived' \subseteq Call
        /\ \A d \in Call \ {c} : d \in Derived' <=> d \in Derived
    BY <1>1, UsersAreKeyed DEF Moved
  <2> QED
    BY <1>3, <2>1
<1>5. Cached' = Cached
  <2>1. Cached \subseteq Call /\ Cached' \subseteq Call
        /\ \A d \in Call \ {c} : d \in Cached' <=> d \in Cached
    BY <1>1, UsersAreKeyed DEF Moved
  <2> QED
    BY <1>3, <2>1
<1>6. Keyed' \subseteq Keyed
  <2>1. Keyed' \subseteq Call /\ \A d \in Call \ {c} : d \in Keyed' <=> d \in Keyed
    BY <1>1 DEF Moved
  <2> QED
    BY <1>2, <2>1
<1>7. RegistryInv'
  BY <1>2, <1>3, <1>4, <1>6, RegistryReleases DEF IInv
<1>8. CacheTypeOK'
  BY DEF IInv, CacheInv, CacheTypeOK, cacheVars
<1> QED
  BY <1>5, <1>6, <1>7, <1>8, CacheKept DEF IInv, cacheVars

LEMMA ProtectStep ==
  ASSUME IInv, NEW c \in Call, Protect(c)
  PROVE  IInv'
<1>1. /\ pc[c] = "derived"
      /\ UNCHANGED <<requestVars, file, path, source, newly, key, cancelCmd, releaseCmd>>
  BY DEF Protect
<1>2. CASE Cancelled(c)
  <2>1. /\ release_derived(key[c]) /\ UNCHANGED <<cacheVars, prune>>
        /\ pc' = [pc EXCEPT ![c] = "finishing"] /\ outcome' = [outcome EXCEPT ![c] = "error"]
    BY <1>2 DEF Protect, Fail, Goto
  <2>2. /\ \A d \in Call : d # c => outcome'[d] = outcome[d]
        /\ outcome'[c] = "error"
    BY <2>1 DEF IInv, CallInv, CallTypeOK
  <2>3. CallInv'
    BY <1>1, <2>1 DEF IInv, CallInv, CallTypeOK, Stages, Stage
  <2>4. RegistryInv' /\ CacheInv'
    BY <1>1, <2>1, <2>2, GivesKeyBack DEF Stage
  <2>5. RequestInv'
    BY <1>1, <2>1, <2>2, SilentMove DEF Busy, Stage
  <2> QED
    BY <2>3, <2>4, <2>5 DEF IInv
<1>3. CASE ~Cancelled(c)
  <2>1. c \in Keyed /\ c \in Derived /\ c \notin Cached /\ c \in Given
    BY <1>1, WhereCallIs DEF Early, Registered, Ending
  <2>2. ~KeyConflict(key[c], path[c])
    BY <2>1, NoConflict DEF IInv
  <2>3. UNCHANGED <<resourceVars, outcome>> /\ CacheRegister(key[c], path[c], newly[c])
    BY <1>3, <2>2 DEF Protect
  <2>4. PICK s \in {"maintaining", "registered"} :
          /\ pc' = [pc EXCEPT ![c] = s]
          /\ prune' = prune \/ prune' = [prune EXCEPT ![c].protected = ActivePaths']
    BY <1>3, <2>2 DEF Protect, Goto
  <2>5. newly[c] \in BOOLEAN
    BY DEF IInv, CallInv, CallTypeOK
  <2>6. Moved(c, s)
    BY <1>1, <2>3, <2>4, CallMoves DEF IInv, Stage
  <2>7. c \in Derived' /\ c \in Cached' /\ c \in Keyed' /\ Given' = Given \cup {c}
    BY <2>4, <2>6 DEF Moved, Early, Registered, Ending
  <2>8. Derived' = Derived
    <3>1. Derived \subseteq Call /\ Derived' \subseteq Call
          /\ \A d \in Call \ {c} : d \in Derived' <=> d \in Derived
      BY <2>6, UsersAreKeyed DEF Moved
    <3> QED
      BY <2>1, <2>7, <3>1
  <2>9. Cached' = Cached \cup {c}
    <3>1. Cached \subseteq Call /\ Cached' \subseteq Call
          /\ \A d \in Call \ {c} : d \in Cached' <=> d \in Cached
      BY <2>6, UsersAreKeyed DEF Moved
    <3> QED
      BY <2>1, <2>7, <3>1
  <2>10. Keyed' \subseteq Keyed
    <3>1. Keyed' \subseteq Call /\ \A d \in Call \ {c} : d \in Keyed' <=> d \in Keyed
      BY <2>6 DEF Moved
    <3> QED
      BY <2>1, <3>1
  <2>11. RegistryInv'
    BY <1>1, <2>3, <2>7, <2>8, <2>10, RegistryKept DEF IInv
  <2>12. CacheInv'
    BY <1>1, <2>1, <2>3, <2>5, <2>9, <2>10, CacheTakes DEF IInv
  <2>13. prune' \in [Call -> [protected : SUBSET Path, candidates : SUBSET Path,
                              total : 0 .. Cardinality(Path)]]
    <3>1. ActivePaths' \in SUBSET Path
      <4>1. \A k \in ResourceKey : cacheActive'[k] > 0 => cachePath'[k] \in Path
        <5> SUFFICES ASSUME NEW k \in ResourceKey, cacheActive'[k] > 0 PROVE cachePath'[k] \in Path
          OBVIOUS
        <5>1. CacheUsers(k)' # {}
          BY <2>12, FS_EmptySet DEF CacheInv
        <5>2. PICK d \in Cached' : key'[d] = k
          BY <5>1 DEF CacheUsers
        <5>3. cachePath'[k] = path'[d] /\ d \in Keyed
          BY <2>1, <2>9, <2>12, <5>2, UsersAreKeyed DEF CacheInv
        <5>4. path[d] \in Path
          BY <5>3 DEF IInv, CallInv, Stages, Keyed, Delivering
        <5> QED
          BY <1>1, <5>3, <5>4
      <4> QED
        BY <4>1 DEF ActivePaths
    <3>2. PICK used \in SUBSET Path : used = ActivePaths'
      BY <3>1
    <3>3. prune' = prune \/ prune' = [prune EXCEPT ![c].protected = used]
      BY <2>4, <3>2
    <3>4. prune \in [Call -> [protected : SUBSET Path, candidates : SUBSET Path,
                             total : 0 .. Cardinality(Path)]]
      BY DEF IInv, CallInv, CallTypeOK
    <3> QED
      BY <3>3, <3>4
  <2>14. CallInv'
    BY <1>1, <2>3, <2>4, <2>13 DEF IInv, CallInv, CallTypeOK, Stages, Stage
  <2>15. RequestInv'
    BY <1>1, <2>3, <2>4, SilentMove DEF Busy, Stage
  <2> QED
    BY <2>11, <2>12, <2>14, <2>15 DEF IInv
<1> QED
  BY <1>2, <1>3

LEMMA ConcludeStep ==
  ASSUME IInv, NEW c \in Call, Conclude(c)
  PROVE  IInv'
<1>1. /\ pc[c] = "registered"
      /\ UNCHANGED <<requestVars, cacheVars, file, path, source, newly, key, prune,
                     cancelCmd, releaseCmd>>
  BY DEF Conclude
<1>2. CASE Cancelled(c)
  <2>1. release_derived(key[c]) /\ pc' = [pc EXCEPT ![c] = "undoing"] /\ outcome' = outcome
    BY <1>2 DEF Conclude, Goto
  <2>2. CallInv'
    BY <1>1, <2>1 DEF IInv, CallInv, CallTypeOK, Stages, Stage
  <2>3. RegistryInv' /\ CacheInv'
    BY <1>1, <2>1, GivesKeyBack DEF Stage
  <2>4. RequestInv'
    BY <1>1, <2>1, SilentMove DEF Busy, Stage
  <2> QED
    BY <2>2, <2>3, <2>4 DEF IInv
<1>3. CASE ~Cancelled(c)
  <2>1. /\ UNCHANGED resourceVars /\ pc' = [pc EXCEPT ![c] = "finishing"]
        /\ outcome' = [outcome EXCEPT ![c] = "ok"]
    BY <1>3 DEF Conclude, Goto
  <2>2. /\ \A d \in Call : d # c => outcome'[d] = outcome[d]
        /\ outcome'[c] = "ok" /\ releaseCmd[c] = "none"
    BY <1>1, <2>1 DEF IInv, CallInv, CallTypeOK, Stages
  <2>3. CallInv'
    BY <1>1, <2>1 DEF IInv, CallInv, CallTypeOK, Stages, Stage
  <2>4. Moved(c, "finishing")
    BY <1>1, <2>1, <2>2, CallMoves DEF IInv, Stage
  <2>5. c \in Derived /\ c \in Cached /\ c \in Keyed /\ c \in Given
    BY <1>1, WhereCallIs DEF Early, Registered
  <2>6. c \in Derived' /\ c \in Cached' /\ Given' = Given \cup {c}
    BY <1>1, <2>2, <2>4 DEF Moved, Early, Ending
  <2>7. Derived' = Derived
    <3>1. Derived \subseteq Call /\ Derived' \subseteq Call
          /\ \A d \in Call \ {c} : d \in Derived' <=> d \in Derived
      BY <2>4, UsersAreKeyed DEF Moved
    <3> QED
      BY <2>5, <2>6, <3>1
  <2>8. Cached' = Cached
    <3>1. Cached \subseteq Call /\ Cached' \subseteq Call
          /\ \A d \in Call \ {c} : d \in Cached' <=> d \in Cached
      BY <2>4, UsersAreKeyed DEF Moved
    <3> QED
      BY <2>5, <2>6, <3>1
  <2>9. Keyed' \subseteq Keyed
    <3>1. Keyed' \subseteq Call /\ \A d \in Call \ {c} : d \in Keyed' <=> d \in Keyed
      BY <2>4 DEF Moved
    <3> QED
      BY <2>5, <3>1
  <2>10. RegistryInv'
    BY <1>1, <2>1, <2>6, <2>7, <2>9, RegistryKept DEF IInv
  <2>11. CacheTypeOK'
    BY <1>1 DEF IInv, CacheInv, CacheTypeOK, cacheVars
  <2>12. CacheInv'
    BY <1>1, <2>8, <2>9, <2>11, CacheKept DEF IInv, cacheVars
  <2>13. RequestInv'
    BY <1>1, <2>1, <2>2, SilentMove DEF Busy, Stage
  <2> QED
    BY <2>3, <2>10, <2>12, <2>13 DEF IInv
<1> QED
  BY <1>2, <1>3

LEMMA UndoStep ==
  ASSUME IInv, NEW c \in Call, Undo(c)
  PROVE  IInv'
<1>1. /\ pc[c] = "undoing" /\ CacheRelease(key[c])
      /\ pc' = [pc EXCEPT ![c] = "finishing"] /\ outcome' = [outcome EXCEPT ![c] = "error"]
      /\ UNCHANGED <<requestVars, resourceVars, file, path, source, newly, key, prune,
                     cancelCmd, releaseCmd>>
  BY DEF Undo, Fail, Goto
<1>2. /\ \A d \in Call : d # c => outcome'[d] = outcome[d]
      /\ outcome'[c] = "error"
  BY <1>1 DEF IInv, CallInv, CallTypeOK
<1>3. CallInv'
  BY <1>1 DEF IInv, CallInv, CallTypeOK, Stages, Stage
<1>4. Moved(c, "finishing")
  BY <1>1, <1>2, CallMoves DEF IInv, Stage
<1>5. c \notin Derived /\ c \in Cached /\ c \in Keyed /\ c \in Given
  BY <1>1, WhereCallIs DEF Early, Registered, Ending
<1>6. c \notin Derived' /\ c \notin Cached' /\ Given' = Given \cup {c}
  BY <1>1, <1>2, <1>4 DEF Moved, Early, Registered, Ending
<1>7. Derived' = Derived
  <2>1. Derived \subseteq Call /\ Derived' \subseteq Call
        /\ \A d \in Call \ {c} : d \in Derived' <=> d \in Derived
    BY <1>4, UsersAreKeyed DEF Moved
  <2> QED
    BY <1>5, <1>6, <2>1
<1>8. Cached' = Cached \ {c}
  <2>1. Cached \subseteq Call /\ Cached' \subseteq Call
        /\ \A d \in Call \ {c} : d \in Cached' <=> d \in Cached
    BY <1>4, UsersAreKeyed DEF Moved
  <2> QED
    BY <1>5, <1>6, <2>1
<1>9. Keyed' \subseteq Keyed
  <2>1. Keyed' \subseteq Call /\ \A d \in Call \ {c} : d \in Keyed' <=> d \in Keyed
    BY <1>4 DEF Moved
  <2> QED
    BY <1>5, <2>1
<1>10. RegistryInv'
  BY <1>1, <1>6, <1>7, <1>9, RegistryKept DEF IInv
<1>11. CacheInv'
  BY <1>1, <1>5, <1>8, <1>9, CacheReleases DEF IInv
<1>12. RequestInv'
  BY <1>1, <1>2, SilentMove DEF Busy, Stage
<1> QED
  BY <1>3, <1>10, <1>11, <1>12 DEF IInv

(* release_representation, one registry after the other.                   *)
LEMMA ReleaseStep ==
  ASSUME IInv, NEW c \in Call, ReleaseDerived(c) \/ ReleaseCache(c)
  PROVE  IInv'
<1>1. /\ pc[c] = "answered" /\ outcome[c] = "ok"
      /\ UNCHANGED <<requestVars, file, pc, path, source, newly, key, outcome, prune, cancelCmd>>
  BY DEF ReleaseDerived, ReleaseCache, Holds, IInv, CallInv, Stages
<1>2. /\ Given' = Given /\ Keyed' = Keyed /\ Idle' = Idle /\ Working' = Working /\ Invoked' = Invoked
      /\ c \in Keyed /\ c \in Call
  BY <1>1 DEF Given, Keyed, Idle, Working, Invoked, Delivering
<1>3. RequestInv'
  BY <1>1, <1>2, RequestKept DEF IInv
<1>4. CASE ReleaseDerived(c)
  <2>1. /\ releaseCmd[c] = "none" /\ releaseCmd' = [releaseCmd EXCEPT ![c] = "half"]
        /\ release_derived(key[c]) /\ UNCHANGED cacheVars
    BY <1>4 DEF ReleaseDerived, Holds
  <2>2. /\ c \in Derived /\ Derived' = Derived \ {c} /\ Cached' = Cached
    BY <1>1, <2>1 DEF IInv, CallInv, CallTypeOK, Derived, Cached, UsesDerived, UsesCache, Delivering
  <2>3. CallInv'
    BY <1>1, <2>1 DEF IInv, CallInv, CallTypeOK, Stages
  <2>4. RegistryInv'
    BY <1>1, <1>2, <2>1, <2>2, RegistryReleases DEF IInv
  <2>5. CacheTypeOK'
    BY <1>1, <2>1 DEF IInv, CacheInv, CacheTypeOK, cacheVars
  <2>6. CacheInv'
    BY <1>1, <1>2, <2>1, <2>2, <2>5, CacheKept DEF IInv, cacheVars
  <2> QED
    BY <1>3, <2>3, <2>4, <2>6 DEF IInv
<1>5. CASE ReleaseCache(c)
  <2>1. /\ releaseCmd[c] = "half" /\ releaseCmd' = [releaseCmd EXCEPT ![c] = "done"]
        /\ CacheRelease(key[c]) /\ UNCHANGED resourceVars
    BY <1>5 DEF ReleaseCache
  <2>2. /\ c \in Cached /\ Cached' = Cached \ {c} /\ Derived' = Derived
    BY <1>1, <2>1 DEF IInv, CallInv, CallTypeOK, Derived, Cached, UsesDerived, UsesCache, Delivering
  <2>3. CallInv'
    BY <1>1, <2>1 DEF IInv, CallInv, CallTypeOK, Stages
  <2>4. RegistryInv'
    BY <1>1, <1>2, <2>1, <2>2, RegistryKept DEF IInv
  <2>5. CacheInv'
    BY <1>1, <1>2, <2>1, <2>2, CacheReleases DEF IInv
  <2> QED
    BY <1>3, <2>3, <2>4, <2>5 DEF IInv
<1> QED
  BY <1>4, <1>5

-----------------------------------------------------------------------------
(* The steps of the others: cancellations, sessions, time.                 *)

LEMMA SetsKept ==
  ASSUME UNCHANGED <<pc, path, key, outcome, releaseCmd>>
  PROVE  /\ Given' = Given /\ Keyed' = Keyed /\ Derived' = Derived /\ Cached' = Cached
         /\ Idle' = Idle /\ Working' = Working /\ Invoked' = Invoked
BY DEF Given, Keyed, Derived, Cached, UsesDerived, UsesCache, Delivering, Idle, Working, Invoked

LEMMA RegistriesKept ==
  ASSUME IInv, UNCHANGED <<pc, path, key, outcome, releaseCmd, resourceVars, cacheVars>>,
         file' \in [Path -> {"absent", "fresh", "old"}]
  PROVE  RegistryInv' /\ CacheInv'
<1>1. RegistryInv'
  BY SetsKept, RegistryKept DEF IInv
<1>2. CacheTypeOK'
  BY DEF IInv, CacheInv, CacheTypeOK, cacheVars
<1> QED
  BY <1>1, <1>2, SetsKept, CacheKept DEF IInv, cacheVars

LEMMA CancelStep ==
  ASSUME IInv, NEW c \in Call, SendCancel(c) \/ ExecuteCancel(c)
  PROVE  IInv'
<1>1. /\ UNCHANGED <<resourceVars, cacheVars, file, pc, path, source, newly, key, outcome,
                     prune, releaseCmd>>
      /\ \E s \in {"sent", "done"} : cancelCmd' = [cancelCmd EXCEPT ![c] = s]
  BY DEF SendCancel, ExecuteCancel
<1>2. CallInv'
  BY <1>1 DEF IInv, CallInv, CallTypeOK, Stages
<1>3. RegistryInv' /\ CacheInv'
  BY <1>1, RegistriesKept DEF IInv, CacheInv, CacheTypeOK
<1>4. CASE SendCancel(c)
  BY <1>1, <1>2, <1>3, <1>4, SendCancelRequest DEF SendCancel, IInv, Idle
<1>5. CASE ExecuteCancel(c)
  BY <1>1, <1>2, <1>3, <1>5, ExecuteCancelRequest DEF ExecuteCancel, IInv
<1> QED
  BY <1>4, <1>5

LEMMA BeginSessionStep ==
  ASSUME IInv, BeginSession
  PROVE  IInv'
<1>1. begin_session /\ UNCHANGED <<requestVars, cacheVars, file, callVars>>
  BY DEF BeginSession
<1>2. UNCHANGED <<pc, path, source, newly, key, outcome, prune, cancelCmd, releaseCmd>>
  BY <1>1 DEF callVars
<1>3. CallInv'
  BY <1>2 DEF IInv, CallInv, CallTypeOK, Stages
<1>4. RegistryInv'
  BY <1>1, RegistryResets DEF IInv
<1>5. CacheTypeOK'
  BY <1>1 DEF IInv, CacheInv, CacheTypeOK, cacheVars
<1>6. CacheInv'
  BY <1>1, <1>2, <1>5, SetsKept, CacheKept DEF IInv, cacheVars
<1>7. RequestInv'
  BY <1>1, <1>2, SetsKept, RequestKept DEF IInv
<1> QED
  BY <1>3, <1>4, <1>6, <1>7 DEF IInv

LEMMA GrowOldStep ==
  ASSUME IInv, NEW p \in Path, GrowOld(p)
  PROVE  IInv'
<1>1. file' = [file EXCEPT ![p] = "old"] /\ UNCHANGED <<requestVars, resourceVars, cacheVars, callVars>>
  BY DEF GrowOld
<1>2. UNCHANGED <<pc, path, source, newly, key, outcome, prune, cancelCmd, releaseCmd>>
  BY <1>1 DEF callVars
<1>3. CallInv'
  BY <1>2 DEF IInv, CallInv, CallTypeOK, Stages
<1>4. file' \in [Path -> {"absent", "fresh", "old"}]
  BY <1>1 DEF IInv, CacheInv, CacheTypeOK
<1>5. RegistryInv' /\ CacheInv'
  BY <1>1, <1>2, <1>4, RegistriesKept
<1>6. RequestInv'
  BY <1>1, <1>2, SetsKept, RequestKept DEF IInv
<1> QED
  BY <1>3, <1>5, <1>6 DEF IInv

LEMMA StutterStep ==
  ASSUME IInv, UNCHANGED vars
  PROVE  IInv'
<1>1. UNCHANGED <<requestVars, resourceVars, cacheVars, file, pc, path, source, newly, key,
                  outcome, prune, cancelCmd, releaseCmd>>
  BY DEF vars, callVars
<1>2. CallInv'
  BY <1>1 DEF IInv, CallInv, CallTypeOK, Stages
<1>3. RegistryInv' /\ CacheInv'
  BY <1>1, RegistriesKept DEF IInv, CacheInv, CacheTypeOK
<1>4. RequestInv'
  BY <1>1, SetsKept, RequestKept DEF IInv
<1> QED
  BY <1>2, <1>3, <1>4 DEF IInv

-----------------------------------------------------------------------------
LEMMA InitIInv == Init => IInv
<1> SUFFICES ASSUME Init PROVE IInv
  OBVIOUS
<1>1. /\ generation = 1 /\ nextKey = 0
      /\ derivedKey = [p \in Path |-> NoKey] /\ registrations = [p \in Path |-> 0]
      /\ active = {} /\ cancelled = {} /\ pending = {} /\ pendingOrder = <<>>
      /\ cacheActive = [k \in ResourceKey |-> 0] /\ cachePath = [k \in ResourceKey |-> NoPath]
      /\ maintained = FALSE /\ generated = 0 /\ file \in [Path -> {"absent", "old"}]
  BY DEF Init, RequestInit, ResourceInit, CacheInit
<1>2. /\ pc = [c \in Call |-> "idle"] /\ path = [c \in Call |-> NoPath]
      /\ source = [c \in Call |-> 1] /\ newly = [c \in Call |-> FALSE]
      /\ key = [c \in Call |-> [generation |-> 1, number |-> 0]]
      /\ outcome = [c \in Call |-> "none"] /\ prune = [c \in Call |-> NoPrune]
      /\ cancelCmd = [c \in Call |-> "none"] /\ releaseCmd = [c \in Call |-> "none"]
  BY DEF Init
<1>3. Given = {} /\ Keyed = {} /\ Derived = {} /\ Cached = {} /\ Working = {} /\ Done = {}
  BY <1>2 DEF Given, Keyed, Derived, Cached, UsesDerived, UsesCache, Delivering, Working, Done, Early, Busy
<1>4. ASSUME NEW c \in Call PROVE [generation |-> 1, number |-> 0] \in ResourceKey
  <2>1. Cardinality(Call) # 0 /\ Cardinality(Call) \in Nat
    BY Constants, FS_EmptySet
  <2>2. 0 \in 0 .. MaxKey /\ 1 \in 1 .. MaxGeneration
    BY <2>1, Constants DEF MaxKey
  <2> QED
    BY <2>2 DEF ResourceKey
<1>5. NoPrune \in [protected : SUBSET Path, candidates : SUBSET Path, total : 0 .. Cardinality(Path)]
  BY Constants DEF NoPrune
<1>6. CallInv
  <2>1. 1 \in 1 .. MaxGeneration
    BY Constants
  <2> QED
    BY <1>2, <1>4, <1>5, <2>1 DEF CallInv, CallTypeOK, Stages, Stage
<1>7. RegistryInv
  <2>1. ResourceTypeOK
    <3>1. 0 \in 0 .. MaxKey + 1 /\ 1 \in 1 .. MaxGeneration
      BY Constants DEF MaxKey
    <3> QED
      BY <1>1, <3>1 DEF ResourceTypeOK
  <2>2. \A p \in Path : DerivedUsers(p) = {}
    BY <1>3 DEF DerivedUsers
  <2> QED
    BY <1>1, <1>3, <2>1, <2>2, FS_EmptySet DEF RegistryInv, NoKey
<1>8. CacheInv
  <2>1. CacheTypeOK
    <3>1. 0 \in 0 .. MaintainEvery - 1 /\ 0 \in Nat
      BY Constants
    <3>2. file \in [Path -> {"absent", "fresh", "old"}]
      BY <1>1
    <3> QED
      BY <1>1, <3>1, <3>2 DEF CacheTypeOK
  <2>2. \A k \in ResourceKey : CacheUsers(k) = {}
    BY <1>3 DEF CacheUsers
  <2> QED
    BY <1>1, <1>3, <2>1, <2>2, FS_EmptySet DEF CacheInv
<1>9. RequestInv
  BY <1>1, <1>2, <1>3 DEF RequestInv, RequestTypeOK, Idle
<1> QED
  BY <1>6, <1>7, <1>8, <1>9 DEF IInv

LEMMA StepKeepsIInv == IInv /\ [Next]_vars => IInv'
<1> SUFFICES ASSUME IInv, [Next]_vars PROVE IInv'
  OBVIOUS
<1>1. CASE \E c \in Call, p \in Path : Invoke(c, p)
  BY <1>1, InvokeStep
<1>2. CASE \E c \in Call : Work(c)
  <2>1. PICK c \in Call : Work(c)
    BY <1>2
  <2>2. CASE Start(c)
    BY <2>2, StartStep
  <2>3. CASE Probe(c) \/ Ensure(c) \/ Reuse(c) \/ Generate(c)
    BY <2>3, EarlyStep
  <2>4. CASE Derive(c)
    BY <2>4, DeriveStep
  <2>5. CASE Protect(c)
    BY <2>5, ProtectStep
  <2>6. CASE PruneList(c) \/ (\E p \in Path : PruneRemove(c, p)) \/ PruneGivesUp(c)
    BY <2>6, MaintenanceStep
  <2>7. CASE Conclude(c)
    BY <2>7, ConcludeStep
  <2>8. CASE Undo(c)
    BY <2>8, UndoStep
  <2>9. CASE Finish(c)
    BY <2>9, FinishStep
  <2>10. CASE Answer(c)
    BY <2>10, AnswerStep
  <2> QED
    BY <2>1, <2>2, <2>3, <2>4, <2>5, <2>6, <2>7, <2>8, <2>9, <2>10 DEF Work
<1>3. CASE \E c \in Call : SendCancel(c) \/ ExecuteCancel(c)
  BY <1>3, CancelStep
<1>4. CASE \E c \in Call : ReleaseDerived(c) \/ ReleaseCache(c)
  BY <1>4, ReleaseStep
<1>5. CASE BeginSession
  BY <1>5, BeginSessionStep
<1>6. CASE \E p \in Path : GrowOld(p)
  BY <1>6, GrowOldStep
<1>7. CASE UNCHANGED vars
  BY <1>7, StutterStep
<1> QED
  BY <1>1, <1>2, <1>3, <1>4, <1>5, <1>6, <1>7 DEF Next

(* In every reachable state a key names one file, the registry knows the   *)
(* key of every user, and both reference counts are those of the users.    *)
THEOREM Invariance == Spec => []IInv
<1>1. Init => IInv
  BY InitIInv
<1>2. IInv /\ [Next]_vars => IInv'
  BY StepKeepsIInv
<1> QED
  BY <1>1, <1>2, PTL DEF Spec

(* Every variable keeps its type: the numbers of a generation suffice, and *)
(* the count of generated files stays below its threshold.                 *)
THEOREM TypeCorrect == Spec => []TypeOK
<1>1. IInv => TypeOK
  BY TypesMatch DEF IInv, CallInv, RegistryInv, CacheInv, RequestInv
<1> QED
  BY <1>1, Invariance, PTL

(* Neither registry leaks a reference or runs short of one, whatever is    *)
(* cancelled, released or voided by a new session, in any order.           *)
THEOREM CountsMatchUsersHolds == Spec => []CountsMatchUsers
<1>1. IInv => CountsMatchUsers
  BY CountsMatch DEF IInv
<1> QED
  BY <1>1, Invariance, PTL

(* The media protocol serves under a key the file it was given out for.    *)
THEOREM KeyServesItsFileHolds == Spec => []KeyServesItsFile
<1>1. IInv => KeyServesItsFile
  BY KeysServe DEF IInv
<1> QED
  BY <1>1, Invariance, PTL

(* A cancellation reaches its call, also when it overtakes it, unless      *)
(* MaxPendingCancellations others pushed its tombstone out.                *)
THEOREM CancellationNotLostHolds == Spec => []CancellationNotLost
<1>1. IInv => CancellationNotLost
  BY NotLost DEF IInv
<1> QED
  BY <1>1, Invariance, PTL
===============================================================================
