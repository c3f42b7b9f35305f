------------------- MODULE RepresentationScheduler_proofs -------------------
(***************************************************************************)
(* Proofs about RepresentationScheduler, for every set of keys and ranks,  *)
(* every maxConcurrent and every number of requests: first its types and   *)
(* accounts, then its promises (no slot is idle while a request waits, no  *)
(* orphan is joined, no priority is inverted), and that each of its steps  *)
(* is one of RepresentationContract or none.                               *)
(***************************************************************************)
EXTENDS RepresentationScheduler, FiniteSetTheorems, WellFoundedInduction, TLAPS

-----------------------------------------------------------------------------
(* The least-number principle, from the well-foundedness of inclusion      *)
(* among finite sets.                                                      *)
LEMMA LeastNatural ==
  ASSUME NEW T \in SUBSET Nat, T # {}
  PROVE  \E n \in T : \A m \in T : n <= m
<1> DEFINE U == {0 .. n : n \in T}
           R == StrictSubsetOrdering(Nat)
<1>1. \A n \in T : IsFiniteSet(0 .. n) /\ 0 .. n \in SUBSET Nat
  BY FS_Interval
<1>2. U \subseteq FiniteSubsetsOf(Nat) /\ U # {}
  BY <1>1 DEF FiniteSubsetsOf
<1>3. PICK A \in U : \A B \in U : <<B, A>> \notin R
  <2> HIDE DEF U, R
  <2>1. IsWellFoundedOn(R, FiniteSubsetsOf(Nat))
    BY FS_StrictSubsetOrderingWellFounded DEF R
  <2> QED
    BY <1>2, <2>1, WFMin
<1>4. PICK n \in T : A = 0 .. n
  OBVIOUS
<1>5. ASSUME NEW m \in T, m < n PROVE FALSE
  <2>1. 0 .. m \in U /\ 0 .. m \in SUBSET Nat /\ 0 .. n \in SUBSET Nat
    OBVIOUS
  <2>2. 0 .. m \subseteq 0 .. n /\ n \in 0 .. n /\ n \notin 0 .. m
    BY <1>5
  <2>3. 0 .. m # 0 .. n
    BY <2>2
  <2>4. <<0 .. m, 0 .. n>> \in R
    BY <2>1, <2>2, <2>3 DEF StrictSubsetOrdering
  <2> QED
    BY <1>3, <1>4, <2>1, <2>4
<1> QED
  BY <1>5

-----------------------------------------------------------------------------
(* The order of the heap.                                                  *)

(* A set of priorities that is not empty has a greatest.                   *)
LEMMA GreatestRank ==
  ASSUME NEW T, T \subseteq 1 .. 3, T # {}
  PROVE  \E x \in T : \A y \in T : y <= x
<1> CASE 3 \in T
  OBVIOUS
<1> CASE 3 \notin T /\ 2 \in T
  OBVIOUS
<1> CASE 3 \notin T /\ 2 \notin T
  <2>1. \A y \in T : y = 1
    OBVIOUS
  <2>2. PICK x \in T : TRUE
    OBVIOUS
  <2>3. \A y \in T : y <= x
    BY <2>1
  <2> QED
    BY <2>3
<1> QED
  OBVIOUS

(* What the entries of the heap are made of.                               *)
LEMMA EntryFields ==
  ASSUME NEW e \in QueueEntry
  PROVE  e.job \in Nat /\ e.job \in Job /\ e.rank \in Rank /\ e.rank \in 1 .. 3
         /\ e.revision \in Nat
<1>1. e.job \in Job /\ e.revision \in Nat /\ e.rank \in Rank
  BY DEF QueueEntry
<1>2. e.job \in Nat
  BY <1>1, MaxRequestsAssumption DEF Job, Request
<1>3. e.rank \in 1 .. 3
  BY <1>1, RankAssumption
<1> QED
  BY <1>1, <1>2, <1>3

(* Among entries of different jobs one comes before all others.            *)
LEMMA FirstEntry ==
  ASSUME NEW live, live \subseteq QueueEntry, live # {},
         \A e, f \in live : e.job = f.job => e = f
  PROVE  \E e \in live : \A f \in live : f # e => comesBefore(e, f)
<1> DEFINE ranks == {e.rank : e \in live}
<1>1. \A e \in live : e.job \in Nat /\ e.rank \in 1 .. 3
  BY EntryFields
<1>2. ranks \subseteq 1 .. 3 /\ ranks # {}
  BY <1>1
<1> HIDE DEF ranks
<1>3. PICK top \in ranks : \A y \in ranks : y <= top
  BY <1>2, GreatestRank
<1> DEFINE numbers == {e.job : e \in {f \in live : f.rank = top}}
<1>4. numbers \subseteq Nat /\ numbers # {}
  BY <1>1, <1>3 DEF ranks
<1> HIDE DEF numbers
<1>5. PICK n \in numbers : \A y \in numbers : n <= y
  BY <1>4, LeastNatural
<1>6. PICK e \in live : e.rank = top /\ e.job = n
  BY <1>5 DEF numbers
<1>7. ASSUME NEW f \in live, f # e
      PROVE  comesBefore(e, f)
  <2>1. f.rank <= e.rank
    BY <1>3, <1>6 DEF ranks
  <2>2. f.job # e.job
    BY <1>7
  <2>3. CASE f.rank = e.rank
    <3>1. f.job \in numbers
      BY <2>3, <1>6 DEF numbers
    <3>2. e.job <= f.job
      BY <3>1, <1>5, <1>6
    <3> QED
      BY <3>2, <2>2, <2>3, <1>1 DEF comesBefore
  <2>4. CASE f.rank # e.rank
    BY <2>1, <2>4, <1>1 DEF comesBefore
  <2> QED
    BY <2>3, <2>4
<1> QED
  BY <1>6, <1>7

-----------------------------------------------------------------------------
(* What pump starts and what it leaves in the heap.                        *)

(* Without a free slot it touches nothing.                                 *)
LEMMA NoSlot ==
  ASSUME NEW q, IsFiniteSet(q), NEW live \in SUBSET q
  PROVE  Started(live, 0) = {} /\ Unpopped(q, live, 0) = q
<1>1. \A e \in live : Cardinality({f \in live : comesBefore(f, e)}) \in Nat
  BY FS_Subset, FS_CardinalityType
<1>2. Cardinality(live) \in Nat
  BY FS_Subset, FS_CardinalityType
<1> QED
  BY <1>1, <1>2 DEF Started, Unpopped

(* Without a live entry it drains the heap, given a free slot.             *)
LEMMA NothingLive ==
  ASSUME NEW q, NEW n \in Nat, n > 0
  PROVE  Started({}, n) = {} /\ Unpopped(q, {}, n) = {}
BY FS_EmptySet DEF Started, Unpopped

(* A heap of one live entry is emptied and the entry starts.               *)
LEMMA OneLive ==
  ASSUME NEW e \in QueueEntry, NEW n \in Nat, n > 0
  PROVE  Started({e}, n) = {e} /\ Unpopped({e}, {e}, n) = {}
<1>1. ~comesBefore(e, e)
  BY EntryFields DEF comesBefore
<1>2. {f \in {e} : comesBefore(f, e)} = {}
  BY <1>1
<1>3. Started({e}, n) = {e}
  BY <1>2, FS_EmptySet DEF Started
<1> QED
  BY <1>3 DEF Unpopped

(* A number that is not zero is not below one.                             *)
LEMMA AtLeastOne ==
  ASSUME NEW n \in Nat, n # 0
  PROVE  ~(n < 1)
  OBVIOUS

(* With one free slot the first live entry starts, and what is popped with *)
(* it is not live.                                                         *)
LEMMA OneSlot ==
  ASSUME NEW q, IsFiniteSet(q), NEW live \in SUBSET q,
         live \subseteq QueueEntry, live # {},
         \A e, f \in live : e.job = f.job => e = f
  PROVE  \E e \in live : /\ Started(live, 1) = {e}
                         /\ Unpopped(q, live, 1) = {f \in q : f # e /\ ~comesBefore(f, e)}
                         /\ live \ {e} \subseteq Unpopped(q, live, 1)
                         /\ \A f \in live \ {e} : comesBefore(e, f)
<1>1. PICK e \in live : \A f \in live : f # e => comesBefore(e, f)
  BY FirstEntry
<1>2. \A f, g \in live : comesBefore(f, g) => ~comesBefore(g, f)
  BY EntryFields DEF comesBefore
<1>3. \A g \in live : /\ IsFiniteSet({f \in live : comesBefore(f, g)})
                      /\ Cardinality({f \in live : comesBefore(f, g)}) \in Nat
  BY FS_Subset, FS_CardinalityType
<1>4. {f \in live : comesBefore(f, e)} = {}
  BY <1>1, <1>2
<1>5. e \in Started(live, 1)
  BY <1>4, FS_EmptySet DEF Started
<1>6. ASSUME NEW g \in live, g # e
      PROVE  g \notin Started(live, 1)
  <2>1. {f \in live : comesBefore(f, g)} # {}
    BY <1>1, <1>6
  <2>2. Cardinality({f \in live : comesBefore(f, g)}) # 0
    BY <2>1, <1>3, FS_EmptySet
  <2>3. Cardinality({f \in live : comesBefore(f, g)}) \in Nat
    BY <1>3, <1>6
  <2>4. ~(Cardinality({f \in live : comesBefore(f, g)}) < 1)
    BY <2>2, <2>3, AtLeastOne, Zenon
  <2> QED
    BY <2>4 DEF Started
<1>7. Started(live, 1) = {e}
  BY <1>5, <1>6 DEF Started
<1>8. IsFiniteSet(live) /\ Cardinality(live) \in Nat
  BY FS_Subset, FS_CardinalityType
<1>9. ~(Cardinality(live) < 1)
  BY <1>8, FS_EmptySet
<1>10. Unpopped(q, live, 1) = {f \in q : f # e /\ ~comesBefore(f, e)}
  BY <1>7, <1>9 DEF Unpopped
<1> QED
  BY <1>1, <1>2, <1>7, <1>10

-----------------------------------------------------------------------------
(* The inductive invariant.  SlotAccounting is not inductive: that an      *)
(* answer can start at most one job needs the heap to be empty whenever a  *)
(* slot is free, which needs live entries to differ in their jobs.         *)
(* RegistrationsMatchLeases needs the group of a job to count its leases,  *)
(* which needs a subscriber to know the job that lists it.                 *)

(* A number not handed out yet stands for no request and no job.           *)
Fresh ==
  \A j \in Job : j >= nextRequest =>
    /\ state[j] = "absent"
    /\ status[j] = "idle"
    /\ subscribers[j] = {}

(* An entry is no newer than its job, and has its rank if it is current.   *)
EntryMatches(e) ==
  /\ e.job < nextRequest
  /\ e.revision <= revision[e.job]
  /\ e.revision = revision[e.job] => e.rank = priority[e.job]

Heap ==
  /\ IsFiniteSet(queue)
  /\ \A e \in queue : EntryMatches(e)

Slots ==
  /\ runningCount = Cardinality(Running)
  /\ runningCount <= MaxConcurrent
  /\ runningCount < MaxConcurrent => queue = {}

(* A subscriber is a pending request that joined the job listing it; jobs  *)
(* that requests or keys point to exist.                                   *)
Members ==
  /\ \A j \in Job : \A r \in subscribers[j] : status[r] = "pending" /\ jobOf[r] = j
  /\ \A r \in Request : status[r] # "idle" =>
       jobOf[r] \in Job /\ state[jobOf[r]] # "absent"
  /\ \A k \in Key : jobs[k] # NoJob => state[jobs[k]] # "absent"

(* A group counts the leases not given back; it has none before its job    *)
(* ends, and none once it has released the registration.                   *)
Groups ==
  \A j \in Job :
    /\ remaining[j] = Cardinality(Holders(j))
    /\ state[j] # "ended" => remaining[j] = 0 /\ ~backendReleased[j]
    /\ backendReleased[j] => remaining[j] = 0

SlotInv  == TypeOK /\ Fresh /\ Heap /\ Slots
LeaseInv == Members /\ Groups /\ RegistrationsMatchLeases
IInv     == SlotInv /\ LeaseInv

-----------------------------------------------------------------------------
(* What a handler's pump does to the heap and the slots, when at most one  *)
(* slot is free or at most one entry is in the heap: nothing, or it starts *)
(* the first live entry; and a slot stays free only with an empty heap.    *)
(* Live entries have the priority of their jobs.                           *)
Pumped(q, st, running) ==
  /\ queue' \subseteq q
  /\ \A e \in LiveEntries(q, st) : e.rank = priority'[e.job]
  /\ \/ /\ state' = st
        /\ runningCount' = running
        /\ LiveEntries(q, st) \subseteq queue'
     \/ \E e \in LiveEntries(q, st) :
          /\ state' = [st EXCEPT ![e.job] = "running"]
          /\ runningCount' = running + 1
          /\ LiveEntries(q, st) \ {e} \subseteq queue'
          /\ \A f \in LiveEntries(q, st) \ {e} : comesBefore(e, f)
  /\ runningCount' <= MaxConcurrent
  /\ runningCount' < MaxConcurrent => queue' = {}

LEMMA PumpEffect ==
  ASSUME NEW q, NEW st, NEW running \in Nat,
         pump(q, st, running),
         IsFiniteSet(q), q \subseteq QueueEntry,
         DOMAIN st = Job, st = [j \in Job |-> st[j]],
         \A e, f \in LiveEntries(q, st) : e.job = f.job => e = f,
         \A e \in LiveEntries(q, st) : e.rank = priority'[e.job],
         \/ running = MaxConcurrent
         \/ running + 1 = MaxConcurrent
         \/ running < MaxConcurrent /\ q = {}
         \/ running < MaxConcurrent /\ \E e \in QueueEntry : q = {e}
  PROVE  Pumped(q, st, running)
<1> DEFINE live == LiveEntries(q, st)
           free == MaxConcurrent - running
<1>1. live \in SUBSET q /\ live \subseteq QueueEntry
  BY DEF LiveEntries
<1>2. /\ queue' = Unpopped(q, live, free)
      /\ state' = [j \in Job |-> IF \E e \in Started(live, free) : e.job = j
                                   THEN "running" ELSE st[j]]
      /\ runningCount' = running + Cardinality(Started(live, free))
  BY DEF pump
<1>3. MaxConcurrent \in Nat /\ MaxConcurrent > 0
  BY MaxConcurrentAssumption
<1>4. \A e \in live : e.job \in Job
  BY <1>1, EntryFields
<1> HIDE DEF live
<1>5. ASSUME Started(live, free) = {}
      PROVE  state' = st /\ runningCount' = running
  <2>1. Cardinality(Started(live, free)) = 0
    BY <1>5, FS_EmptySet
  <2>2. state' = [j \in Job |-> st[j]]
    BY <1>2, <1>5
  <2> QED
    BY <1>2, <2>1, <2>2
<1>6. ASSUME NEW e \in live, Started(live, free) = {e}
      PROVE  state' = [st EXCEPT ![e.job] = "running"] /\ runningCount' = running + 1
  <2>1. Cardinality(Started(live, free)) = 1
    BY <1>6, FS_Singleton
  <2>2. \A j \in Job : (\E f \in Started(live, free) : f.job = j) <=> e.job = j
    BY <1>6
  <2>3. state' = [j \in Job |-> IF e.job = j THEN "running" ELSE st[j]]
    BY <1>2, <2>2
  <2> QED
    BY <1>2, <1>4, <2>1, <2>3
<1>7. CASE running = MaxConcurrent
  <2>1. Started(live, free) = {} /\ queue' = q
    BY <1>1, <1>2, <1>7, <1>3, NoSlot
  <2> QED
    BY <2>1, <1>1, <1>5, <1>7, <1>3 DEF Pumped, live
<1>8. CASE live = {} /\ running < MaxConcurrent
  <2>1. free \in Nat /\ free > 0
    BY <1>8, <1>3
  <2>2. Started(live, free) = {} /\ queue' = {}
    BY <2>1, <1>8, <1>2, NothingLive
  <2> QED
    BY <2>2, <1>5, <1>8, <1>3 DEF Pumped, live
<1>9. CASE live # {} /\ running + 1 = MaxConcurrent
  <2>1. free = 1
    BY <1>9, <1>3
  <2>2. \A e, f \in live : e.job = f.job => e = f
    BY DEF live
  <2>3. PICK e \in live : /\ Started(live, 1) = {e}
                          /\ Unpopped(q, live, 1) = {f \in q : f # e /\ ~comesBefore(f, e)}
                          /\ live \ {e} \subseteq Unpopped(q, live, 1)
                          /\ \A f \in live \ {e} : comesBefore(e, f)
    BY <1>1, <1>9, <2>2, OneSlot
  <2>4. state' = [st EXCEPT ![e.job] = "running"] /\ runningCount' = running + 1
    BY <1>6, <2>1, <2>3
  <2>5. queue' \subseteq q /\ live \ {e} \subseteq queue'
    BY <1>2, <2>1, <2>3
  <2>6. runningCount' <= MaxConcurrent /\ ~(runningCount' < MaxConcurrent) /\ e \in live
    BY <2>4, <1>9, <1>3
  <2> QED
    BY <2>3, <2>4, <2>5, <2>6 DEF Pumped, live
<1>10. CASE live # {} /\ running < MaxConcurrent /\ \E e \in QueueEntry : q = {e}
  <2>1. PICK e \in QueueEntry : q = {e}
    BY <1>10
  <2>2. live = {e}
    BY <1>1, <1>10, <2>1
  <2>3. free \in Nat /\ free > 0
    BY <1>10, <1>3
  <2>4. Started(live, free) = {e} /\ queue' = {}
    BY <2>1, <2>2, <2>3, <1>2, OneLive
  <2>5. state' = [st EXCEPT ![e.job] = "running"] /\ runningCount' = running + 1
    BY <2>2, <2>4, <1>6
  <2>6. runningCount' <= MaxConcurrent /\ live \ {e} \subseteq queue' /\ e \in live
    BY <2>2, <2>5, <1>10, <1>3
  <2>7. \A f \in live \ {e} : comesBefore(e, f)
    BY <2>2
  <2> QED
    BY <2>4, <2>5, <2>6, <2>7 DEF Pumped, live
<1>11. q = {} => live = {}
  BY <1>1
<1> QED
  BY <1>7, <1>8, <1>9, <1>10, <1>11, <1>3

-----------------------------------------------------------------------------
(* Every handler ends with pump.  If the heap it is given is sound and its *)
(* slots are counted right, so are those pump leaves.                      *)
States == {"absent", "queued", "running", "ended"}

LEMMA JobFinite == IsFiniteSet(Job) /\ Job \subseteq Nat
BY MaxRequestsAssumption, FS_Interval DEF Job, Request

LEMMA PumpKeepsSlots ==
  ASSUME NEW q, NEW st \in [Job -> States], NEW running \in Nat,
         pump(q, st, running),
         IsFiniteSet(q), q \subseteq QueueEntry,
         \A e \in q : /\ e.job < nextRequest'
                      /\ e.revision <= revision'[e.job]
                      /\ e.revision = revision'[e.job] => e.rank = priority'[e.job],
         running = Cardinality({j \in Job : st[j] = "running"}),
         \/ running = MaxConcurrent
         \/ running + 1 = MaxConcurrent
         \/ running < MaxConcurrent /\ q = {}
         \/ running < MaxConcurrent /\ \E e \in QueueEntry : q = {e}
  PROVE  /\ Pumped(q, st, running)
         /\ Heap'
         /\ Slots'
         /\ queue' \subseteq QueueEntry
         /\ state' \in [Job -> States]
         /\ runningCount' \in Nat
         /\ \A j \in Job : state'[j] # st[j] => st[j] = "queued" /\ state'[j] = "running"
<1>1. /\ \A e, f \in LiveEntries(q, st) : e.job = f.job => e = f
      /\ \A e \in LiveEntries(q, st) : e.rank = priority'[e.job]
  BY DEF LiveEntries, QueueEntry
<1>2. DOMAIN st = Job /\ st = [j \in Job |-> st[j]]
  OBVIOUS
<1>3. Pumped(q, st, running)
  BY <1>1, <1>2, PumpEffect
<1>4. IsFiniteSet(queue') /\ queue' \subseteq q
  BY <1>3, FS_Subset DEF Pumped
<1>5. Heap'
  BY <1>4 DEF Heap, EntryMatches
<1>6. CASE state' = st /\ runningCount' = running
  <2>1. runningCount' = Cardinality(Running')
    BY <1>6 DEF Running
  <2> QED
    BY <1>3, <1>4, <1>5, <1>6, <2>1 DEF Slots, Pumped
<1>7. ASSUME NEW e \in LiveEntries(q, st),
             state' = [st EXCEPT ![e.job] = "running"], runningCount' = running + 1
      PROVE  /\ Slots'
             /\ state' \in [Job -> States]
             /\ runningCount' \in Nat
             /\ \A j \in Job : state'[j] # st[j] => st[j] = "queued" /\ state'[j] = "running"
  <2>1. e.job \in Job /\ st[e.job] = "queued"
    BY EntryFields DEF LiveEntries
  <2> DEFINE before == {j \in Job : st[j] = "running"}
  <2>2. Running' = before \cup {e.job} /\ e.job \notin before
    BY <1>7, <2>1 DEF Running
  <2>3. IsFiniteSet(before)
    BY JobFinite, FS_Subset
  <2>4. Cardinality(Running') = Cardinality(before) + 1
    BY <2>2, <2>3, FS_AddElement
  <2>5. runningCount' = Cardinality(Running')
    BY <2>4, <1>7
  <2>6. state' \in [Job -> States]
    BY <1>7 DEF States
  <2> QED
    BY <2>1, <2>5, <2>6, <1>3, <1>7 DEF Slots, Pumped
<1> QED
  BY <1>3, <1>4, <1>5, <1>6, <1>7 DEF Pumped

-----------------------------------------------------------------------------
(* Leases.                                                                 *)

LEMMA HoldersFinite ==
  ASSUME NEW j
  PROVE  IsFiniteSet(Holders(j)) /\ Cardinality(Holders(j)) \in Nat
<1>1. Holders(j) \subseteq Request
  BY DEF Holders
<1> QED
  BY <1>1, JobFinite, FS_Subset, FS_CardinalityType DEF Job

(* The jobs of a key that some consumer leases.                            *)
Leased(k) == {j \in Job : jobKey[j] = k /\ Holders(j) # {}}

LEMMA LeasedFinite ==
  ASSUME NEW k
  PROVE  IsFiniteSet(Leased(k)) /\ Cardinality(Leased(k)) \in Nat
<1>1. Leased(k) \subseteq Job
  BY DEF Leased
<1> QED
  BY <1>1, JobFinite, FS_Subset, FS_CardinalityType

(* A job that has not ended is leased by nobody.                           *)
LEMMA UnendedUnleased ==
  ASSUME Groups, NEW j \in Job, state[j] # "ended"
  PROVE  Holders(j) = {}
<1>1. Cardinality(Holders(j)) = 0
  BY DEF Groups
<1> QED
  BY <1>1, HoldersFinite, FS_EmptySet

(* A handler that neither grants nor returns a lease keeps the accounts,   *)
(* if it revives no ended job and gives no leased job another key.         *)
LEMMA LeaseFrame ==
  ASSUME TypeOK, Groups, RegistrationsMatchLeases,
         UNCHANGED leaseVars,
         \A r \in Request : status'[r] = "leased" <=> status[r] = "leased",
         \A r \in Request : status[r] = "leased" => jobOf'[r] = jobOf[r],
         \A j \in Job : state[j] = "ended" => state'[j] = "ended",
         \A j \in Job : state[j] = "ended" => jobKey'[j] = jobKey[j]
  PROVE  Groups' /\ RegistrationsMatchLeases'
<1>1. \A j \in Job : Holders(j)' = Holders(j)
  BY DEF Holders
<1>2. Groups'
  <2> SUFFICES ASSUME NEW j \in Job
               PROVE  /\ remaining'[j] = Cardinality(Holders(j)')
                      /\ state'[j] # "ended" => remaining'[j] = 0 /\ ~backendReleased'[j]
                      /\ backendReleased'[j] => remaining'[j] = 0
    BY Zenon DEF Groups
  <2>1. /\ remaining[j] = Cardinality(Holders(j))
        /\ state[j] # "ended" => remaining[j] = 0 /\ ~backendReleased[j]
        /\ backendReleased[j] => remaining[j] = 0
    BY Zenon DEF Groups
  <2>2. remaining' = remaining /\ backendReleased' = backendReleased
    BY DEF leaseVars
  <2>3. state'[j] # "ended" => state[j] # "ended"
    OBVIOUS
  <2> QED
    BY <1>1, <2>1, <2>2, <2>3, Zenon
<1>3. ASSUME NEW k \in Key
      PROVE  Leased(k)' = Leased(k)
  <2>1. ASSUME NEW j \in Job
        PROVE  (jobKey'[j] = k /\ Holders(j)' # {}) <=> (jobKey[j] = k /\ Holders(j) # {})
    <3>1. CASE state[j] = "ended"
      BY <1>1, <3>1
    <3>2. CASE state[j] # "ended"
      BY <1>1, <3>2, UnendedUnleased
    <3> QED
      BY <3>1, <3>2
  <2> QED
    BY <2>1, Zenon DEF Leased
<1>4. RegistrationsMatchLeases'
  BY <1>3 DEF RegistrationsMatchLeases, Leased, leaseVars
<1> QED
  BY <1>2, <1>4

-----------------------------------------------------------------------------
(* The initial state.                                                      *)
LEMMA InitIInv == Init => IInv
<1> SUFFICES ASSUME Init PROVE IInv
  OBVIOUS
<1>1. AnyKey \in Key /\ AnyRank \in Rank
  BY KeyAssumption, RankAssumption DEF AnyKey, AnyRank
<1>2. TypeOK
  BY <1>1, MaxRequestsAssumption DEF Init, TypeOK, Job, Request, QueueEntry
<1>3. Fresh /\ Members
  BY DEF Init, Fresh, Members, Job
<1>4. Heap
  BY FS_EmptySet DEF Init, Heap
<1>5. Running = {}
  BY DEF Init, Running
<1>6. Slots
  BY <1>5, FS_EmptySet, MaxConcurrentAssumption DEF Init, Slots
<1>7. \A j \in Job : Holders(j) = {}
  BY DEF Init, Holders
<1>8. Groups
  BY <1>7, FS_EmptySet DEF Init, Groups
<1>9. \A k \in Key : Leased(k) = {}
  BY <1>7 DEF Leased
<1>10. \A k \in Key : refs[k] = Cardinality(Leased(k))
  BY <1>9, FS_EmptySet DEF Init
<1>11. RegistrationsMatchLeases
  BY <1>10 DEF RegistrationsMatchLeases, Leased
<1> QED
  BY <1>2, <1>3, <1>4, <1>6, <1>8, <1>11 DEF IInv, SlotInv, LeaseInv

(* The type of the state, of the fields pump and leases do not touch.      *)
LEMMA TypeFrame ==
  ASSUME nextRequest' \in 1 .. MaxRequests + 1,
         jobs' \in [Key -> Job \cup {NoJob}], jobKey' \in [Job -> Key],
         priority' \in [Job -> Rank], revision' \in [Job -> Nat],
         state' \in [Job -> States], subscribers' \in [Job -> SUBSET Request],
         aborted' \in [Job -> BOOLEAN], queue' \subseteq QueueEntry, runningCount' \in Nat,
         status' \in [Request -> {"idle", "pending", "cancelled", "failed",
                                  "leased", "released"}],
         wanted' \in [Request -> Rank], jobOf' \in [Request -> Job \cup {NoJob}],
         remaining' \in [Job -> Nat], backendReleased' \in [Job -> BOOLEAN],
         refs' \in [Key -> Nat]
  PROVE  TypeOK'
BY DEF TypeOK, States

-----------------------------------------------------------------------------
(* requestThumbnail, the first request for its key.                        *)
LEMMA CreateStep ==
  ASSUME IInv, NEW k \in Key, NEW p \in Rank,
         LET r == nextRequest
         IN  /\ r \in Request
             /\ nextRequest' = r + 1
             /\ wanted' = [wanted EXCEPT ![r] = p]
             /\ status' = [status EXCEPT ![r] = "pending"]
             /\ CreateJob(r, k, p)
             /\ UNCHANGED leaseVars
  PROVE  /\ IInv'
         /\ Pumped(queue \cup {[job |-> nextRequest, revision |-> 0, rank |-> p]},
                   [state EXCEPT ![nextRequest] = "queued"], runningCount)
<1> DEFINE r  == nextRequest
           e0 == [job |-> r, revision |-> 0, rank |-> p]
           q  == queue \cup {e0}
           st == [state EXCEPT ![r] = "queued"]
<1>1. /\ r \in Job /\ r \in Nat /\ nextRequest' = r + 1
      /\ state[r] = "absent" /\ status[r] = "idle" /\ subscribers[r] = {}
  BY MaxRequestsAssumption DEF IInv, SlotInv, Fresh, Job, Request
<1>2. e0 \in QueueEntry
  BY <1>1 DEF QueueEntry
<1>3. st \in [Job -> States] /\ runningCount \in Nat
  BY DEF IInv, SlotInv, TypeOK, States
<1>4. IsFiniteSet(q) /\ q \subseteq QueueEntry
  BY <1>2, FS_AddElement DEF IInv, SlotInv, Heap, TypeOK
<1>5. ASSUME NEW e \in q
      PROVE  /\ e.job < nextRequest'
             /\ e.revision <= revision'[e.job]
             /\ e.revision = revision'[e.job] => e.rank = priority'[e.job]
  <2>1. CASE e = e0
    BY <1>1, <2>1 DEF CreateJob, IInv, SlotInv, TypeOK
  <2>2. CASE e \in queue
    <3>1. e \in QueueEntry /\ EntryMatches(e)
      BY <2>2 DEF IInv, SlotInv, Heap, TypeOK
    <3>2. e.job \in Job /\ e.job \in Nat /\ e.job # r /\ e.job < nextRequest'
      BY <3>1, <1>1, EntryFields DEF EntryMatches
    <3>3. revision'[e.job] = revision[e.job] /\ priority'[e.job] = priority[e.job]
      BY <3>2 DEF CreateJob, IInv, SlotInv, TypeOK
    <3> QED
      BY <3>1, <3>2, <3>3 DEF EntryMatches
  <2> QED
    BY <2>1, <2>2
<1>6. runningCount = Cardinality({j \in Job : st[j] = "running"})
  <2>1. {j \in Job : st[j] = "running"} = Running
    BY <1>1 DEF Running, IInv, SlotInv, TypeOK
  <2> QED
    BY <2>1 DEF IInv, SlotInv, Slots
<1>7. \/ runningCount = MaxConcurrent
      \/ runningCount < MaxConcurrent /\ \E e \in QueueEntry : q = {e}
  BY <1>2, <1>3, MaxConcurrentAssumption DEF IInv, SlotInv, Slots
<1>8. pump(q, st, runningCount)
  BY DEF CreateJob
<1> HIDE DEF q, st
<1>9. /\ Pumped(q, st, runningCount) /\ Heap' /\ Slots'
      /\ queue' \subseteq QueueEntry /\ state' \in [Job -> States] /\ runningCount' \in Nat
      /\ \A j \in Job : state'[j] # st[j] => st[j] = "queued" /\ state'[j] = "running"
  BY <1>3, <1>4, <1>5, <1>6, <1>7, <1>8, PumpKeepsSlots
<1>10. /\ \A j \in Job : state[j] # "absent" => state'[j] # "absent"
       /\ \A j \in Job : j # r /\ state[j] = "absent" => state'[j] = "absent"
       /\ state'[r] # "absent"
       /\ \A j \in Job : state[j] = "ended" => j # r /\ state'[j] = "ended"
  BY <1>1, <1>9 DEF st, IInv, SlotInv, TypeOK
<1>11. TypeOK'
  <2>1. nextRequest' \in 1 .. MaxRequests + 1
    BY <1>1, MaxRequestsAssumption DEF Job, Request
  <2>2. /\ jobs' \in [Key -> Job \cup {NoJob}] /\ jobKey' \in [Job -> Key]
        /\ priority' \in [Job -> Rank] /\ revision' \in [Job -> Nat]
        /\ aborted' \in [Job -> BOOLEAN]
        /\ subscribers' \in [Job -> SUBSET Request]
    BY <1>1 DEF CreateJob, IInv, SlotInv, TypeOK, Job
  <2>3. /\ status' \in [Request -> {"idle", "pending", "cancelled", "failed",
                                     "leased", "released"}]
        /\ wanted' \in [Request -> Rank] /\ jobOf' \in [Request -> Job \cup {NoJob}]
    BY <1>1 DEF CreateJob, IInv, SlotInv, TypeOK, Job
  <2>4. /\ remaining' \in [Job -> Nat] /\ backendReleased' \in [Job -> BOOLEAN]
        /\ refs' \in [Key -> Nat]
    BY DEF leaseVars, IInv, SlotInv, TypeOK
  <2> QED
    BY <1>9, <2>1, <2>2, <2>3, <2>4, TypeFrame
<1>12. Fresh'
  BY <1>1, <1>10, MaxRequestsAssumption DEF Fresh, CreateJob, IInv, SlotInv, TypeOK, Job, Request
<1>13. Members'
  <2>1. ASSUME NEW j \in Job, NEW i \in subscribers'[j]
        PROVE  status'[i] = "pending" /\ jobOf'[i] = j
    <3>1. CASE j = r
      BY <1>1, <2>1, <3>1 DEF CreateJob, IInv, SlotInv, TypeOK, Job
    <3>2. CASE j # r
      <4>1. i \in subscribers[j] /\ i \in Request
        BY <1>1, <2>1, <3>2 DEF CreateJob, IInv, SlotInv, TypeOK, Job
      <4>2. status[i] = "pending" /\ jobOf[i] = j
        BY <4>1 DEF IInv, LeaseInv, Members
      <4> QED
        BY <1>1, <4>1, <4>2 DEF CreateJob, IInv, SlotInv, TypeOK, Job
    <3> QED
      BY <3>1, <3>2
  <2>2. ASSUME NEW i \in Request, status'[i] # "idle"
        PROVE  jobOf'[i] \in Job /\ state'[jobOf'[i]] # "absent"
    <3>1. CASE i = r
      BY <1>1, <1>10, <3>1 DEF CreateJob, IInv, SlotInv, TypeOK, Job
    <3>2. CASE i # r
      <4>1. status[i] # "idle" /\ jobOf'[i] = jobOf[i]
        BY <1>1, <2>2, <3>2 DEF CreateJob, IInv, SlotInv, TypeOK, Job
      <4> QED
        BY <1>10, <4>1 DEF IInv, LeaseInv, Members
    <3> QED
      BY <3>1, <3>2
  <2>3. ASSUME NEW h \in Key, jobs'[h] # NoJob
        PROVE  state'[jobs'[h]] # "absent"
    <3>1. CASE h = k
      BY <1>1, <1>10, <3>1 DEF CreateJob, IInv, SlotInv, TypeOK
    <3>2. CASE h # k
      BY <1>10, <2>3, <3>2 DEF CreateJob, IInv, SlotInv, TypeOK, LeaseInv, Members
    <3> QED
      BY <3>1, <3>2
  <2> QED
    BY <2>1, <2>2, <2>3 DEF Members
<1>14. Groups' /\ RegistrationsMatchLeases'
  <2>1. \A i \in Request : status'[i] = "leased" <=> status[i] = "leased"
    BY <1>1 DEF IInv, SlotInv, TypeOK
  <2>2. \A i \in Request : status[i] = "leased" => jobOf'[i] = jobOf[i]
    BY <1>1 DEF CreateJob, IInv, SlotInv, TypeOK
  <2>3. \A j \in Job : state[j] = "ended" => jobKey'[j] = jobKey[j]
    BY <1>10 DEF CreateJob, IInv, SlotInv, TypeOK
  <2> QED
    BY <1>10, <2>1, <2>2, <2>3, LeaseFrame DEF IInv, SlotInv, LeaseInv
<1> QED
  BY <1>9, <1>11, <1>12, <1>13, <1>14 DEF IInv, SlotInv, LeaseInv, q, st

-----------------------------------------------------------------------------
(* requestThumbnail, a later request for its key: the job gets one more    *)
(* subscriber and, if its priority rises, a new entry in the heap.         *)
LEMMA JoinStep ==
  ASSUME IInv, NEW k \in Key, NEW p \in Rank,
         LET r == nextRequest
         IN  /\ r \in Request
             /\ nextRequest' = r + 1
             /\ wanted' = [wanted EXCEPT ![r] = p]
             /\ status' = [status EXCEPT ![r] = "pending"]
             /\ JoinJob(r, k, p)
             /\ UNCHANGED leaseVars
  PROVE  /\ IInv'
         /\ LET j  == jobs[k]
                up == state[j] = "queued" /\ p > priority[j]
            IN  Pumped(IF up
                         THEN queue \cup {[job |-> j, revision |-> revision[j] + 1, rank |-> p]}
                         ELSE queue,
                       state, runningCount)
<1> DEFINE r  == nextRequest
           j  == jobs[k]
           up == state[j] = "queued" /\ p > priority[j]
           e0 == [job |-> j, revision |-> revision[j] + 1, rank |-> p]
           q  == IF up THEN queue \cup {e0} ELSE queue
<1>1. /\ r \in Job /\ r \in Nat /\ nextRequest' = r + 1
      /\ state[r] = "absent" /\ status[r] = "idle" /\ subscribers[r] = {}
  BY MaxRequestsAssumption DEF IInv, SlotInv, Fresh, Job, Request
<1>2. j \in Job /\ j # NoJob /\ state[j] # "absent" /\ j # r
  BY <1>1 DEF JoinJob, IInv, SlotInv, TypeOK, LeaseInv, Members
<1>3. j \in Nat /\ j < r /\ revision[j] \in Nat
  BY <1>1, <1>2, MaxRequestsAssumption DEF IInv, SlotInv, Fresh, TypeOK, Job, Request
<1>4. /\ priority' = IF up THEN [priority EXCEPT ![j] = p] ELSE priority
      /\ revision' = IF up THEN [revision EXCEPT ![j] = @ + 1] ELSE revision
      /\ subscribers' = [subscribers EXCEPT ![j] = @ \cup {r}]
      /\ jobOf' = [jobOf EXCEPT ![r] = j]
      /\ UNCHANGED <<jobs, jobKey, aborted>>
  BY DEF JoinJob
<1>5. pump(q, state, runningCount)
  <2>1. CASE up
    <3>1. revision'[j] = revision[j] + 1
      BY <1>2, <1>4, <2>1 DEF IInv, SlotInv, TypeOK
    <3> QED
      BY <2>1, <3>1 DEF JoinJob
  <2>2. CASE ~up
    BY <2>2 DEF JoinJob
  <2> QED
    BY <2>1, <2>2
<1>6. e0 \in QueueEntry
  BY <1>2, <1>3 DEF QueueEntry
<1>7. IsFiniteSet(q) /\ q \subseteq QueueEntry
  BY <1>6, FS_AddElement DEF IInv, SlotInv, Heap, TypeOK
<1>8. state \in [Job -> States] /\ runningCount \in Nat
  BY DEF IInv, SlotInv, TypeOK, States
<1> HIDE DEF up, j
<1>9. ASSUME NEW e \in q
      PROVE  /\ e.job < nextRequest'
             /\ e.revision <= revision'[e.job]
             /\ e.revision = revision'[e.job] => e.rank = priority'[e.job]
  <2>1. CASE up /\ e = e0
    BY <1>1, <1>2, <1>3, <1>4, <2>1 DEF IInv, SlotInv, TypeOK
  <2>2. CASE e \in queue
    <3>1. e \in QueueEntry /\ EntryMatches(e)
      BY <2>2 DEF IInv, SlotInv, Heap, TypeOK
    <3>2. e.job \in Job /\ e.job \in Nat /\ e.revision \in Nat /\ e.job < nextRequest'
      BY <3>1, <1>1, EntryFields DEF EntryMatches
    <3>3. CASE ~up \/ e.job # j
      <4>1. revision'[e.job] = revision[e.job] /\ priority'[e.job] = priority[e.job]
        BY <1>2, <1>4, <3>2, <3>3 DEF IInv, SlotInv, TypeOK
      <4> QED
        BY <3>1, <3>2, <4>1 DEF EntryMatches
    <3>4. CASE up /\ e.job = j
      <4>1. revision'[j] = revision[j] + 1
        BY <1>2, <1>4, <3>4 DEF IInv, SlotInv, TypeOK
      <4>2. e.revision <= revision[j]
        BY <3>1, <3>4 DEF EntryMatches
      <4> QED
        BY <1>3, <3>2, <3>4, <4>1, <4>2
    <3> QED
      BY <3>3, <3>4
  <2> QED
    BY <2>1, <2>2
<1>10. runningCount = Cardinality({i \in Job : state[i] = "running"})
  BY DEF Running, IInv, SlotInv, Slots
<1>11. \/ runningCount = MaxConcurrent
       \/ runningCount < MaxConcurrent /\ q = {}
       \/ runningCount < MaxConcurrent /\ \E e \in QueueEntry : q = {e}
  BY <1>6, <1>8, MaxConcurrentAssumption DEF IInv, SlotInv, Slots
<1> HIDE DEF q
<1>12. /\ Pumped(q, state, runningCount) /\ Heap' /\ Slots'
       /\ queue' \subseteq QueueEntry /\ state' \in [Job -> States] /\ runningCount' \in Nat
       /\ \A i \in Job : state'[i] # state[i] => state[i] = "queued" /\ state'[i] = "running"
  BY <1>5, <1>7, <1>8, <1>9, <1>10, <1>11, PumpKeepsSlots
<1>13. /\ \A i \in Job : state[i] # "absent" => state'[i] # "absent"
       /\ \A i \in Job : state[i] = "absent" => state'[i] = "absent"
       /\ \A i \in Job : state[i] = "ended" => state'[i] = "ended"
  BY <1>12
<1>14. TypeOK'
  <2>1. nextRequest' \in 1 .. MaxRequests + 1
    BY <1>1, MaxRequestsAssumption DEF Job, Request
  <2>2. /\ jobs' \in [Key -> Job \cup {NoJob}] /\ jobKey' \in [Job -> Key]
        /\ priority' \in [Job -> Rank] /\ revision' \in [Job -> Nat]
        /\ aborted' \in [Job -> BOOLEAN]
        /\ subscribers' \in [Job -> SUBSET Request]
    BY <1>1, <1>2, <1>3, <1>4 DEF IInv, SlotInv, TypeOK, Job
  <2>3. /\ status' \in [Request -> {"idle", "pending", "cancelled", "failed",
                                     "leased", "released"}]
        /\ wanted' \in [Request -> Rank] /\ jobOf' \in [Request -> Job \cup {NoJob}]
    BY <1>1, <1>2, <1>4 DEF IInv, SlotInv, TypeOK, Job
  <2>4. /\ remaining' \in [Job -> Nat] /\ backendReleased' \in [Job -> BOOLEAN]
        /\ refs' \in [Key -> Nat]
    BY DEF leaseVars, IInv, SlotInv, TypeOK
  <2> QED
    BY <1>12, <2>1, <2>2, <2>3, <2>4, TypeFrame
<1>15. Fresh'
  <2> SUFFICES ASSUME NEW i \in Job, i >= nextRequest'
               PROVE  state'[i] = "absent" /\ status'[i] = "idle" /\ subscribers'[i] = {}
    BY Zenon DEF Fresh
  <2>1. i \in Nat /\ i \in Request
    BY MaxRequestsAssumption DEF Job, Request
  <2>2. i >= nextRequest /\ i # r /\ i # j
    BY <1>1, <1>3, <2>1
  <2>3. state[i] = "absent" /\ status[i] = "idle" /\ subscribers[i] = {}
    BY <2>2 DEF IInv, SlotInv, Fresh
  <2> QED
    BY <1>4, <1>13, <2>1, <2>2, <2>3 DEF IInv, SlotInv, TypeOK
<1>16. Members'
  <2>1. ASSUME NEW h \in Job, NEW i \in subscribers'[h]
        PROVE  status'[i] = "pending" /\ jobOf'[i] = h
    <3>1. CASE i = r /\ h = j
      BY <1>1, <1>4, <3>1 DEF IInv, SlotInv, TypeOK, Job
    <3>2. CASE ~(i = r /\ h = j)
      <4>1. i \in subscribers[h] /\ i \in Request
        BY <1>2, <1>4, <2>1, <3>2 DEF IInv, SlotInv, TypeOK, Job
      <4>2. status[i] = "pending" /\ jobOf[i] = h
        BY <4>1 DEF IInv, LeaseInv, Members
      <4> QED
        BY <1>1, <1>4, <4>1, <4>2 DEF IInv, SlotInv, TypeOK, Job
    <3> QED
      BY <3>1, <3>2
  <2>2. ASSUME NEW i \in Request, status'[i] # "idle"
        PROVE  jobOf'[i] \in Job /\ state'[jobOf'[i]] # "absent"
    <3>1. CASE i = r
      BY <1>2, <1>4, <1>13, <3>1 DEF IInv, SlotInv, TypeOK, Job
    <3>2. CASE i # r
      <4>1. status[i] # "idle" /\ jobOf'[i] = jobOf[i]
        BY <1>1, <1>4, <2>2, <3>2 DEF IInv, SlotInv, TypeOK, Job
      <4> QED
        BY <1>13, <4>1 DEF IInv, LeaseInv, Members
    <3> QED
      BY <3>1, <3>2
  <2>3. ASSUME NEW h \in Key, jobs'[h] # NoJob
        PROVE  state'[jobs'[h]] # "absent"
    BY <1>4, <1>13, <2>3 DEF IInv, SlotInv, TypeOK, LeaseInv, Members
  <2> QED
    BY <2>1, <2>2, <2>3 DEF Members
<1>17. Groups' /\ RegistrationsMatchLeases'
  <2>1. \A i \in Request : status'[i] = "leased" <=> status[i] = "leased"
    BY <1>1 DEF IInv, SlotInv, TypeOK
  <2>2. \A i \in Request : status[i] = "leased" => jobOf'[i] = jobOf[i]
    BY <1>1, <1>4 DEF IInv, SlotInv, TypeOK
  <2>3. \A i \in Job : state[i] = "ended" => jobKey'[i] = jobKey[i]
    BY <1>4
  <2> QED
    BY <1>13, <2>1, <2>2, <2>3, LeaseFrame DEF IInv, SlotInv, LeaseInv
<1> QED
  BY <1>12, <1>14, <1>15, <1>16, <1>17 DEF IInv, SlotInv, LeaseInv, q, up, j

LEMMA RequestStep ==
  ASSUME IInv, NEW k \in Key, NEW p \in Rank, requestThumbnail(k, p)
  PROVE  IInv'
BY CreateStep, JoinStep DEF requestThumbnail

-----------------------------------------------------------------------------
(* cancelSubscriber: the consumer leaves its job; the last one outdates    *)
(* the entry of a queued job, or tells the running call to stop.           *)
LEMMA CancelStep ==
  ASSUME IInv, NEW r \in Request, cancelSubscriber(r)
  PROVE  IInv' /\ Pumped(queue, state, runningCount)
<1> DEFINE j    == jobOf[r]
           last == subscribers[j] = {r}
<1>1. /\ status[r] = "pending"
      /\ subscribers' = [subscribers EXCEPT ![j] = @ \ {r}]
      /\ status' = [status EXCEPT ![r] = "cancelled"]
      /\ revision' = [revision EXCEPT ![j] =
                        IF last /\ state[j] = "queued" THEN @ + 1 ELSE @]
      /\ aborted' = [aborted EXCEPT ![j] = @ \/ (last /\ state[j] # "queued")]
      /\ IF last THEN DropFromMap(j) ELSE UNCHANGED jobs
      /\ UNCHANGED <<jobKey, priority>>
      /\ UNCHANGED <<requestVars, leaseVars>>
      /\ pump(queue, state, runningCount)
  BY DEF cancelSubscriber
<1>2. j \in Job /\ r \in Nat /\ j \in Nat
  BY <1>1, MaxRequestsAssumption DEF IInv, LeaseInv, Members, Job, Request
<1>3. r < nextRequest
  BY <1>1, <1>2 DEF IInv, SlotInv, Fresh, TypeOK, Job
<1>4. nextRequest' = nextRequest /\ jobOf' = jobOf /\ wanted' = wanted
  BY <1>1 DEF requestVars
<1>5. IsFiniteSet(queue) /\ queue \subseteq QueueEntry
      /\ state \in [Job -> States] /\ runningCount \in Nat
  BY DEF IInv, SlotInv, Heap, TypeOK, States
<1> HIDE DEF last, j
<1>6. ASSUME NEW e \in queue
      PROVE  /\ e.job < nextRequest'
             /\ e.revision <= revision'[e.job]
             /\ e.revision = revision'[e.job] => e.rank = priority'[e.job]
  <2>1. e \in QueueEntry /\ EntryMatches(e)
    BY DEF IInv, SlotInv, Heap, TypeOK
  <2>2. e.job \in Job /\ e.revision \in Nat /\ revision[e.job] \in Nat
    BY <2>1, EntryFields DEF IInv, SlotInv, TypeOK
  <2>3. revision'[e.job] = revision[e.job] \/ revision'[e.job] = revision[e.job] + 1
    BY <1>1, <1>2, <2>2 DEF IInv, SlotInv, TypeOK
  <2>4. priority' = priority
    BY <1>1
  <2> QED
    BY <1>4, <2>1, <2>2, <2>3, <2>4 DEF EntryMatches
<1>7. runningCount = Cardinality({i \in Job : state[i] = "running"})
  BY DEF Running, IInv, SlotInv, Slots
<1>8. \/ runningCount = MaxConcurrent
      \/ runningCount < MaxConcurrent /\ queue = {}
  BY <1>5, MaxConcurrentAssumption DEF IInv, SlotInv, Slots
<1>9. /\ Pumped(queue, state, runningCount) /\ Heap' /\ Slots'
      /\ queue' \subseteq QueueEntry /\ state' \in [Job -> States] /\ runningCount' \in Nat
      /\ \A i \in Job : state'[i] # state[i] => state[i] = "queued" /\ state'[i] = "running"
  BY <1>1, <1>5, <1>6, <1>7, <1>8, PumpKeepsSlots
<1>10. /\ \A i \in Job : state[i] # "absent" => state'[i] # "absent"
       /\ \A i \in Job : state[i] = "absent" => state'[i] = "absent"
       /\ \A i \in Job : state[i] = "ended" => state'[i] = "ended"
  BY <1>9
<1>11. jobs' \in [Key -> Job \cup {NoJob}] /\ \A h \in Key : jobs'[h] \in {jobs[h], NoJob}
  BY <1>1, <1>2 DEF DropFromMap, IInv, SlotInv, TypeOK
<1>12. TypeOK'
  <2>1. aborted' \in [Job -> BOOLEAN]
    BY <1>1, <1>2 DEF IInv, SlotInv, TypeOK
  <2>2. revision' \in [Job -> Nat]
    BY <1>1, <1>2 DEF IInv, SlotInv, TypeOK
  <2>3. subscribers' \in [Job -> SUBSET Request]
    BY <1>1, <1>2 DEF IInv, SlotInv, TypeOK
  <2>4. status' \in [Request -> {"idle", "pending", "cancelled", "failed",
                                  "leased", "released"}]
    BY <1>1 DEF IInv, SlotInv, TypeOK
  <2>5. /\ jobKey' \in [Job -> Key] /\ priority' \in [Job -> Rank]
        /\ remaining' \in [Job -> Nat] /\ backendReleased' \in [Job -> BOOLEAN]
        /\ refs' \in [Key -> Nat]
    BY <1>1 DEF leaseVars, IInv, SlotInv, TypeOK
  <2>6. /\ nextRequest' \in 1 .. MaxRequests + 1 /\ wanted' \in [Request -> Rank]
        /\ jobOf' \in [Request -> Job \cup {NoJob}]
    BY <1>4 DEF IInv, SlotInv, TypeOK
  <2> QED
    BY <1>9, <1>11, <2>1, <2>2, <2>3, <2>4, <2>5, <2>6, TypeFrame
<1>13. Fresh'
  <2> SUFFICES ASSUME NEW i \in Job, i >= nextRequest'
               PROVE  state'[i] = "absent" /\ status'[i] = "idle" /\ subscribers'[i] = {}
    BY Zenon DEF Fresh
  <2>1. i \in Nat /\ i \in Request
    BY MaxRequestsAssumption DEF Job, Request
  <2>2. i >= nextRequest /\ i # r
    BY <1>2, <1>3, <1>4, <2>1 DEF IInv, SlotInv, TypeOK
  <2>3. state[i] = "absent" /\ status[i] = "idle" /\ subscribers[i] = {}
    BY <2>2 DEF IInv, SlotInv, Fresh
  <2> QED
    BY <1>1, <1>10, <2>1, <2>2, <2>3 DEF IInv, SlotInv, TypeOK
<1>14. Members'
  <2>1. ASSUME NEW h \in Job, NEW i \in subscribers'[h]
        PROVE  status'[i] = "pending" /\ jobOf'[i] = h
    <3>1. i \in subscribers[h] /\ i \in Request
      BY <1>1, <1>2, <2>1 DEF IInv, SlotInv, TypeOK
    <3>2. status[i] = "pending" /\ jobOf[i] = h
      BY <3>1 DEF IInv, LeaseInv, Members
    <3>3. i # r
      BY <1>1, <1>2, <2>1, <3>2 DEF j, IInv, SlotInv, TypeOK
    <3> QED
      BY <1>1, <1>4, <3>1, <3>2, <3>3 DEF IInv, SlotInv, TypeOK
  <2>2. ASSUME NEW i \in Request, status'[i] # "idle"
        PROVE  jobOf'[i] \in Job /\ state'[jobOf'[i]] # "absent"
    <3>1. status[i] # "idle"
      BY <1>1, <2>2 DEF IInv, SlotInv, TypeOK
    <3> QED
      BY <1>4, <1>10, <3>1 DEF IInv, LeaseInv, Members
  <2>3. ASSUME NEW h \in Key, jobs'[h] # NoJob
        PROVE  state'[jobs'[h]] # "absent"
    BY <1>10, <1>11, <2>3 DEF IInv, SlotInv, TypeOK, LeaseInv, Members
  <2> QED
    BY <2>1, <2>2, <2>3 DEF Members
<1>15. Groups' /\ RegistrationsMatchLeases'
  <2>1. \A i \in Request : status'[i] = "leased" <=> status[i] = "leased"
    BY <1>1 DEF IInv, SlotInv, TypeOK
  <2>2. \A i \in Request : status[i] = "leased" => jobOf'[i] = jobOf[i]
    BY <1>4
  <2>3. \A i \in Job : state[i] = "ended" => jobKey'[i] = jobKey[i]
    BY <1>1
  <2> QED
    BY <1>1, <1>10, <2>1, <2>2, <2>3, LeaseFrame DEF IInv, SlotInv, LeaseInv
<1> QED
  BY <1>9, <1>12, <1>13, <1>14, <1>15 DEF IInv, SlotInv, LeaseInv

-----------------------------------------------------------------------------
(* The end of a run gives its slot back, and pump may start one job.  It   *)
(* answers every subscriber: their status is settled, to v.                *)
LEMMA EndRunStep ==
  ASSUME IInv, NEW j \in Job, state[j] = "running", EndRun(j),
         UNCHANGED requestVars,
         NEW v \in {"leased", "failed"},
         status' = [r \in Request |-> IF r \in subscribers[j] THEN v ELSE status[r]],
         remaining' \in [Job -> Nat], backendReleased' \in [Job -> BOOLEAN],
         refs' \in [Key -> Nat]
  PROVE  /\ Pumped(queue, [state EXCEPT ![j] = "ended"], runningCount - 1)
         /\ TypeOK' /\ Fresh' /\ Heap' /\ Slots' /\ Members'
         /\ state'[j] = "ended"
         /\ \A i \in Job : i # j => (state[i] = "ended" <=> state'[i] = "ended")
<1> DEFINE st == [state EXCEPT ![j] = "ended"]
<1>1. /\ subscribers' = [subscribers EXCEPT ![j] = {}]
      /\ DropFromMap(j)
      /\ UNCHANGED <<jobKey, priority, revision, aborted>>
      /\ pump(queue, st, runningCount - 1)
  BY DEF EndRun
<1>2. nextRequest' = nextRequest /\ jobOf' = jobOf /\ wanted' = wanted
  BY DEF requestVars
<1>3. st \in [Job -> States] /\ IsFiniteSet(queue) /\ queue \subseteq QueueEntry
  BY DEF States, IInv, SlotInv, TypeOK, Heap
<1>4. runningCount \in Nat /\ runningCount = Cardinality(Running)
  BY DEF IInv, SlotInv, TypeOK, Slots
<1>5. /\ runningCount - 1 \in Nat
      /\ runningCount - 1 = Cardinality({i \in Job : st[i] = "running"})
  <2>1. {i \in Job : st[i] = "running"} = Running \ {j} /\ j \in Running
    BY DEF Running, IInv, SlotInv, TypeOK
  <2>2. IsFiniteSet(Running)
    BY JobFinite, FS_Subset DEF Running
  <2>3. Cardinality(Running \ {j}) = Cardinality(Running) - 1
    BY <2>1, <2>2, FS_RemoveElement
  <2>4. Cardinality(Running \ {j}) \in Nat
    BY <2>2, FS_Subset, FS_CardinalityType
  <2> QED
    BY <1>4, <2>1, <2>3, <2>4
<1>6. \/ runningCount - 1 + 1 = MaxConcurrent
      \/ runningCount - 1 < MaxConcurrent /\ queue = {}
  BY <1>4, MaxConcurrentAssumption DEF IInv, SlotInv, Slots
<1>7. ASSUME NEW e \in queue
      PROVE  /\ e.job < nextRequest'
             /\ e.revision <= revision'[e.job]
             /\ e.revision = revision'[e.job] => e.rank = priority'[e.job]
  <2>1. EntryMatches(e)
    BY DEF IInv, SlotInv, Heap
  <2> QED
    BY <1>1, <1>2, <2>1 DEF EntryMatches
<1> HIDE DEF st
<1>8. /\ Pumped(queue, st, runningCount - 1) /\ Heap' /\ Slots'
      /\ queue' \subseteq QueueEntry /\ state' \in [Job -> States] /\ runningCount' \in Nat
      /\ \A i \in Job : state'[i] # st[i] => st[i] = "queued" /\ state'[i] = "running"
  BY <1>1, <1>3, <1>5, <1>6, <1>7, PumpKeepsSlots
<1>9. /\ state'[j] = "ended"
      /\ \A i \in Job : i # j => (state[i] = "ended" <=> state'[i] = "ended")
      /\ \A i \in Job : state[i] = "absent" <=> state'[i] = "absent"
  <2>1. st[j] = "ended" /\ \A i \in Job : i # j => st[i] = state[i]
    BY DEF st, IInv, SlotInv, TypeOK
  <2> QED
    BY <1>8, <2>1
<1>10. jobs' \in [Key -> Job \cup {NoJob}] /\ \A h \in Key : jobs'[h] \in {jobs[h], NoJob}
  BY <1>1 DEF DropFromMap, IInv, SlotInv, TypeOK
<1>11. TypeOK'
  <2>1. subscribers' \in [Job -> SUBSET Request]
    BY <1>1 DEF IInv, SlotInv, TypeOK
  <2>2. status' \in [Request -> {"idle", "pending", "cancelled", "failed",
                                  "leased", "released"}]
    BY DEF IInv, SlotInv, TypeOK
  <2>3. /\ jobKey' \in [Job -> Key] /\ priority' \in [Job -> Rank]
        /\ revision' \in [Job -> Nat] /\ aborted' \in [Job -> BOOLEAN]
    BY <1>1 DEF IInv, SlotInv, TypeOK
  <2>4. /\ nextRequest' \in 1 .. MaxRequests + 1 /\ wanted' \in [Request -> Rank]
        /\ jobOf' \in [Request -> Job \cup {NoJob}]
    BY <1>2 DEF IInv, SlotInv, TypeOK
  <2> QED
    BY <1>8, <1>10, <2>1, <2>2, <2>3, <2>4, TypeFrame
<1>12. \A r \in subscribers[j] : r \in Request /\ status[r] = "pending" /\ jobOf[r] = j
  BY DEF IInv, SlotInv, TypeOK, LeaseInv, Members
<1>13. Fresh'
  <2> SUFFICES ASSUME NEW i \in Job, i >= nextRequest'
               PROVE  state'[i] = "absent" /\ status'[i] = "idle" /\ subscribers'[i] = {}
    BY Zenon DEF Fresh
  <2>1. state[i] = "absent" /\ status[i] = "idle" /\ subscribers[i] = {} /\ i # j
    BY <1>2 DEF IInv, SlotInv, Fresh
  <2>2. i \notin subscribers[j]
    BY <1>12, <2>1
  <2> QED
    BY <1>1, <1>9, <2>1, <2>2 DEF IInv, SlotInv, TypeOK, Job
<1>14. Members'
  <2>1. ASSUME NEW h \in Job, NEW i \in subscribers'[h]
        PROVE  status'[i] = "pending" /\ jobOf'[i] = h
    <3>1. h # j /\ i \in subscribers[h] /\ i \in Request
      BY <1>1, <2>1 DEF IInv, SlotInv, TypeOK
    <3>2. status[i] = "pending" /\ jobOf[i] = h
      BY <3>1 DEF IInv, LeaseInv, Members
    <3> QED
      BY <1>2, <1>12, <3>1, <3>2
  <2>2. ASSUME NEW i \in Request, status'[i] # "idle"
        PROVE  jobOf'[i] \in Job /\ state'[jobOf'[i]] # "absent"
    <3>1. status[i] # "idle"
      BY <1>12, <2>2
    <3> QED
      BY <1>2, <1>9, <3>1 DEF IInv, LeaseInv, Members
  <2>3. ASSUME NEW h \in Key, jobs'[h] # NoJob
        PROVE  state'[jobs'[h]] # "absent"
    BY <1>9, <1>10, <2>3 DEF IInv, SlotInv, TypeOK, LeaseInv, Members
  <2> QED
    BY <2>1, <2>2, <2>3 DEF Members
<1> QED
  BY <1>8, <1>9, <1>11, <1>13, <1>14 DEF st

(* PortRejects: no lease is granted.                                       *)
LEMMA RejectStep ==
  ASSUME IInv, NEW j \in Job, PortRejects(j)
  PROVE  IInv' /\ Pumped(queue, [state EXCEPT ![j] = "ended"], runningCount - 1)
<1>1. /\ state[j] = "running" /\ EndRun(j)
      /\ status' = [r \in Request |-> IF r \in subscribers[j] THEN "failed" ELSE status[r]]
      /\ UNCHANGED requestVars /\ UNCHANGED leaseVars
  BY DEF PortRejects
<1>2. /\ remaining' \in [Job -> Nat] /\ backendReleased' \in [Job -> BOOLEAN]
      /\ refs' \in [Key -> Nat]
  BY <1>1 DEF leaseVars, IInv, SlotInv, TypeOK
<1>3. /\ Pumped(queue, [state EXCEPT ![j] = "ended"], runningCount - 1)
      /\ TypeOK' /\ Fresh' /\ Heap' /\ Slots' /\ Members'
      /\ state'[j] = "ended"
      /\ \A i \in Job : i # j => (state[i] = "ended" <=> state'[i] = "ended")
  BY <1>1, <1>2, EndRunStep
<1>4. \A r \in subscribers[j] : status[r] = "pending"
  BY DEF IInv, LeaseInv, Members
<1>5. \A r \in Request : status'[r] = "leased" <=> status[r] = "leased"
  BY <1>1, <1>4
<1>6. jobOf' = jobOf /\ jobKey' = jobKey
  BY <1>1 DEF requestVars, EndRun
<1>7. Groups' /\ RegistrationsMatchLeases'
  BY <1>1, <1>3, <1>5, <1>6, LeaseFrame DEF IInv, SlotInv, LeaseInv
<1> QED
  BY <1>3, <1>7 DEF IInv, SlotInv, LeaseInv

(* PortResolves: the subscribers become the holders of the job's group,    *)
(* which owns one registration unless there are none.                      *)
LEMMA ResolveStep ==
  ASSUME IInv, NEW j \in Job, PortResolves(j)
  PROVE  IInv' /\ Pumped(queue, [state EXCEPT ![j] = "ended"], runningCount - 1)
<1> DEFINE waiting == subscribers[j]
<1>1. /\ state[j] = "running" /\ EndRun(j)
      /\ status' = [r \in Request |-> IF r \in waiting THEN "leased" ELSE status[r]]
      /\ remaining' = [remaining EXCEPT ![j] = Cardinality(waiting)]
      /\ refs' = IF waiting = {} THEN refs ELSE [refs EXCEPT ![jobKey[j]] = @ + 1]
      /\ UNCHANGED requestVars /\ backendReleased' = backendReleased
  BY DEF PortResolves
<1>2. \A r \in waiting : r \in Request /\ status[r] = "pending" /\ jobOf[r] = j
  BY DEF IInv, SlotInv, TypeOK, LeaseInv, Members
<1>3. IsFiniteSet(waiting) /\ Cardinality(waiting) \in Nat
  BY <1>2, JobFinite, FS_Subset, FS_CardinalityType DEF Job, IInv, SlotInv, TypeOK
<1>4. jobKey[j] \in Key /\ refs \in [Key -> Nat]
  BY DEF IInv, SlotInv, TypeOK
<1>5. /\ remaining' \in [Job -> Nat] /\ backendReleased' \in [Job -> BOOLEAN]
      /\ refs' \in [Key -> Nat]
  BY <1>1, <1>3, <1>4 DEF IInv, SlotInv, TypeOK
<1>6. /\ Pumped(queue, [state EXCEPT ![j] = "ended"], runningCount - 1)
      /\ TypeOK' /\ Fresh' /\ Heap' /\ Slots' /\ Members'
      /\ state'[j] = "ended"
      /\ \A i \in Job : i # j => (state[i] = "ended" <=> state'[i] = "ended")
  BY <1>1, <1>5, EndRunStep
<1>7. jobOf' = jobOf /\ jobKey' = jobKey
  BY <1>1 DEF requestVars, EndRun
<1>8. Holders(j) = {}
  BY <1>1, UnendedUnleased DEF IInv, LeaseInv
<1>9. Holders(j)' = waiting
  <2>1. \A r \in Request : (status'[r] = "leased" /\ jobOf'[r] = j) <=> r \in waiting
    BY <1>1, <1>2, <1>7, <1>8 DEF Holders
  <2> QED
    BY <1>2, <2>1 DEF Holders
<1>10. ASSUME NEW i \in Job, i # j
       PROVE  Holders(i)' = Holders(i)
  BY <1>1, <1>2, <1>7, <1>10 DEF Holders
<1> HIDE DEF waiting
<1>11. Groups'
  <2> SUFFICES ASSUME NEW i \in Job
               PROVE  /\ remaining'[i] = Cardinality(Holders(i)')
                      /\ state'[i] # "ended" => remaining'[i] = 0 /\ ~backendReleased'[i]
                      /\ backendReleased'[i] => remaining'[i] = 0
    BY Zenon DEF Groups
  <2>1. /\ remaining[i] = Cardinality(Holders(i))
        /\ state[i] # "ended" => remaining[i] = 0 /\ ~backendReleased[i]
        /\ backendReleased[i] => remaining[i] = 0
    BY Zenon DEF IInv, LeaseInv, Groups
  <2>2. CASE i = j
    <3>1. remaining'[i] = Cardinality(waiting)
      BY <1>1, <2>2 DEF IInv, SlotInv, TypeOK
    <3>2. state[i] # "ended" /\ state'[i] = "ended"
      BY <1>1, <1>6, <2>2
    <3> QED
      BY <1>1, <1>9, <2>1, <2>2, <3>1, <3>2, Zenon
  <2>3. CASE i # j
    <3>1. remaining'[i] = remaining[i]
      BY <1>1, <2>3 DEF IInv, SlotInv, TypeOK
    <3>2. state[i] = "ended" <=> state'[i] = "ended"
      BY <1>6, <2>3
    <3> QED
      BY <1>1, <1>10, <2>1, <2>3, <3>1, <3>2, Zenon
  <2> QED
    BY <2>2, <2>3
<1>12. RegistrationsMatchLeases'
  <2> SUFFICES ASSUME NEW k \in Key
               PROVE  refs'[k] = Cardinality(Leased(k)')
    BY DEF RegistrationsMatchLeases, Leased
  <2>1. refs[k] = Cardinality(Leased(k))
    BY DEF IInv, LeaseInv, RegistrationsMatchLeases, Leased
  <2>2. j \notin Leased(k)
    BY <1>8 DEF Leased
  <2>3. CASE waiting = {} \/ jobKey[j] # k
    <3>1. Leased(k)' = Leased(k)
      BY <1>7, <1>8, <1>9, <1>10, <2>3 DEF Leased
    <3>2. refs'[k] = refs[k]
      BY <1>1, <1>4, <2>3
    <3> QED
      BY <2>1, <3>1, <3>2
  <2>4. CASE waiting # {} /\ jobKey[j] = k
    <3>1. Leased(k)' = Leased(k) \cup {j}
      BY <1>7, <1>9, <1>10, <2>4 DEF Leased
    <3>2. Cardinality(Leased(k) \cup {j}) = Cardinality(Leased(k)) + 1
      BY <2>2, LeasedFinite, FS_AddElement
    <3>3. refs'[k] = refs[k] + 1
      BY <1>1, <1>4, <2>4
    <3> QED
      BY <2>1, <3>1, <3>2, <3>3
  <2> QED
    BY <2>3, <2>4
<1> QED
  BY <1>6, <1>11, <1>12 DEF IInv, SlotInv, LeaseInv

-----------------------------------------------------------------------------
(* A handler of leases touches neither jobs nor heap nor slots.            *)
LEMMA LeaseHandlerFrame ==
  ASSUME IInv, UNCHANGED <<requestVars, jobVars, poolVars>>,
         NEW r \in Request, status[r] \in {"leased", "released"},
         status' = [status EXCEPT ![r] = "released"],
         remaining' \in [Job -> Nat], backendReleased' \in [Job -> BOOLEAN],
         refs' \in [Key -> Nat]
  PROVE  SlotInv' /\ Members'
<1>1. /\ nextRequest' = nextRequest /\ wanted' = wanted /\ jobOf' = jobOf
      /\ jobs' = jobs /\ jobKey' = jobKey /\ priority' = priority
      /\ revision' = revision /\ state' = state /\ subscribers' = subscribers
      /\ aborted' = aborted /\ queue' = queue /\ runningCount' = runningCount
  BY DEF requestVars, jobVars, poolVars
<1>2. TypeOK'
  BY <1>1 DEF IInv, SlotInv, TypeOK
<1>3. Fresh'
  <2> SUFFICES ASSUME NEW i \in Job, i >= nextRequest'
               PROVE  state'[i] = "absent" /\ status'[i] = "idle" /\ subscribers'[i] = {}
    BY Zenon DEF Fresh
  <2>1. state[i] = "absent" /\ status[i] = "idle" /\ subscribers[i] = {}
    BY <1>1 DEF IInv, SlotInv, Fresh
  <2> QED
    BY <1>1, <2>1 DEF IInv, SlotInv, TypeOK
<1>4. Heap'
  BY <1>1 DEF IInv, SlotInv, Heap, EntryMatches
<1>5. Slots'
  BY <1>1 DEF IInv, SlotInv, Slots, Running
<1>6. Members'
  <2>1. ASSUME NEW h \in Job, NEW i \in subscribers'[h]
        PROVE  status'[i] = "pending" /\ jobOf'[i] = h
    <3>1. i \in Request /\ status[i] = "pending" /\ jobOf[i] = h
      BY <1>1, <2>1 DEF IInv, SlotInv, TypeOK, LeaseInv, Members
    <3> QED
      BY <1>1, <3>1 DEF IInv, SlotInv, TypeOK
  <2>2. ASSUME NEW i \in Request, status'[i] # "idle"
        PROVE  jobOf'[i] \in Job /\ state'[jobOf'[i]] # "absent"
    <3>1. status[i] # "idle"
      BY <2>2 DEF IInv, SlotInv, TypeOK
    <3> QED
      BY <1>1, <3>1 DEF IInv, LeaseInv, Members
  <2>3. \A h \in Key : jobs'[h] # NoJob => state'[jobs'[h]] # "absent"
    BY <1>1 DEF IInv, LeaseInv, Members
  <2> QED
    BY <2>1, <2>2, <2>3 DEF Members
<1> QED
  BY <1>2, <1>3, <1>4, <1>5, <1>6 DEF SlotInv

(* release, the first for its lease: the group loses one holder, and the   *)
(* last one takes the registration with it.                                *)
LEMMA FirstReleaseStep ==
  ASSUME IInv, NEW r \in Request, release(r), status[r] = "leased"
  PROVE  IInv'
<1> DEFINE j    == jobOf[r]
           last == remaining[j] = 1
<1>1. /\ status' = [status EXCEPT ![r] = "released"]
      /\ releaseOne(j)
      /\ UNCHANGED <<requestVars, jobVars, poolVars>>
  BY DEF release
<1>2. jobOf' = jobOf /\ state' = state /\ jobKey' = jobKey
  BY <1>1 DEF requestVars, jobVars
<1>3. j \in Job /\ jobKey[j] \in Key
  BY DEF IInv, SlotInv, TypeOK, LeaseInv, Members
<1>4. r \in Holders(j)
  BY DEF Holders
<1>5. /\ remaining[j] = Cardinality(Holders(j))
      /\ state[j] # "ended" => remaining[j] = 0 /\ ~backendReleased[j]
      /\ backendReleased[j] => remaining[j] = 0
  BY <1>3, Zenon DEF IInv, LeaseInv, Groups
<1>6. remaining[j] \in Nat /\ remaining[j] > 0
  BY <1>4, <1>5, HoldersFinite, FS_EmptySet
<1>7. ~backendReleased[j] /\ state[j] = "ended"
  BY <1>5, <1>6
<1>8. /\ remaining' = [remaining EXCEPT ![j] = @ - 1]
      /\ backendReleased' = [backendReleased EXCEPT ![j] = @ \/ last]
      /\ refs' = IF last THEN [refs EXCEPT ![jobKey[j]] = @ - 1] ELSE refs
  BY <1>1, <1>6, <1>7 DEF releaseOne
<1> HIDE DEF last
<1>9. Holders(j)' = Holders(j) \ {r}
  BY <1>1, <1>2 DEF Holders, IInv, SlotInv, TypeOK
<1>10. ASSUME NEW i \in Job, i # j
       PROVE  Holders(i)' = Holders(i)
  BY <1>1, <1>2, <1>10 DEF Holders, IInv, SlotInv, TypeOK
<1>11. Cardinality(Holders(j)') = remaining[j] - 1
  BY <1>4, <1>5, <1>9, HoldersFinite, FS_RemoveElement
<1>12. last <=> Holders(j)' = {}
  <2>1. IsFiniteSet(Holders(j)')
    BY <1>9, HoldersFinite, FS_Subset
  <2>2. Holders(j)' = {} <=> Cardinality(Holders(j)') = 0
    BY <2>1, FS_EmptySet
  <2> QED
    BY <1>6, <1>11, <2>2 DEF last
<1>13. \A k \in Key : refs[k] = Cardinality(Leased(k))
  BY DEF IInv, LeaseInv, RegistrationsMatchLeases, Leased
<1>14. j \in Leased(jobKey[j])
  BY <1>3, <1>4 DEF Leased
<1>15. refs[jobKey[j]] - 1 \in Nat
  BY <1>3, <1>13, <1>14, LeasedFinite, FS_EmptySet
<1>16. /\ remaining' \in [Job -> Nat] /\ refs' \in [Key -> Nat]
  BY <1>3, <1>6, <1>8, <1>15 DEF IInv, SlotInv, TypeOK
<1>17. backendReleased' \in [Job -> BOOLEAN]
  BY <1>8 DEF IInv, SlotInv, TypeOK, last
<1>18. SlotInv' /\ Members'
  BY <1>1, <1>16, <1>17, LeaseHandlerFrame
<1>19. Groups'
  <2> SUFFICES ASSUME NEW i \in Job
               PROVE  /\ remaining'[i] = Cardinality(Holders(i)')
                      /\ state'[i] # "ended" => remaining'[i] = 0 /\ ~backendReleased'[i]
                      /\ backendReleased'[i] => remaining'[i] = 0
    BY Zenon DEF Groups
  <2>1. CASE i = j
    <3>1. remaining'[i] = remaining[j] - 1
      BY <1>3, <1>8, <2>1 DEF IInv, SlotInv, TypeOK
    <3>2. backendReleased'[i] => last
      BY <1>3, <1>7, <1>8, <2>1 DEF IInv, SlotInv, TypeOK
    <3>3. backendReleased'[i] => remaining'[i] = 0
      BY <3>1, <3>2 DEF last
    <3>4. state'[i] = "ended"
      BY <1>2, <1>7, <2>1
    <3>5. remaining'[i] = Cardinality(Holders(i)')
      BY <1>2, <1>11, <2>1, <3>1
    <3> QED
      BY <3>3, <3>4, <3>5, Zenon
  <2>2. CASE i # j
    <3>1. remaining'[i] = remaining[i] /\ (backendReleased'[i] <=> backendReleased[i])
      BY <1>3, <1>8, <2>2 DEF IInv, SlotInv, TypeOK
    <3>2. /\ remaining[i] = Cardinality(Holders(i))
          /\ state[i] # "ended" => remaining[i] = 0 /\ ~backendReleased[i]
          /\ backendReleased[i] => remaining[i] = 0
      BY Zenon DEF IInv, LeaseInv, Groups
    <3> QED
      BY <1>2, <1>10, <2>2, <3>1, <3>2, Zenon
  <2> QED
    BY <2>1, <2>2
<1>20. RegistrationsMatchLeases'
  <2> SUFFICES ASSUME NEW k \in Key
               PROVE  refs'[k] = Cardinality(Leased(k)')
    BY DEF RegistrationsMatchLeases, Leased
  <2>1. CASE last /\ k = jobKey[j]
    <3>1. Leased(k)' = Leased(k) \ {j}
      BY <1>2, <1>10, <1>12, <2>1 DEF Leased
    <3>2. Cardinality(Leased(k) \ {j}) = Cardinality(Leased(k)) - 1
      BY <1>14, <2>1, LeasedFinite, FS_RemoveElement
    <3>3. refs'[k] = refs[k] - 1
      BY <1>3, <1>8, <2>1 DEF IInv, SlotInv, TypeOK
    <3> QED
      BY <1>13, <3>1, <3>2, <3>3
  <2>2. CASE ~(last /\ k = jobKey[j])
    <3>1. Leased(k)' = Leased(k)
      BY <1>2, <1>4, <1>10, <1>12, <2>2 DEF Leased
    <3>2. refs'[k] = refs[k]
      BY <1>3, <1>8, <2>2 DEF IInv, SlotInv, TypeOK
    <3> QED
      BY <1>13, <3>1, <3>2
  <2> QED
    BY <2>1, <2>2
<1> QED
  BY <1>18, <1>19, <1>20 DEF IInv, LeaseInv

(* release, and release again: a lease given back counts for nothing.      *)
LEMMA ReleaseStep ==
  ASSUME IInv, NEW r \in Request, release(r)
  PROVE  IInv'
<1>1. CASE status[r] = "leased"
  BY <1>1, FirstReleaseStep
<1>2. CASE status[r] = "released"
  <2>1. /\ status' = [status EXCEPT ![r] = "released"]
        /\ UNCHANGED leaseVars
        /\ UNCHANGED <<requestVars, jobVars, poolVars>>
    BY <1>2 DEF release
  <2>2. /\ remaining' \in [Job -> Nat] /\ backendReleased' \in [Job -> BOOLEAN]
        /\ refs' \in [Key -> Nat]
    BY <2>1 DEF leaseVars, IInv, SlotInv, TypeOK
  <2>3. SlotInv' /\ Members'
    BY <1>2, <2>1, <2>2, LeaseHandlerFrame
  <2>4. /\ \A i \in Request : status'[i] = "leased" <=> status[i] = "leased"
        /\ jobOf' = jobOf /\ state' = state /\ jobKey' = jobKey
    BY <1>2, <2>1 DEF requestVars, jobVars, IInv, SlotInv, TypeOK
  <2>5. Groups' /\ RegistrationsMatchLeases'
    BY <2>1, <2>4, LeaseFrame DEF IInv, SlotInv, LeaseInv
  <2> QED
    BY <2>3, <2>5 DEF IInv, LeaseInv
<1> QED
  BY <1>1, <1>2 DEF release

-----------------------------------------------------------------------------
(* What holds in every behaviour.                                          *)

LEMMA StepKeepsIInv == IInv /\ [Next]_vars => IInv'
<1> SUFFICES ASSUME IInv, [Next]_vars PROVE IInv'
  OBVIOUS
<1>1. ASSUME NEW k \in Key, NEW p \in Rank, requestThumbnail(k, p)
      PROVE  IInv'
  BY <1>1, RequestStep
<1>2. ASSUME NEW r \in Request, cancelSubscriber(r)
      PROVE  IInv'
  BY <1>2, CancelStep
<1>3. ASSUME NEW j \in Job, PortResolves(j)
      PROVE  IInv'
  BY <1>3, ResolveStep
<1>4. ASSUME NEW j \in Job, PortRejects(j)
      PROVE  IInv'
  BY <1>4, RejectStep
<1>5. ASSUME NEW r \in Request, release(r)
      PROVE  IInv'
  BY <1>5, ReleaseStep
<1>6. CASE UNCHANGED vars
  <2>1. /\ nextRequest' = nextRequest /\ wanted' = wanted /\ jobOf' = jobOf
        /\ jobs' = jobs /\ jobKey' = jobKey /\ priority' = priority
        /\ revision' = revision /\ state' = state /\ subscribers' = subscribers
        /\ aborted' = aborted /\ queue' = queue /\ runningCount' = runningCount
        /\ status' = status
    BY <1>6 DEF vars, requestVars, jobVars, poolVars
  <2>2. UNCHANGED leaseVars
    BY <1>6 DEF vars
  <2>3. TypeOK'
    BY <2>1, <2>2 DEF leaseVars, IInv, SlotInv, TypeOK
  <2>4. Fresh' /\ Members'
    BY <2>1 DEF IInv, SlotInv, LeaseInv, Fresh, Members
  <2>5. Heap' /\ Slots'
    BY <2>1 DEF IInv, SlotInv, Heap, EntryMatches, Slots, Running
  <2>6. Groups' /\ RegistrationsMatchLeases'
    BY <2>1, <2>2, LeaseFrame DEF IInv, SlotInv, LeaseInv
  <2> QED
    BY <2>3, <2>4, <2>5, <2>6 DEF IInv, SlotInv, LeaseInv
<1> QED
  BY <1>1, <1>2, <1>3, <1>4, <1>5, <1>6 DEF Next

(* The strengthened invariant holds throughout.                            *)
THEOREM Invariance == Safe => []IInv
<1>1. Init => IInv
  BY InitIInv
<1>2. IInv /\ [Next]_vars => IInv'
  BY StepKeepsIInv
<1> QED
  BY <1>1, <1>2, PTL DEF Safe

(* Every handler of the scheduler leaves a well-formed state; in particular*)
(* neither a group's count nor a registration count falls below zero.      *)
THEOREM TypeCorrect == Safe => []TypeOK
<1>1. IInv => TypeOK
  BY DEF IInv, SlotInv
<1> QED
  BY <1>1, Invariance, PTL

(* runningCount is the number of backend calls in flight and never exceeds *)
(* maxConcurrent, for every number of requests, keys and priorities.       *)
THEOREM SlotAccountingHolds == Safe => []SlotAccounting
<1>1. IInv => SlotAccounting
  BY DEF IInv, SlotInv, Slots, SlotAccounting
<1> QED
  BY <1>1, Invariance, PTL

(* The backend holds one registration per leased job of a key: consumers'  *)
(* leases, answers to orphaned calls and repeated releases add up.         *)
THEOREM RegistrationsHold == Safe => []RegistrationsMatchLeases
<1>1. IInv => RegistrationsMatchLeases
  BY DEF IInv, LeaseInv
<1> QED
  BY <1>1, Invariance, PTL

-----------------------------------------------------------------------------
(* The promises.  NoIdleSlot rests on no live entry being lost (Entered), *)
(* OrphanNeverRejoined on the map and the subscribers telling the same     *)
(* story (Mapped), NoPriorityInversion on jobs having the priority of each *)
(* of their requests (Asked).                                              *)

Alive == {"queued", "running"}   \* the states of a job before its end

(* The map has the jobs that have subscribers and have not ended, and no   *)
(* others.                                                                 *)
Mapped ==
  /\ \A j \in Job : state[j] \in Alive /\ subscribers[j] # {} => jobs[jobKey[j]] = j
  /\ \A k \in Key : jobs[k] # NoJob =>
       state[jobs[k]] \in Alive /\ subscribers[jobs[k]] # {} /\ jobKey[jobs[k]] = k
  /\ \A j \in Job : aborted[j] => state[j] # "absent" /\ subscribers[j] = {}

(* A waiting job has a current entry in the heap.  Revisions start at 0.   *)
Entered ==
  \A j \in Waiting : \E e \in queue : e.job = j /\ e.revision = revision[j]

Unrevised == \A j \in Job : state[j] = "absent" => revision[j] = 0

(* A pending request is a subscriber of its job, which has not ended and   *)
(* has at least the priority asked for while it waits.  The job of a       *)
(* request that was served has ended.                                      *)
Asked ==
  /\ \A r \in Request : status[r] = "pending" =>
       /\ r \in subscribers[jobOf[r]]
       /\ state[jobOf[r]] \in Alive
       /\ state[jobOf[r]] = "queued" => wanted[r] <= priority[jobOf[r]]
  /\ \A r \in Request : status[r] \in {"leased", "released"} =>
       state[jobOf[r]] = "ended"

PromiseInv == Mapped /\ Entered /\ Unrevised /\ Asked

-----------------------------------------------------------------------------
(* What a pump does to the jobs: some that waited run, all others stay.    *)
LEMMA PumpedStates ==
  ASSUME NEW q, q \subseteq QueueEntry, NEW st \in [Job -> States], NEW running,
         Pumped(q, st, running)
  PROVE  /\ state' \in [Job -> States]
         /\ \A j \in Job : \/ state'[j] = st[j]
                           \/ st[j] = "queued" /\ state'[j] = "running"
<1>1. CASE state' = st
  BY <1>1
<1>2. ASSUME NEW e \in LiveEntries(q, st), state' = [st EXCEPT ![e.job] = "running"]
      PROVE  /\ state' \in [Job -> States]
             /\ \A j \in Job : \/ state'[j] = st[j]
                               \/ st[j] = "queued" /\ state'[j] = "running"
  <2>1. e.job \in Job /\ st[e.job] = "queued"
    BY EntryFields DEF LiveEntries
  <2> QED
    BY <1>2, <2>1 DEF States
<1> QED
  BY <1>1, <1>2 DEF Pumped

(* A pump loses no entry of a job that goes on waiting.                    *)
LEMMA PumpKeepsEntries ==
  ASSUME NEW q, q \subseteq QueueEntry, NEW st \in [Job -> States], NEW running,
         Pumped(q, st, running),
         \A j \in Job : st[j] = "queued" /\ subscribers'[j] # {} =>
           /\ jobs'[jobKey'[j]] = j
           /\ \E e \in q : e.job = j /\ e.revision = revision'[j]
  PROVE  Entered'
<1> SUFFICES ASSUME NEW j \in Job, state'[j] = "queued", subscribers'[j] # {}
             PROVE  \E e \in queue' : e.job = j /\ e.revision = revision'[j]
  BY DEF Entered, Waiting
<1>1. st[j] = "queued"
  BY PumpedStates
<1>2. PICK e \in q : e.job = j /\ e.revision = revision'[j]
  BY <1>1
<1>3. e \in LiveEntries(q, st)
  BY <1>1, <1>2 DEF LiveEntries
<1>4. CASE LiveEntries(q, st) \subseteq queue'
  BY <1>2, <1>3, <1>4
<1>5. ASSUME NEW f \in LiveEntries(q, st), state' = [st EXCEPT ![f.job] = "running"],
             LiveEntries(q, st) \ {f} \subseteq queue'
      PROVE  e \in queue'
  <2>1. f.job \in Job
    BY EntryFields DEF LiveEntries
  <2>2. f.job # j
    BY <1>5, <2>1
  <2> QED
    BY <1>2, <1>3, <1>5, <2>2
<1> QED
  BY <1>2, <1>4, <1>5 DEF Pumped

-----------------------------------------------------------------------------
(* requestThumbnail, the first request for its key.                        *)
LEMMA CreateKeepsPromises ==
  ASSUME IInv, PromiseInv, NEW k \in Key, NEW p \in Rank,
         LET r == nextRequest
         IN  /\ r \in Request
             /\ nextRequest' = r + 1
             /\ wanted' = [wanted EXCEPT ![r] = p]
             /\ status' = [status EXCEPT ![r] = "pending"]
             /\ CreateJob(r, k, p)
             /\ UNCHANGED leaseVars
  PROVE  PromiseInv'
<1> DEFINE r  == nextRequest
           e0 == [job |-> r, revision |-> 0, rank |-> p]
           q  == queue \cup {e0}
           st == [state EXCEPT ![r] = "queued"]
<1>1. /\ r \in Job /\ r \in Request /\ r # NoJob
      /\ state[r] = "absent" /\ status[r] = "idle" /\ revision[r] = 0
  BY MaxRequestsAssumption DEF IInv, SlotInv, Fresh, PromiseInv, Unrevised, Job, Request, NoJob
<1>2. TypeOK
  BY DEF IInv, SlotInv
<1>3. /\ jobs' = [jobs EXCEPT ![k] = r] /\ jobs[k] = NoJob
      /\ jobKey' = [jobKey EXCEPT ![r] = k]
      /\ priority' = [priority EXCEPT ![r] = p]
      /\ subscribers' = [subscribers EXCEPT ![r] = {r}]
      /\ jobOf' = [jobOf EXCEPT ![r] = r]
      /\ revision' = revision /\ aborted' = aborted
      /\ wanted' = [wanted EXCEPT ![r] = p]
      /\ status' = [status EXCEPT ![r] = "pending"]
  BY DEF CreateJob
<1>4. Pumped(q, st, runningCount)
  BY CreateStep
<1>5. q \subseteq QueueEntry /\ st \in [Job -> States]
  BY <1>1, <1>2 DEF TypeOK, QueueEntry, States
<1>6. st[r] = "queued" /\ \A j \in Job : j # r => st[j] = state[j]
  BY <1>1, <1>2 DEF TypeOK
<1> HIDE DEF q, st
<1>7. \A j \in Job : \/ state'[j] = st[j]
                     \/ st[j] = "queued" /\ state'[j] = "running"
  BY <1>4, <1>5, PumpedStates
<1>8. ASSUME NEW j \in Job, st[j] \in {"queued", "running"}, subscribers'[j] # {}
      PROVE  jobs'[jobKey'[j]] = j
  <2>1. CASE j = r
    BY <1>1, <1>2, <1>3, <2>1 DEF TypeOK
  <2>2. CASE j # r
    <3>1. jobKey'[j] = jobKey[j] /\ jobKey[j] \in Key /\ subscribers'[j] = subscribers[j]
      BY <1>2, <1>3, <2>2 DEF TypeOK
    <3>2. jobs[jobKey[j]] = j /\ j # NoJob
      BY <1>6, <1>8, <2>2, <3>1, MaxRequestsAssumption
         DEF PromiseInv, Mapped, Alive, Job, Request, NoJob
    <3> QED
      BY <1>2, <1>3, <3>1, <3>2 DEF TypeOK
  <2> QED
    BY <2>1, <2>2
<1>9. Mapped'
  <2>1. ASSUME NEW j \in Job, state'[j] \in Alive, subscribers'[j] # {}
        PROVE  jobs'[jobKey'[j]] = j
    BY <1>7, <1>8, <2>1 DEF Alive
  <2>2. ASSUME NEW h \in Key, jobs'[h] # NoJob
        PROVE  state'[jobs'[h]] \in Alive /\ subscribers'[jobs'[h]] # {} /\ jobKey'[jobs'[h]] = h
    <3>1. CASE h = k
      BY <1>1, <1>2, <1>3, <1>6, <1>7, <3>1 DEF Alive, TypeOK
    <3>2. CASE h # k
      <4>1. jobs'[h] = jobs[h] /\ jobs[h] \in Job /\ jobs[h] # NoJob
        BY <1>2, <1>3, <2>2, <3>2 DEF TypeOK
      <4>2. state[jobs[h]] \in Alive /\ subscribers[jobs[h]] # {} /\ jobKey[jobs[h]] = h
        BY <4>1 DEF PromiseInv, Mapped
      <4>3. jobs[h] # r
        BY <1>1, <4>2 DEF Alive
      <4> QED
        BY <1>2, <1>3, <1>6, <1>7, <4>1, <4>2, <4>3 DEF Alive, TypeOK
    <3> QED
      BY <3>1, <3>2
  <2>3. ASSUME NEW j \in Job, aborted'[j]
        PROVE  state'[j] # "absent" /\ subscribers'[j] = {}
    <3>1. state[j] # "absent" /\ subscribers[j] = {}
      BY <1>3, <2>3 DEF PromiseInv, Mapped
    <3>2. j # r
      BY <1>1, <3>1
    <3> QED
      BY <1>2, <1>3, <1>6, <1>7, <3>1, <3>2 DEF TypeOK
  <2> QED
    BY <2>1, <2>2, <2>3 DEF Mapped
<1>10. Entered'
  <2>1. ASSUME NEW j \in Job, st[j] = "queued", subscribers'[j] # {}
        PROVE  \E e \in q : e.job = j /\ e.revision = revision'[j]
    <3>1. CASE j = r
      <4>1. e0 \in q
        BY DEF q
      <4>2. e0.job = r /\ e0.revision = revision'[r]
        BY <1>1, <1>3
      <4> QED
        BY <3>1, <4>1, <4>2
    <3>2. CASE j # r
      <4>1. j \in Waiting
        BY <1>2, <1>3, <1>6, <2>1, <3>2 DEF Waiting, TypeOK
      <4> QED
        BY <1>3, <4>1 DEF PromiseInv, Entered, q
    <3> QED
      BY <3>1, <3>2
  <2> QED
    BY <1>4, <1>5, <1>8, <2>1, PumpKeepsEntries
<1>11. Unrevised'
  BY <1>3, <1>6, <1>7 DEF PromiseInv, Unrevised
<1>12. Asked'
  <2>1. ASSUME NEW i \in Request, i # r, status[i] # "idle"
        PROVE  jobOf[i] \in Job /\ jobOf[i] # r /\ jobOf'[i] = jobOf[i]
    BY <1>1, <1>2, <1>3, <2>1 DEF IInv, LeaseInv, Members, TypeOK
  <2>2. ASSUME NEW i \in Request, status'[i] = "pending"
        PROVE  /\ i \in subscribers'[jobOf'[i]]
               /\ state'[jobOf'[i]] \in Alive
               /\ state'[jobOf'[i]] = "queued" => wanted'[i] <= priority'[jobOf'[i]]
    <3>1. CASE i = r
      <4>1. jobOf'[i] = r /\ subscribers'[r] = {r} /\ wanted'[i] = p /\ priority'[r] = p
        BY <1>1, <1>2, <1>3, <3>1 DEF TypeOK
      <4>2. p <= p
        BY RankAssumption
      <4> QED
        BY <1>1, <1>6, <1>7, <3>1, <4>1, <4>2 DEF Alive
    <3>2. CASE i # r
      <4>1. status[i] = "pending" /\ wanted'[i] = wanted[i]
        BY <1>2, <1>3, <2>2, <3>2 DEF TypeOK
      <4>2. /\ i \in subscribers[jobOf[i]] /\ state[jobOf[i]] \in Alive
            /\ state[jobOf[i]] = "queued" => wanted[i] <= priority[jobOf[i]]
        BY <4>1 DEF PromiseInv, Asked
      <4>3. jobOf[i] \in Job /\ jobOf[i] # r /\ jobOf'[i] = jobOf[i]
        BY <2>1, <3>2, <4>1
      <4>4. /\ subscribers'[jobOf[i]] = subscribers[jobOf[i]]
            /\ priority'[jobOf[i]] = priority[jobOf[i]]
        BY <1>2, <1>3, <4>3 DEF TypeOK
      <4> QED
        BY <1>6, <1>7, <4>1, <4>2, <4>3, <4>4 DEF Alive
    <3> QED
      BY <3>1, <3>2
  <2>3. ASSUME NEW i \in Request, status'[i] \in {"leased", "released"}
        PROVE  state'[jobOf'[i]] = "ended"
    <3>1. i # r /\ status[i] = status'[i]
      BY <1>1, <1>2, <1>3, <2>3 DEF TypeOK
    <3>2. state[jobOf[i]] = "ended" /\ status[i] # "idle"
      BY <2>3, <3>1 DEF PromiseInv, Asked
    <3> QED
      BY <1>6, <1>7, <2>1, <3>1, <3>2
  <2> QED
    BY <2>2, <2>3 DEF Asked
<1> QED
  BY <1>9, <1>10, <1>11, <1>12 DEF PromiseInv

-----------------------------------------------------------------------------
(* requestThumbnail, a later request for its key.                          *)
LEMMA JoinKeepsPromises ==
  ASSUME IInv, PromiseInv, NEW k \in Key, NEW p \in Rank,
         LET r == nextRequest
         IN  /\ r \in Request
             /\ nextRequest' = r + 1
             /\ wanted' = [wanted EXCEPT ![r] = p]
             /\ status' = [status EXCEPT ![r] = "pending"]
             /\ JoinJob(r, k, p)
             /\ UNCHANGED leaseVars
  PROVE  PromiseInv'
<1> DEFINE r  == nextRequest
           j  == jobs[k]
           up == state[j] = "queued" /\ p > priority[j]
           e0 == [job |-> j, revision |-> revision[j] + 1, rank |-> p]
           q  == IF up THEN queue \cup {e0} ELSE queue
<1>1. TypeOK /\ r \in Request /\ status[r] = "idle"
  <2>1. TypeOK
    BY DEF IInv, SlotInv
  <2>2. r \in Job /\ r \in Nat
    BY MaxRequestsAssumption DEF Job, Request
  <2> QED
    BY <2>1, <2>2 DEF IInv, SlotInv, Fresh, Job
<1>2. /\ j \in Job /\ state[j] \in Alive /\ subscribers[j] # {} /\ jobKey[j] = k
  BY <1>1 DEF JoinJob, TypeOK, PromiseInv, Mapped
<1>3. /\ priority' = IF up THEN [priority EXCEPT ![j] = p] ELSE priority
      /\ revision' = IF up THEN [revision EXCEPT ![j] = @ + 1] ELSE revision
      /\ subscribers' = [subscribers EXCEPT ![j] = @ \cup {r}]
      /\ jobOf' = [jobOf EXCEPT ![r] = j]
      /\ jobs' = jobs /\ jobKey' = jobKey /\ aborted' = aborted
      /\ wanted' = [wanted EXCEPT ![r] = p]
      /\ status' = [status EXCEPT ![r] = "pending"]
  BY DEF JoinJob
<1>4. Pumped(q, state, runningCount)
  BY JoinStep
<1>5. q \subseteq QueueEntry /\ state \in [Job -> States]
  BY <1>1, <1>2 DEF TypeOK, QueueEntry, States
<1> HIDE DEF q, j, up
<1>6. \A i \in Job : \/ state'[i] = state[i]
                     \/ state[i] = "queued" /\ state'[i] = "running"
  BY <1>4, <1>5, PumpedStates
<1>7. \A i \in Job : subscribers'[i] # {} => subscribers[i] # {}
  BY <1>1, <1>2, <1>3 DEF TypeOK
<1>8. ASSUME NEW i \in Job, state[i] \in Alive, subscribers'[i] # {}
      PROVE  jobs'[jobKey'[i]] = i
  BY <1>3, <1>7, <1>8 DEF PromiseInv, Mapped
<1>9. Mapped'
  <2>1. ASSUME NEW i \in Job, state'[i] \in Alive, subscribers'[i] # {}
        PROVE  jobs'[jobKey'[i]] = i
    BY <1>6, <1>8, <2>1 DEF Alive
  <2>2. ASSUME NEW h \in Key, jobs'[h] # NoJob
        PROVE  state'[jobs'[h]] \in Alive /\ subscribers'[jobs'[h]] # {} /\ jobKey'[jobs'[h]] = h
    <3>1. jobs'[h] = jobs[h] /\ jobs[h] \in Job
      BY <1>1, <1>3, <2>2 DEF TypeOK
    <3>2. state[jobs[h]] \in Alive /\ subscribers[jobs[h]] # {} /\ jobKey[jobs[h]] = h
      BY <2>2, <3>1 DEF PromiseInv, Mapped
    <3>3. subscribers[jobs[h]] \subseteq subscribers'[jobs[h]]
      BY <1>1, <1>2, <1>3, <3>1 DEF TypeOK
    <3> QED
      BY <1>3, <1>6, <3>1, <3>2, <3>3 DEF Alive
  <2>3. ASSUME NEW i \in Job, aborted'[i]
        PROVE  state'[i] # "absent" /\ subscribers'[i] = {}
    BY <1>3, <1>6, <1>7, <2>3 DEF PromiseInv, Mapped
  <2> QED
    BY <2>1, <2>2, <2>3 DEF Mapped
<1>10. /\ p \in 1 .. 3
       /\ \A i \in Job : /\ priority[i] \in 1 .. 3 /\ priority'[i] \in 1 .. 3
                          /\ priority[i] <= priority'[i]
       /\ up => priority'[j] = p
       /\ ~up => priority'[j] = priority[j]
  <2>1. p \in 1 .. 3 /\ \A i \in Job : priority[i] \in 1 .. 3
    BY <1>1, RankAssumption DEF TypeOK
  <2>2. /\ up => priority'[j] = p
        /\ ~up => priority'[j] = priority[j]
        /\ \A i \in Job : i # j => priority'[i] = priority[i]
    BY <1>1, <1>2, <1>3 DEF TypeOK
  <2>3. up => p > priority[j]
    BY DEF up
  <2> QED
    BY <1>2, <2>1, <2>2, <2>3
<1>11. Entered'
  <2>1. ASSUME NEW i \in Job, state[i] = "queued", subscribers'[i] # {}
        PROVE  \E e \in q : e.job = i /\ e.revision = revision'[i]
    <3>1. CASE up /\ i = j
      <4>1. e0 \in q
        BY <3>1 DEF q
      <4>2. e0.job = j /\ e0.revision = revision'[j]
        BY <1>1, <1>2, <1>3, <3>1 DEF TypeOK
      <4> QED
        BY <3>1, <4>1, <4>2
    <3>2. CASE ~(up /\ i = j)
      <4>1. i \in Waiting
        BY <1>7, <2>1 DEF Waiting
      <4>2. revision'[i] = revision[i]
        BY <1>1, <1>2, <1>3, <3>2 DEF TypeOK
      <4> QED
        BY <4>1, <4>2 DEF PromiseInv, Entered, q
    <3> QED
      BY <3>1, <3>2
  <2>2. \A i \in Job : state[i] = "queued" => state[i] \in Alive
    BY DEF Alive
  <2> QED
    BY <1>4, <1>5, <1>8, <2>1, <2>2, PumpKeepsEntries
<1>12. Unrevised'
  <2> SUFFICES ASSUME NEW i \in Job, state'[i] = "absent"
               PROVE  revision'[i] = 0
    BY DEF Unrevised
  <2>1. state[i] = "absent" /\ i # j
    BY <1>2, <1>6 DEF Alive
  <2> QED
    BY <1>1, <1>2, <1>3, <2>1 DEF PromiseInv, Unrevised, TypeOK
<1>13. Asked'
  <2>1. ASSUME NEW i \in Request, status'[i] = "pending"
        PROVE  /\ i \in subscribers'[jobOf'[i]]
               /\ state'[jobOf'[i]] \in Alive
               /\ state'[jobOf'[i]] = "queued" => wanted'[i] <= priority'[jobOf'[i]]
    <3>1. CASE i = r
      <4>1. jobOf'[i] = j /\ i \in subscribers'[j] /\ wanted'[i] = p
        BY <1>1, <1>2, <1>3, <3>1 DEF TypeOK
      <4>2. state'[j] = "queued" => state[j] = "queued"
        BY <1>2, <1>6
      <4>3. state[j] = "queued" => p <= priority'[j]
        BY <1>2, <1>10 DEF up
      <4> QED
        BY <1>2, <1>6, <4>1, <4>2, <4>3 DEF Alive
    <3>2. CASE i # r
      <4>1. status[i] = "pending" /\ wanted'[i] = wanted[i] /\ jobOf'[i] = jobOf[i]
        BY <1>1, <1>3, <2>1, <3>2 DEF TypeOK
      <4>2. /\ i \in subscribers[jobOf[i]] /\ state[jobOf[i]] \in Alive
            /\ state[jobOf[i]] = "queued" => wanted[i] <= priority[jobOf[i]]
        BY <4>1 DEF PromiseInv, Asked
      <4>3. jobOf[i] \in Job
        BY <4>1 DEF IInv, LeaseInv, Members
      <4>4. i \in subscribers'[jobOf[i]]
        BY <1>1, <1>2, <1>3, <4>2, <4>3 DEF TypeOK
      <4>5. wanted[i] \in 1 .. 3
        BY <1>1, RankAssumption DEF TypeOK
      <4>6. state[jobOf[i]] = "queued" => wanted[i] <= priority'[jobOf[i]]
        BY <1>10, <4>2, <4>3, <4>5
      <4> QED
        BY <1>6, <4>1, <4>2, <4>3, <4>4, <4>6 DEF Alive
    <3> QED
      BY <3>1, <3>2
  <2>2. ASSUME NEW i \in Request, status'[i] \in {"leased", "released"}
        PROVE  state'[jobOf'[i]] = "ended"
    <3>1. i # r /\ status[i] = status'[i] /\ jobOf'[i] = jobOf[i]
      BY <1>1, <1>3, <2>2 DEF TypeOK
    <3>2. state[jobOf[i]] = "ended" /\ jobOf[i] \in Job
      BY <2>2, <3>1 DEF PromiseInv, Asked, IInv, LeaseInv, Members
    <3> QED
      BY <1>6, <3>1, <3>2
  <2> QED
    BY <2>1, <2>2 DEF Asked
<1> QED
  BY <1>9, <1>11, <1>12, <1>13 DEF PromiseInv

LEMMA RequestKeepsPromises ==
  ASSUME IInv, PromiseInv, NEW k \in Key, NEW p \in Rank, requestThumbnail(k, p)
  PROVE  PromiseInv'
BY CreateKeepsPromises, JoinKeepsPromises DEF requestThumbnail

-----------------------------------------------------------------------------
(* Dropping a job from the map takes away that job only.                   *)
LEMMA DropEffect ==
  ASSUME TypeOK, Mapped, NEW j \in Job, DropFromMap(j)
  PROVE  /\ \A h \in Key : jobs'[h] # NoJob => jobs'[h] = jobs[h] /\ jobs[h] # j
         /\ \A i \in Job : i # j /\ jobs[jobKey[i]] = i => jobs'[jobKey[i]] = i
<1>1. j # NoJob /\ jobKey[j] \in Key
  BY MaxRequestsAssumption DEF TypeOK, Job, Request, NoJob
<1>2. ASSUME NEW h \in Key, jobs'[h] # NoJob
      PROVE  jobs'[h] = jobs[h] /\ jobs[h] # j
  <2>1. jobs[h] = j => jobKey[j] = h
    BY <1>1 DEF Mapped
  <2> QED
    BY <1>1, <1>2, <2>1 DEF DropFromMap, TypeOK
<1>3. ASSUME NEW i \in Job, i # j, jobs[jobKey[i]] = i
      PROVE  jobs'[jobKey[i]] = i
  <2>1. jobKey[i] \in Key
    BY DEF TypeOK
  <2> QED
    BY <1>1, <1>3, <2>1 DEF DropFromMap, TypeOK
<1> QED
  BY <1>2, <1>3

(* cancelSubscriber.                                                       *)
LEMMA CancelKeepsPromises ==
  ASSUME IInv, PromiseInv, NEW r \in Request, cancelSubscriber(r)
  PROVE  PromiseInv'
<1> DEFINE j    == jobOf[r]
           last == subscribers[j] = {r}
<1>1. /\ status[r] = "pending" /\ r \in subscribers[j]
      /\ subscribers' = [subscribers EXCEPT ![j] = @ \ {r}]
      /\ status' = [status EXCEPT ![r] = "cancelled"]
      /\ revision' = [revision EXCEPT ![j] =
                        IF last /\ state[j] = "queued" THEN @ + 1 ELSE @]
      /\ aborted' = [aborted EXCEPT ![j] = @ \/ (last /\ state[j] # "queued")]
      /\ IF last THEN DropFromMap(j) ELSE jobs' = jobs
      /\ jobKey' = jobKey /\ priority' = priority
      /\ jobOf' = jobOf /\ wanted' = wanted
  BY DEF cancelSubscriber, requestVars
<1>2. TypeOK
  BY DEF IInv, SlotInv
<1>3. j \in Job /\ state[j] \in Alive
  BY <1>1 DEF IInv, LeaseInv, Members, PromiseInv, Asked
<1>4. Pumped(queue, state, runningCount)
  BY CancelStep
<1>5. queue \subseteq QueueEntry /\ state \in [Job -> States]
  BY <1>2 DEF TypeOK, States
<1>6. /\ subscribers'[j] = subscribers[j] \ {r}
      /\ \A i \in Job : i # j => /\ subscribers'[i] = subscribers[i]
                                 /\ revision'[i] = revision[i]
                                 /\ aborted'[i] = aborted[i]
  BY <1>1, <1>2, <1>3 DEF TypeOK
<1>7. last <=> subscribers'[j] = {}
  BY <1>1, <1>6
<1>8. ~last => revision'[j] = revision[j] /\ aborted'[j] = aborted[j]
  BY <1>1, <1>2, <1>3 DEF TypeOK
<1> HIDE DEF j, last
<1>9. \A i \in Job : \/ state'[i] = state[i]
                     \/ state[i] = "queued" /\ state'[i] = "running"
  BY <1>4, <1>5, PumpedStates
<1>10. /\ \A h \in Key : jobs'[h] # NoJob =>
            jobs'[h] = jobs[h] /\ subscribers'[jobs[h]] # {}
       /\ \A i \in Job : subscribers'[i] # {} /\ jobs[jobKey[i]] = i => jobs'[jobKey[i]] = i
  <2>1. Mapped
    BY DEF PromiseInv
  <2>2. CASE last
    <3>1. /\ \A h \in Key : jobs'[h] # NoJob => jobs'[h] = jobs[h] /\ jobs[h] # j
          /\ \A i \in Job : i # j /\ jobs[jobKey[i]] = i => jobs'[jobKey[i]] = i
      BY <1>1, <1>2, <1>3, <2>1, <2>2, DropEffect
    <3>2. \A h \in Key : jobs[h] # NoJob => jobs[h] \in Job /\ subscribers[jobs[h]] # {}
      BY <1>2, <2>1 DEF TypeOK, Mapped
    <3> QED
      BY <1>6, <1>7, <2>2, <3>1, <3>2
  <2>3. CASE ~last
    <3>1. jobs' = jobs
      BY <1>1, <2>3
    <3>2. \A h \in Key : jobs[h] # NoJob => jobs[h] \in Job /\ subscribers[jobs[h]] # {}
      BY <1>2, <2>1 DEF TypeOK, Mapped
    <3> QED
      BY <1>6, <1>7, <2>3, <3>1, <3>2
  <2> QED
    BY <2>2, <2>3
<1>11. \A i \in Job : subscribers'[i] # {} => subscribers[i] # {} /\ revision'[i] = revision[i]
  BY <1>6, <1>7, <1>8
<1>12. ASSUME NEW i \in Job, state[i] \in Alive, subscribers'[i] # {}
       PROVE  jobs'[jobKey'[i]] = i
  <2>1. jobs[jobKey[i]] = i
    BY <1>11, <1>12 DEF PromiseInv, Mapped
  <2> QED
    BY <1>1, <1>10, <1>12, <2>1
<1>13. Mapped'
  <2>1. ASSUME NEW i \in Job, state'[i] \in Alive, subscribers'[i] # {}
        PROVE  jobs'[jobKey'[i]] = i
    BY <1>9, <1>12, <2>1 DEF Alive
  <2>2. ASSUME NEW h \in Key, jobs'[h] # NoJob
        PROVE  state'[jobs'[h]] \in Alive /\ subscribers'[jobs'[h]] # {} /\ jobKey'[jobs'[h]] = h
    <3>1. jobs'[h] = jobs[h] /\ jobs[h] \in Job /\ subscribers'[jobs[h]] # {}
      BY <1>2, <1>10, <2>2 DEF TypeOK
    <3>2. state[jobs[h]] \in Alive /\ jobKey[jobs[h]] = h
      BY <2>2, <3>1 DEF PromiseInv, Mapped
    <3> QED
      BY <1>1, <1>9, <3>1, <3>2 DEF Alive
  <2>3. ASSUME NEW i \in Job, aborted'[i]
        PROVE  state'[i] # "absent" /\ subscribers'[i] = {}
    <3>1. CASE i = j /\ last
      BY <1>3, <1>7, <1>9, <3>1 DEF Alive
    <3>2. CASE ~(i = j /\ last)
      <4>1. aborted[i]
        BY <1>6, <1>8, <2>3, <3>2
      <4>2. state[i] # "absent" /\ subscribers[i] = {}
        BY <4>1 DEF PromiseInv, Mapped
      <4> QED
        BY <1>9, <1>11, <4>2
    <3> QED
      BY <3>1, <3>2
  <2> QED
    BY <2>1, <2>2, <2>3 DEF Mapped
<1>14. Entered'
  <2>1. ASSUME NEW i \in Job, state[i] = "queued", subscribers'[i] # {}
        PROVE  \E e \in queue : e.job = i /\ e.revision = revision'[i]
    <3>1. i \in Waiting /\ revision'[i] = revision[i]
      BY <1>11, <2>1 DEF Waiting
    <3> QED
      BY <3>1 DEF PromiseInv, Entered
  <2>2. \A i \in Job : state[i] = "queued" => state[i] \in Alive
    BY DEF Alive
  <2> QED
    BY <1>4, <1>5, <1>12, <2>1, <2>2, PumpKeepsEntries
<1>15. Unrevised'
  <2> SUFFICES ASSUME NEW i \in Job, state'[i] = "absent"
               PROVE  revision'[i] = 0
    BY DEF Unrevised
  <2>1. state[i] = "absent" /\ i # j
    BY <1>3, <1>9 DEF Alive
  <2> QED
    BY <1>6, <2>1 DEF PromiseInv, Unrevised
<1>16. Asked'
  <2>1. ASSUME NEW i \in Request, status'[i] = "pending"
        PROVE  /\ i \in subscribers'[jobOf'[i]]
               /\ state'[jobOf'[i]] \in Alive
               /\ state'[jobOf'[i]] = "queued" => wanted'[i] <= priority'[jobOf'[i]]
    <3>1. i # r /\ status[i] = "pending"
      BY <1>1, <1>2, <2>1 DEF TypeOK
    <3>2. /\ i \in subscribers[jobOf[i]] /\ state[jobOf[i]] \in Alive /\ jobOf[i] \in Job
          /\ state[jobOf[i]] = "queued" => wanted[i] <= priority[jobOf[i]]
      BY <3>1 DEF PromiseInv, Asked, IInv, LeaseInv, Members
    <3>3. i \in subscribers'[jobOf[i]]
      BY <1>6, <3>1, <3>2
    <3> QED
      BY <1>1, <1>9, <3>2, <3>3 DEF Alive
  <2>2. ASSUME NEW i \in Request, status'[i] \in {"leased", "released"}
        PROVE  state'[jobOf'[i]] = "ended"
    <3>1. status[i] = status'[i]
      BY <1>1, <1>2, <2>2 DEF TypeOK
    <3>2. state[jobOf[i]] = "ended" /\ jobOf[i] \in Job
      BY <2>2, <3>1 DEF PromiseInv, Asked, IInv, LeaseInv, Members
    <3> QED
      BY <1>1, <1>9, <3>2
  <2> QED
    BY <2>1, <2>2 DEF Asked
<1> QED
  BY <1>13, <1>14, <1>15, <1>16 DEF PromiseInv

-----------------------------------------------------------------------------
(* The end of a run, whether the port resolved or rejected.                *)
LEMMA EndRunKeepsPromises ==
  ASSUME IInv, PromiseInv, NEW j \in Job, state[j] = "running", EndRun(j),
         Pumped(queue, [state EXCEPT ![j] = "ended"], runningCount - 1),
         wanted' = wanted, jobOf' = jobOf,
         NEW v \in {"leased", "failed"},
         status' = [r \in Request |-> IF r \in subscribers[j] THEN v ELSE status[r]]
  PROVE  PromiseInv'
<1> DEFINE st == [state EXCEPT ![j] = "ended"]
<1>1. /\ subscribers' = [subscribers EXCEPT ![j] = {}]
      /\ DropFromMap(j)
      /\ jobKey' = jobKey /\ priority' = priority
      /\ revision' = revision /\ aborted' = aborted
  BY DEF EndRun
<1>2. TypeOK
  BY DEF IInv, SlotInv
<1>3. Pumped(queue, st, runningCount - 1)
  OBVIOUS
<1>4. queue \subseteq QueueEntry /\ st \in [Job -> States]
  BY <1>2 DEF TypeOK, States
<1>5. st[j] = "ended" /\ \A i \in Job : i # j => st[i] = state[i]
  BY <1>2 DEF TypeOK
<1>6. subscribers'[j] = {} /\ \A i \in Job : i # j => subscribers'[i] = subscribers[i]
  BY <1>1, <1>2 DEF TypeOK
<1>7. /\ \A h \in Key : jobs'[h] # NoJob => jobs'[h] = jobs[h] /\ jobs[h] # j
      /\ \A i \in Job : i # j /\ jobs[jobKey[i]] = i => jobs'[jobKey[i]] = i
  BY <1>1, <1>2, DropEffect DEF PromiseInv
<1> HIDE DEF st
<1>8. \A i \in Job : \/ state'[i] = st[i]
                     \/ st[i] = "queued" /\ state'[i] = "running"
  BY <1>3, <1>4, PumpedStates
<1>9. ASSUME NEW i \in Job, st[i] \in Alive, subscribers'[i] # {}
      PROVE  i # j /\ state[i] \in Alive /\ jobs'[jobKey'[i]] = i
  <2>1. i # j /\ state[i] \in Alive /\ subscribers[i] # {}
    BY <1>5, <1>6, <1>9
  <2>2. jobs[jobKey[i]] = i
    BY <2>1 DEF PromiseInv, Mapped
  <2> QED
    BY <1>1, <1>7, <2>1, <2>2
<1>10. Mapped'
  <2>1. ASSUME NEW i \in Job, state'[i] \in Alive, subscribers'[i] # {}
        PROVE  jobs'[jobKey'[i]] = i
    BY <1>8, <1>9, <2>1 DEF Alive
  <2>2. ASSUME NEW h \in Key, jobs'[h] # NoJob
        PROVE  state'[jobs'[h]] \in Alive /\ subscribers'[jobs'[h]] # {} /\ jobKey'[jobs'[h]] = h
    <3>1. jobs'[h] = jobs[h] /\ jobs[h] \in Job /\ jobs[h] # j
      BY <1>2, <1>7, <2>2 DEF TypeOK
    <3>2. state[jobs[h]] \in Alive /\ subscribers[jobs[h]] # {} /\ jobKey[jobs[h]] = h
      BY <2>2, <3>1 DEF PromiseInv, Mapped
    <3> QED
      BY <1>1, <1>5, <1>6, <1>8, <3>1, <3>2 DEF Alive
  <2>3. ASSUME NEW i \in Job, aborted'[i]
        PROVE  state'[i] # "absent" /\ subscribers'[i] = {}
    <3>1. state[i] # "absent" /\ subscribers[i] = {}
      BY <1>1, <2>3 DEF PromiseInv, Mapped
    <3> QED
      BY <1>5, <1>6, <1>8, <3>1
  <2> QED
    BY <2>1, <2>2, <2>3 DEF Mapped
<1>11. Entered'
  <2>1. ASSUME NEW i \in Job, st[i] = "queued", subscribers'[i] # {}
        PROVE  \E e \in queue : e.job = i /\ e.revision = revision'[i]
    <3>1. i \in Waiting
      BY <1>5, <1>6, <2>1 DEF Waiting
    <3> QED
      BY <1>1, <3>1 DEF PromiseInv, Entered
  <2>2. \A i \in Job : st[i] = "queued" => st[i] \in Alive
    BY DEF Alive
  <2> QED
    BY <1>3, <1>4, <1>9, <2>1, <2>2, PumpKeepsEntries
<1>12. Unrevised'
  BY <1>1, <1>5, <1>8 DEF PromiseInv, Unrevised
<1>13. Asked'
  <2>1. ASSUME NEW i \in Request, status'[i] = "pending"
        PROVE  /\ i \in subscribers'[jobOf'[i]]
               /\ state'[jobOf'[i]] \in Alive
               /\ state'[jobOf'[i]] = "queued" => wanted'[i] <= priority'[jobOf'[i]]
    <3>1. i \notin subscribers[j] /\ status[i] = "pending"
      BY <2>1
    <3>2. /\ i \in subscribers[jobOf[i]] /\ state[jobOf[i]] \in Alive /\ jobOf[i] \in Job
          /\ state[jobOf[i]] = "queued" => wanted[i] <= priority[jobOf[i]]
      BY <3>1 DEF PromiseInv, Asked, IInv, LeaseInv, Members
    <3>3. jobOf[i] # j
      BY <3>1, <3>2
    <3> QED
      BY <1>1, <1>5, <1>6, <1>8, <3>2, <3>3 DEF Alive
  <2>2. ASSUME NEW i \in Request, status'[i] \in {"leased", "released"}
        PROVE  state'[jobOf'[i]] = "ended"
    <3>1. CASE i \in subscribers[j]
      <4>1. jobOf[i] = j
        BY <3>1 DEF IInv, LeaseInv, Members
      <4> QED
        BY <1>5, <1>8, <4>1
    <3>2. CASE i \notin subscribers[j]
      <4>1. state[jobOf[i]] = "ended" /\ jobOf[i] \in Job
        BY <2>2, <3>2 DEF PromiseInv, Asked, IInv, LeaseInv, Members
      <4> QED
        BY <1>5, <1>8, <4>1
    <3> QED
      BY <3>1, <3>2
  <2> QED
    BY <2>1, <2>2 DEF Asked
<1> QED
  BY <1>10, <1>11, <1>12, <1>13 DEF PromiseInv

LEMMA ResolveKeepsPromises ==
  ASSUME IInv, PromiseInv, NEW j \in Job, PortResolves(j)
  PROVE  PromiseInv'
<1>1. /\ state[j] = "running" /\ EndRun(j) /\ wanted' = wanted /\ jobOf' = jobOf
      /\ status' = [r \in Request |-> IF r \in subscribers[j] THEN "leased" ELSE status[r]]
  BY DEF PortResolves, requestVars
<1>2. Pumped(queue, [state EXCEPT ![j] = "ended"], runningCount - 1)
  BY ResolveStep
<1> QED
  BY <1>1, <1>2, EndRunKeepsPromises

LEMMA RejectKeepsPromises ==
  ASSUME IInv, PromiseInv, NEW j \in Job, PortRejects(j)
  PROVE  PromiseInv'
<1>1. /\ state[j] = "running" /\ EndRun(j) /\ wanted' = wanted /\ jobOf' = jobOf
      /\ status' = [r \in Request |-> IF r \in subscribers[j] THEN "failed" ELSE status[r]]
  BY DEF PortRejects, requestVars
<1>2. Pumped(queue, [state EXCEPT ![j] = "ended"], runningCount - 1)
  BY RejectStep
<1> QED
  BY <1>1, <1>2, EndRunKeepsPromises

(* release, first or repeated: jobs and queue stay.                        *)
LEMMA ReleaseKeepsPromises ==
  ASSUME IInv, PromiseInv, NEW r \in Request, release(r)
  PROVE  PromiseInv'
<1>1. /\ jobs' = jobs /\ jobKey' = jobKey /\ priority' = priority /\ revision' = revision
      /\ state' = state /\ subscribers' = subscribers /\ aborted' = aborted
      /\ queue' = queue /\ wanted' = wanted /\ jobOf' = jobOf
      /\ status[r] \in {"leased", "released"}
      /\ status' = [status EXCEPT ![r] = "released"]
  BY DEF release, requestVars, jobVars, poolVars
<1>2. status \in [Request -> {"idle", "pending", "cancelled", "failed", "leased", "released"}]
  BY DEF IInv, SlotInv, TypeOK
<1>3. \A i \in Request : /\ status'[i] = "pending" => status[i] = "pending"
                         /\ status'[i] \in {"leased", "released"} =>
                              status[i] \in {"leased", "released"}
  BY <1>1, <1>2
<1>4. Asked'
  BY <1>1, <1>3 DEF PromiseInv, Asked
<1>5. Mapped' /\ Entered' /\ Unrevised'
  BY <1>1 DEF PromiseInv, Mapped, Entered, Unrevised, Waiting
<1> QED
  BY <1>4, <1>5 DEF PromiseInv

LEMMA StepKeepsPromises ==
  ASSUME IInv, PromiseInv, [Next]_vars
  PROVE  PromiseInv'
<1>1. CASE UNCHANGED vars
  BY <1>1 DEF vars, requestVars, jobVars, poolVars, PromiseInv, Mapped, Entered,
              Unrevised, Asked, Waiting
<1> QED
  BY <1>1, RequestKeepsPromises, CancelKeepsPromises, ResolveKeepsPromises,
     RejectKeepsPromises, ReleaseKeepsPromises DEF Next

LEMMA InitPromises == Init => PromiseInv
<1> SUFFICES ASSUME Init PROVE PromiseInv
  OBVIOUS
<1>1. Mapped /\ Entered /\ Unrevised
  BY DEF Init, Mapped, Entered, Unrevised, Waiting, Alive
<1>2. Asked
  BY DEF Init, Asked
<1> QED
  BY <1>1, <1>2 DEF PromiseInv

-----------------------------------------------------------------------------
(* The map, the heap and the promises tell one story, whatever the order   *)
(* of requests, cancellations and answers.                                 *)
THEOREM PromiseInvariance == Safe => [](IInv /\ PromiseInv)
<1>1. Init => IInv /\ PromiseInv
  BY InitIInv, InitPromises
<1>2. IInv /\ PromiseInv /\ [Next]_vars => (IInv /\ PromiseInv)'
  BY StepKeepsIInv, StepKeepsPromises
<1> QED
  BY <1>1, <1>2, PTL DEF Safe

(* While a request waits for a slot all maxConcurrent slots are taken: a   *)
(* slot stays free only with an empty heap, and a waiting job has an entry *)
(* in it, since neither pump nor a revised priority loses the current one. *)
THEOREM NoIdleSlotHolds == Safe => []NoIdleSlot
<1>1. IInv /\ PromiseInv => NoIdleSlot
  <2> SUFFICES ASSUME IInv, PromiseInv, Waiting # {}
               PROVE  runningCount = MaxConcurrent
    BY DEF NoIdleSlot
  <2>1. queue # {}
    BY DEF PromiseInv, Entered
  <2>2. /\ runningCount \in Nat /\ runningCount <= MaxConcurrent
        /\ ~(runningCount < MaxConcurrent)
    BY <2>1 DEF IInv, SlotInv, Slots, TypeOK
  <2> QED
    BY <2>2, MaxConcurrentAssumption
<1> QED
  BY <1>1, PromiseInvariance, PTL

(* Two calls for one key never both have consumers, and no request joins a *)
(* call that was told to stop: the map has exactly the jobs with consumers.*)
THEOREM OrphanNeverRejoinedHolds == Safe => []OrphanNeverRejoined
<1>1. IInv /\ PromiseInv => OrphanNeverRejoined
  <2> SUFFICES ASSUME IInv, PromiseInv, NEW j \in Job, state[j] \in {"queued", "running"}
               PROVE  /\ aborted[j] => subscribers[j] = {} /\ jobs[jobKey[j]] # j
                      /\ \A i \in Job :
                           /\ state[i] \in {"queued", "running"}
                           /\ subscribers[i] # {} /\ subscribers[j] # {}
                           /\ jobKey[i] = jobKey[j]
                           => i = j
    BY DEF OrphanNeverRejoined
  <2>1. j # NoJob /\ jobKey[j] \in Key
    BY MaxRequestsAssumption DEF IInv, SlotInv, TypeOK, Job, Request, NoJob
  <2>2. subscribers[j] = {} => jobs[jobKey[j]] # j
    BY <2>1 DEF PromiseInv, Mapped
  <2>3. aborted[j] => subscribers[j] = {}
    BY DEF PromiseInv, Mapped
  <2>4. \A i \in Job : state[i] \in {"queued", "running"} /\ subscribers[i] # {} =>
                         jobs[jobKey[i]] = i
    BY DEF PromiseInv, Mapped, Alive
  <2> QED
    BY <2>2, <2>3, <2>4
<1> QED
  BY <1>1, PromiseInvariance, PTL

-----------------------------------------------------------------------------
(* Priorities.  The job a pump starts was the best of the live entries, so *)
(* a request whose job stays in the queue asked for no more.               *)
LEMMA PumpRespectsPriority ==
  ASSUME NEW q, q \subseteq QueueEntry, NEW st \in [Job -> States], NEW running,
         Pumped(q, st, running), IInv', PromiseInv',
         NEW j \in Job, st[j] # "running", state'[j] = "running",
         NEW r \in Request, status'[r] = "pending", state'[jobOf'[r]] = "queued"
  PROVE  wanted'[r] <= priority'[j]
<1> DEFINE i == jobOf'[r]
<1>1. i \in Job /\ r \in subscribers'[i] /\ wanted'[r] <= priority'[i]
  BY DEF IInv, LeaseInv, Members, PromiseInv, Asked
<1>2. state'[i] = "queued" /\ i # j
  OBVIOUS
<1> HIDE DEF i
<1>3. st[i] = "queued" /\ state'[j] # st[j]
  BY <1>1, <1>2, PumpedStates
<1>4. jobs'[jobKey'[i]] = i
  BY <1>1, <1>2 DEF PromiseInv, Mapped, Alive
<1>5. PICK f \in queue' : f.job = i /\ f.revision = revision'[i]
  BY <1>1, <1>2 DEF PromiseInv, Entered, Waiting
<1>6. f \in LiveEntries(q, st)
  BY <1>1, <1>3, <1>4, <1>5 DEF Pumped, LiveEntries
<1>7. state' # st
  BY <1>3
<1>8. PICK e \in LiveEntries(q, st) :
        /\ state' = [st EXCEPT ![e.job] = "running"]
        /\ \A g \in LiveEntries(q, st) \ {e} : comesBefore(e, g)
  BY <1>7 DEF Pumped
<1>9. e.job = j
  BY <1>3, <1>8
<1>10. comesBefore(e, f)
  BY <1>2, <1>5, <1>6, <1>8, <1>9
<1>11. f.rank = priority'[i] /\ e.rank = priority'[j]
  BY <1>5, <1>6, <1>9 DEF Pumped
<1>12. e.rank \in 1 .. 3 /\ f.rank \in 1 .. 3
  BY <1>6, EntryFields DEF LiveEntries
<1>13. f.rank <= e.rank
  BY <1>10, <1>12 DEF comesBefore
<1>14. wanted'[r] \in 1 .. 3
  BY RankAssumption DEF IInv, SlotInv, TypeOK
<1> QED
  BY <1>1, <1>11, <1>12, <1>13, <1>14

(* Each handler pumps some heap from job states that run no job the state  *)
(* before did not run.                                                     *)
LEMMA StepPumps ==
  ASSUME IInv, Next, NEW j \in Job, state[j] # "running", state'[j] = "running"
  PROVE  \E q \in SUBSET QueueEntry, st \in [Job -> States], running \in Int :
           Pumped(q, st, running) /\ st[j] # "running"
<1>1. TypeOK
  BY DEF IInv, SlotInv
<1>2. queue \in SUBSET QueueEntry /\ state \in [Job -> States] /\ runningCount \in Int
  BY <1>1 DEF TypeOK, States
<1>3. ASSUME NEW k \in Key, NEW p \in Rank, requestThumbnail(k, p)
      PROVE  \E q \in SUBSET QueueEntry, st \in [Job -> States], running \in Int :
               Pumped(q, st, running) /\ st[j] # "running"
  <2> DEFINE r == nextRequest
             e0 == [job |-> r, revision |-> 0, rank |-> p]
             i  == jobs[k]
             e1 == [job |-> i, revision |-> revision[i] + 1, rank |-> p]
             st == [state EXCEPT ![r] = "queued"]
             up == state[i] = "queued" /\ p > priority[i]
  <2>1. r \in Request
    BY <1>3 DEF requestThumbnail
  <2>2. CASE CreateJob(r, k, p)
    <3>1. Pumped(queue \cup {e0}, st, runningCount)
      BY <1>3, <2>1, <2>2, CreateStep DEF requestThumbnail
    <3>2. queue \cup {e0} \in SUBSET QueueEntry
      BY <1>2, <2>1 DEF QueueEntry, Job
    <3>3. st \in [Job -> States] /\ st[j] # "running"
      BY <1>2 DEF States
    <3> QED
      BY <1>2, <3>1, <3>2, <3>3
  <2>3. CASE JoinJob(r, k, p)
    <3>1. Pumped(IF up THEN queue \cup {e1} ELSE queue, state, runningCount)
      BY <1>3, <2>1, <2>3, JoinStep DEF requestThumbnail
    <3>2. i \in Job
      BY <1>1, <2>3 DEF JoinJob, TypeOK
    <3>3. queue \cup {e1} \in SUBSET QueueEntry
      BY <1>1, <1>2, <3>2 DEF QueueEntry, TypeOK
    <3> QED
      BY <1>2, <3>1, <3>3
  <2> QED
    BY <1>3, <2>2, <2>3 DEF requestThumbnail
<1>4. ASSUME NEW r \in Request, cancelSubscriber(r)
      PROVE  \E q \in SUBSET QueueEntry, st \in [Job -> States], running \in Int :
               Pumped(q, st, running) /\ st[j] # "running"
  <2>1. Pumped(queue, state, runningCount)
    BY <1>4, CancelStep
  <2> QED
    BY <1>2, <2>1
<1>5. ASSUME NEW i \in Job, PortResolves(i) \/ PortRejects(i)
      PROVE  \E q \in SUBSET QueueEntry, st \in [Job -> States], running \in Int :
               Pumped(q, st, running) /\ st[j] # "running"
  <2> DEFINE st == [state EXCEPT ![i] = "ended"]
  <2>1. Pumped(queue, st, runningCount - 1)
    BY <1>5, ResolveStep, RejectStep
  <2>2. st \in [Job -> States] /\ st[j] # "running" /\ runningCount - 1 \in Int
    BY <1>2 DEF States
  <2> QED
    BY <1>2, <2>1, <2>2
<1>6. ASSUME NEW r \in Request, release(r)
      PROVE  FALSE
  BY <1>6 DEF release, jobVars
<1> QED
  BY <1>3, <1>4, <1>5, <1>6 DEF Next

(* The job that gets a slot overtakes no request of a higher priority that *)
(* stays queued, also when that priority came with a late joiner.          *)
THEOREM NoPriorityInversionHolds == Safe => NoPriorityInversion
<1>1. ASSUME IInv, PromiseInv, [Next]_vars
      PROVE  [\A j \in Job, r \in Request :
                /\ state[j] # "running" /\ state'[j] = "running"
                /\ status'[r] = "pending" /\ state'[jobOf'[r]] = "queued"
                => wanted'[r] <= priority'[j]]_vars
  <2> SUFFICES ASSUME Next, NEW j \in Job, NEW r \in Request,
                      state[j] # "running", state'[j] = "running",
                      status'[r] = "pending", state'[jobOf'[r]] = "queued"
               PROVE  wanted'[r] <= priority'[j]
    BY <1>1
  <2>1. IInv' /\ PromiseInv'
    BY <1>1, StepKeepsIInv, StepKeepsPromises
  <2>2. PICK q \in SUBSET QueueEntry, st \in [Job -> States], running \in Int :
          Pumped(q, st, running) /\ st[j] # "running"
    BY <1>1, StepPumps
  <2> QED
    BY <2>1, <2>2, PumpRespectsPriority
<1> QED
  BY <1>1, PromiseInvariance, PTL DEF Safe, NoPriorityInversion

-----------------------------------------------------------------------------
(* RepresentationContract.  A request for a thumbnail is Ask, a            *)
(* cancellation Withdraw, an answer Deliver or Fail to all that wait for   *)
(* it, a first release Return; answers nobody waits for and repeated       *)
(* releases are not visible.                                               *)

(* What the contract's lease stands for here.                              *)
Shared ==
  [r \in Request |->
     IF status[r] \in {"leased", "released"}
       THEN [group |-> jobOf[r], key |-> jobKey[jobOf[r]]]
       ELSE NoLease]

(* A handler that serves no request leaves all shared registrations alone. *)
LEMMA SharedFrame ==
  ASSUME \A r \in Request :
           status'[r] \in {"leased", "released"} <=> status[r] \in {"leased", "released"},
         \A r \in Request : status[r] \in {"leased", "released"} =>
           jobOf'[r] = jobOf[r] /\ jobKey'[jobOf[r]] = jobKey[jobOf[r]]
  PROVE  Shared' = Shared
<1>1. ASSUME NEW r \in Request
      PROVE  (IF status'[r] \in {"leased", "released"}
                THEN [group |-> jobOf'[r], key |-> jobKey'[jobOf'[r]]]
                ELSE NoLease)
             = (IF status[r] \in {"leased", "released"}
                  THEN [group |-> jobOf[r], key |-> jobKey[jobOf[r]]]
                  ELSE NoLease)
  <2>1. CASE status[r] \in {"leased", "released"}
    <3>1. /\ status'[r] \in {"leased", "released"}
          /\ jobOf'[r] = jobOf[r] /\ jobKey'[jobOf[r]] = jobKey[jobOf[r]]
      BY <2>1
    <3> QED
      BY <2>1, <3>1
  <2>2. CASE status[r] \notin {"leased", "released"}
    <3>1. status'[r] \notin {"leased", "released"}
      BY <2>2
    <3> QED
      BY <2>2, <3>1
  <2> QED
    BY <2>1, <2>2
<1>2. Shared' = [r \in Request |->
                   IF status'[r] \in {"leased", "released"}
                     THEN [group |-> jobOf'[r], key |-> jobKey'[jobOf'[r]]]
                     ELSE NoLease]
  BY DEF Shared, NoLease
<1> QED
  BY <1>1, <1>2 DEF Shared

LEMMA RequestIsAsk ==
  ASSUME IInv, PromiseInv, NEW k \in Key, NEW p \in Rank, requestThumbnail(k, p)
  PROVE  Contract!Next
<1> DEFINE r == nextRequest
<1>1. /\ r \in Request /\ status[r] = "idle" /\ state[r] = "absent"
      /\ status' = [status EXCEPT ![r] = "pending"] /\ refs' = refs
  <2>1. r \in Request
    BY DEF requestThumbnail
  <2>2. r \in Job /\ r \in Nat
    BY <2>1, MaxRequestsAssumption DEF Job, Request
  <2> QED
    BY <2>1, <2>2 DEF requestThumbnail, leaseVars, IInv, SlotInv, Fresh
<1>2. TypeOK
  BY DEF IInv, SlotInv
<1>3. \A i \in Request : i # r => jobOf'[i] = jobOf[i]
  BY <1>1, <1>2 DEF requestThumbnail, CreateJob, JoinJob, TypeOK
<1>4. \A j \in Job : j # r => jobKey'[j] = jobKey[j]
  BY <1>1, <1>2 DEF requestThumbnail, CreateJob, JoinJob, TypeOK
<1>5. Shared' = Shared
  <2>1. \A i \in Request :
          status'[i] \in {"leased", "released"} <=> status[i] \in {"leased", "released"}
    BY <1>1, <1>2 DEF TypeOK
  <2>2. ASSUME NEW i \in Request, status[i] \in {"leased", "released"}
        PROVE  jobOf'[i] = jobOf[i] /\ jobKey'[jobOf[i]] = jobKey[jobOf[i]]
    <3>1. i # r /\ state[jobOf[i]] = "ended" /\ jobOf[i] \in Job
      BY <1>1, <2>2 DEF PromiseInv, Asked, IInv, LeaseInv, Members
    <3> QED
      BY <1>1, <1>3, <1>4, <3>1
  <2> QED
    BY <2>1, <2>2, SharedFrame
<1>6. Contract!Ask(r)
  BY <1>1, <1>5 DEF Contract!Ask, Shared
<1> QED
  BY <1>1, <1>6 DEF Contract!Next

LEMMA CancelIsWithdraw ==
  ASSUME IInv, NEW r \in Request, cancelSubscriber(r)
  PROVE  Contract!Next
<1>1. /\ status[r] = "pending" /\ status' = [status EXCEPT ![r] = "cancelled"]
      /\ jobOf' = jobOf /\ jobKey' = jobKey /\ refs' = refs
  BY DEF cancelSubscriber, requestVars, leaseVars
<1>2. \A i \in Request :
        status'[i] \in {"leased", "released"} <=> status[i] \in {"leased", "released"}
  BY <1>1 DEF IInv, SlotInv, TypeOK
<1>3. Shared' = Shared
  BY <1>1, <1>2, SharedFrame
<1>4. Contract!Withdraw(r)
  BY <1>1, <1>3 DEF Contract!Withdraw, Shared
<1> QED
  BY <1>4 DEF Contract!Next

LEMMA RejectIsFail ==
  ASSUME IInv, NEW j \in Job, PortRejects(j)
  PROVE  Contract!Next
<1>1. /\ status' = [r \in Request |-> IF r \in subscribers[j] THEN "failed" ELSE status[r]]
      /\ jobOf' = jobOf /\ jobKey' = jobKey /\ refs' = refs
  BY DEF PortRejects, EndRun, requestVars, leaseVars
<1>2. \A r \in subscribers[j] : r \in Request /\ status[r] = "pending"
  BY DEF IInv, SlotInv, TypeOK, LeaseInv, Members
<1>3. \A i \in Request :
        status'[i] \in {"leased", "released"} <=> status[i] \in {"leased", "released"}
  BY <1>1, <1>2
<1>4. Shared' = Shared
  BY <1>1, <1>3, SharedFrame
<1>5. Contract!Fail(subscribers[j])
  BY <1>1, <1>4 DEF Contract!Fail, Shared
<1>6. subscribers[j] \in SUBSET Contract!Pending
  BY <1>2 DEF Contract!Pending
<1> QED
  BY <1>5, <1>6 DEF Contract!Next

LEMMA ResolveIsDeliver ==
  ASSUME IInv, PromiseInv, NEW j \in Job, PortResolves(j)
  PROVE  Contract!Next \/ UNCHANGED Contract!vars
<1> DEFINE waiting == subscribers[j]
<1>1. /\ state[j] = "running"
      /\ status' = [r \in Request |-> IF r \in waiting THEN "leased" ELSE status[r]]
      /\ refs' = IF waiting = {} THEN refs ELSE [refs EXCEPT ![jobKey[j]] = @ + 1]
      /\ jobOf' = jobOf /\ jobKey' = jobKey
  BY DEF PortResolves, EndRun, requestVars
<1>2. \A r \in waiting : r \in Request /\ status[r] = "pending" /\ jobOf[r] = j
  BY DEF IInv, SlotInv, TypeOK, LeaseInv, Members
<1>3. TypeOK
  BY DEF IInv, SlotInv
<1>4. CASE waiting = {}
  <2>1. status' = status /\ refs' = refs
    BY <1>1, <1>3, <1>4 DEF TypeOK
  <2>2. Shared' = Shared
    BY <1>1, <2>1, SharedFrame
  <2> QED
    BY <2>1, <2>2 DEF Contract!vars, Shared
<1>5. CASE waiting # {}
  <2>1. Shared' = [r \in Request |->
                     IF r \in waiting THEN [group |-> j, key |-> jobKey[j]] ELSE Shared[r]]
    BY <1>1, <1>2 DEF Shared, NoLease
  <2>2. ASSUME NEW r \in Request, Shared[r] # NoLease
        PROVE  Shared[r].group # j
    <3>1. status[r] \in {"leased", "released"}
      BY <2>2 DEF Shared
    <3>2. Shared[r].group = jobOf[r]
      BY <3>1 DEF Shared
    <3>3. state[jobOf[r]] = "ended"
      BY <3>1 DEF PromiseInv, Asked
    <3> QED
      BY <1>1, <3>2, <3>3
  <2>3. waiting \in SUBSET Contract!Pending /\ jobKey[j] \in Key
    BY <1>2, <1>3 DEF Contract!Pending, TypeOK
  <2>4. PICK S \in SUBSET Contract!Pending, k \in Key : S = waiting /\ k = jobKey[j]
    BY <2>3
  <2>5. Contract!Deliver(S, j, k)
    BY <1>1, <1>5, <2>1, <2>2, <2>4 DEF Contract!Deliver, Shared
  <2> QED
    BY <2>5 DEF Contract!Next
<1> QED
  BY <1>4, <1>5

(* The first release of a lease: the registration goes back with the last  *)
(* lease of its group, which is when no other request holds it.            *)
LEMMA ReleaseIsReturn ==
  ASSUME IInv, NEW r \in Request, release(r)
  PROVE  Contract!Next \/ UNCHANGED Contract!vars
<1> DEFINE j == jobOf[r]
<1>1. /\ status[r] \in {"leased", "released"}
      /\ status' = [status EXCEPT ![r] = "released"]
      /\ jobOf' = jobOf /\ jobKey' = jobKey
  BY DEF release, requestVars, jobVars
<1>2. TypeOK
  BY DEF IInv, SlotInv
<1>3. \A i \in Request :
        status'[i] \in {"leased", "released"} <=> status[i] \in {"leased", "released"}
  BY <1>1, <1>2 DEF TypeOK
<1>4. Shared' = Shared
  BY <1>1, <1>3, SharedFrame
<1>5. CASE status[r] = "released"
  <2>1. refs' = refs
    BY <1>5 DEF release, leaseVars
  <2>2. status' = status
    BY <1>1, <1>2, <1>5 DEF TypeOK
  <2> QED
    BY <1>4, <2>1, <2>2 DEF Contract!vars, Shared
<1>6. CASE status[r] = "leased"
  <2>1. j \in Job /\ r \in Holders(j)
    BY <1>6 DEF IInv, LeaseInv, Members, Holders
  <2>2. /\ remaining[j] = Cardinality(Holders(j)) /\ remaining[j] \in Nat
        /\ backendReleased[j] => remaining[j] = 0
    BY <1>2, <2>1 DEF IInv, LeaseInv, Groups, TypeOK
  <2>3. remaining[j] # 0
    BY <2>1, <2>2, HoldersFinite, FS_EmptySet
  <2>4. remaining[j] = 1 <=> Holders(j) = {r}
    <3>1. ASSUME remaining[j] = 1
          PROVE  Holders(j) = {r}
      <4>1. \E x : Holders(j) = {x}
        BY <2>2, <3>1, HoldersFinite, FS_Singleton
      <4> QED
        BY <2>1, <4>1
    <3>2. ASSUME Holders(j) = {r}
          PROVE  remaining[j] = 1
      BY <2>2, <3>2, FS_Singleton
    <3> QED
      BY <3>1, <3>2
  <2>5. refs' = IF Holders(j) = {r} THEN [refs EXCEPT ![jobKey[j]] = @ - 1] ELSE refs
    BY <1>6, <2>2, <2>3, <2>4 DEF release, releaseOne
  <2>6. (\E s \in Request \ {r} : status[s] = "leased" /\ Shared[s] = Shared[r])
          <=> Holders(j) # {r}
    <3>1. ASSUME NEW s \in Request, status[s] = "leased"
          PROVE  Shared[s] = Shared[r] <=> jobOf[s] = j
      <4>1. /\ Shared[s] = [group |-> jobOf[s], key |-> jobKey[jobOf[s]]]
            /\ Shared[r] = [group |-> j, key |-> jobKey[j]]
        BY <1>6, <3>1 DEF Shared
      <4>2. Shared[s].group = jobOf[s] /\ Shared[r].group = j
        BY <4>1
      <4> QED
        BY <4>1, <4>2
    <3> QED
      BY <2>1, <3>1 DEF Holders
  <2>7. Shared[r].key = jobKey[j]
    BY <1>6 DEF Shared
  <2>8. Contract!Return(r)
    BY <1>1, <1>4, <1>6, <2>5, <2>6, <2>7 DEF Contract!Return, Shared
  <2> QED
    BY <2>8 DEF Contract!Next
<1> QED
  BY <1>1, <1>5, <1>6

LEMMA InitIsContractInit == Init => Contract!Init
BY DEF Init, Contract!Init

LEMMA StepIsContractStep ==
  IInv /\ PromiseInv /\ [Next]_vars => [Contract!Next]_(Contract!vars)
<1> SUFFICES ASSUME IInv, PromiseInv, [Next]_vars
             PROVE  Contract!Next \/ UNCHANGED Contract!vars
  OBVIOUS
<1>1. CASE UNCHANGED vars
  <2>1. /\ status' = status /\ refs' = refs
        /\ jobOf' = jobOf /\ jobKey' = jobKey
    BY <1>1 DEF vars, requestVars, jobVars, leaseVars
  <2>2. Shared' = Shared
    BY <2>1, SharedFrame
  <2> QED
    BY <2>1, <2>2 DEF Contract!vars, Shared
<1> QED
  BY <1>1, RequestIsAsk, CancelIsWithdraw, ResolveIsDeliver, RejectIsFail,
     ReleaseIsReturn DEF Next

(* Whatever the scheduler merges, reorders, cancels or orphans, what its   *)
(* consumers see is a behaviour of the contract: a request settles at most *)
(* once, the requests one registration serves hold it together, and it     *)
(* goes back with the last of their leases.                                *)
THEOREM RefinesContract == Safe => Contract!Safe
<1>1. Init => Contract!Init
  BY InitIsContractInit
<1>2. IInv /\ PromiseInv /\ [Next]_vars => [Contract!Next]_(Contract!vars)
  BY StepIsContractStep
<1> QED
  BY <1>1, <1>2, PromiseInvariance, PTL DEF Safe, Contract!Safe
===============================================================================
