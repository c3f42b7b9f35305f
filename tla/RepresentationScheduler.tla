---------------------- MODULE RepresentationScheduler ----------------------
(***************************************************************************)
(* src/src/application/resources/representationScheduler.ts: the scheduler *)
(* both browsers share.  It merges requests for one thumbnail into a job,  *)
(* runs at most MaxConcurrent jobs, best priority first, and gives every   *)
(* waiting consumer a lease on the backend registration of the answer.     *)
(*                                                                         *)
(* JavaScript runs each handler to its end before the next, so an action   *)
(* is one synchronous run: a call of requestThumbnail, the abort event of  *)
(* one consumer, the continuation after the port's answer, a release.      *)
(*                                                                         *)
(* Calls of requestThumbnail are numbered; the number stands for the       *)
(* subscriber id.  A job is known by the number of the request that        *)
(* created it, which orders jobs as `sequence` does.                       *)
(***************************************************************************)
EXTENDS Integers, FiniteSets

CONSTANTS
  Key,            \* thumbnailRequestKey: a resource key with a maximal edge
  Rank,           \* priorityRank of prefetch (1), overscan (2), visible (3)
  MaxConcurrent,  \* the option maxConcurrent
  MaxRequests     \* bound: calls of requestThumbnail in one behaviour

ASSUME KeyAssumption == Key # {}
ASSUME RankAssumption == Rank # {} /\ Rank \subseteq 1 .. 3
ASSUME MaxConcurrentAssumption == MaxConcurrent \in Nat \ {0}
ASSUME MaxRequestsAssumption == MaxRequests \in Nat

Request == 1 .. MaxRequests
NoJob   == 0
AnyKey  == CHOOSE k \in Key : TRUE    \* a field of a job or request that does not
AnyRank == CHOOSE p \in Rank : TRUE   \* exist yet: never read
Job     == Request

VARIABLES
  nextRequest,
  jobs,             \* the map from a key to the job that new requests join
  jobKey, priority, revision, state, subscribers, aborted,  \* per job
  queue,            \* the heap's entries
  runningCount,
  status,           \* what became of each request's promise
  wanted,           \* the priority each request asked for
  jobOf,            \* the job each request joined
  remaining, backendReleased,  \* RepresentationLeaseGroup, one per job
  refs              \* the backend's registrations for each key

requestVars == <<nextRequest, wanted, jobOf>>
jobVars     == <<jobs, jobKey, priority, revision, state, subscribers, aborted>>
poolVars    == <<queue, runningCount>>
leaseVars   == <<remaining, backendReleased, refs>>
vars        == <<requestVars, jobVars, poolVars, leaseVars, status>>

QueueEntry == [job : Job, revision : Nat, rank : Rank]

TypeOK ==
  /\ nextRequest \in 1 .. MaxRequests + 1
  /\ jobs \in [Key -> Job \cup {NoJob}]
  /\ jobKey \in [Job -> Key]
  /\ priority \in [Job -> Rank]
  /\ revision \in [Job -> Nat]
  /\ state \in [Job -> {"absent", "queued", "running", "ended"}]
  /\ subscribers \in [Job -> SUBSET Request]
  /\ aborted \in [Job -> BOOLEAN]
  /\ queue \subseteq QueueEntry
  /\ runningCount \in Nat
  /\ status \in [Request -> {"idle", "pending", "cancelled", "failed",
                             "leased", "released"}]
  /\ wanted \in [Request -> Rank]
  /\ jobOf \in [Request -> Job \cup {NoJob}]
  /\ remaining \in [Job -> Nat]
  /\ backendReleased \in [Job -> BOOLEAN]
  /\ refs \in [Key -> Nat]

Init ==
  /\ nextRequest = 1
  /\ jobs = [k \in Key |-> NoJob]
  /\ jobKey = [j \in Job |-> AnyKey]
  /\ priority = [j \in Job |-> AnyRank]
  /\ revision = [j \in Job |-> 0]
  /\ state = [j \in Job |-> "absent"]
  /\ subscribers = [j \in Job |-> {}]
  /\ aborted = [j \in Job |-> FALSE]
  /\ queue = {}
  /\ runningCount = 0
  /\ status = [r \in Request |-> "idle"]
  /\ wanted = [r \in Request |-> AnyRank]
  /\ jobOf = [r \in Request |-> NoJob]
  /\ remaining = [j \in Job |-> 0]
  /\ backendReleased = [j \in Job |-> FALSE]
  /\ refs = [k \in Key |-> 0]

-----------------------------------------------------------------------------
(* The queue.  The heap holds entries; an entry outdated by a later        *)
(* revision or by the end of its job stays until it is popped.             *)

(* Faulty: first come, first served.                                       *)
BugFifo(e, f) == e.job < f.job

comesBefore(e, f) ==
  \/ e.rank > f.rank
  \/ e.rank = f.rank /\ e.job < f.job

(* The entries popNextJob does not skip, in the state a handler leaves     *)
(* (st is the job states before pump starts any).                          *)
LiveEntries(q, st) ==
  {e \in q : /\ e.revision = revision'[e.job]
             /\ st[e.job] = "queued"
             /\ subscribers'[e.job] # {}
             /\ jobs'[jobKey'[e.job]] = e.job}

(* With n free slots the first n live entries start.                       *)
Started(live, n) ==
  {e \in live : Cardinality({f \in live : comesBefore(f, e)}) < n}

(* Every entry up to the last that started has been popped; with fewer     *)
(* than n live entries the heap is drained.                                *)
Unpopped(q, live, n) ==
  IF Cardinality(live) < n
    THEN {}
    ELSE {e \in q : \A s \in Started(live, n) : e # s /\ ~comesBefore(e, s)}

(* pump: pop until every slot is taken or the heap is empty.               *)
pump(q, st, running) ==
  LET free    == MaxConcurrent - running
      live    == LiveEntries(q, st)
      started == Started(live, free)
  IN  /\ queue' = Unpopped(q, live, free)
      /\ state' = [j \in Job |->
                     IF \E e \in started : e.job = j THEN "running" ELSE st[j]]
      /\ runningCount' = running + Cardinality(started)

-----------------------------------------------------------------------------
(* A call whose signal is aborted already returns before it touches any    *)
(* state, so it is no step here.  The first request for k creates a job.   *)
CreateJob(r, k, p) ==
  /\ jobs[k] = NoJob
  /\ jobs' = [jobs EXCEPT ![k] = r]
  /\ jobKey' = [jobKey EXCEPT ![r] = k]
  /\ priority' = [priority EXCEPT ![r] = p]
  /\ subscribers' = [subscribers EXCEPT ![r] = {r}]
  /\ jobOf' = [jobOf EXCEPT ![r] = r]
  /\ UNCHANGED <<revision, aborted>>
  /\ pump(queue \cup {[job |-> r, revision |-> 0, rank |-> p]},
          [state EXCEPT ![r] = "queued"], runningCount)

(* A request for k joins the job of k; a queued job whose priority it      *)
(* raises gets a new entry, and the old one is outdated.                   *)
JoinJob(r, k, p) ==
  LET j        == jobs[k]
      upgraded == state[j] = "queued" /\ p > priority[j]
  IN  /\ j # NoJob
      /\ priority' = IF upgraded THEN [priority EXCEPT ![j] = p] ELSE priority
      /\ revision' = IF upgraded THEN [revision EXCEPT ![j] = @ + 1] ELSE revision
      /\ subscribers' = [subscribers EXCEPT ![j] = @ \cup {r}]
      /\ jobOf' = [jobOf EXCEPT ![r] = j]
      /\ UNCHANGED <<jobs, jobKey, aborted>>
      /\ pump(IF upgraded
                THEN queue \cup {[job |-> j, revision |-> revision'[j], rank |-> p]}
                ELSE queue,
              state, runningCount)

requestThumbnail(k, p) ==
  LET r == nextRequest
  IN  /\ r \in Request
      /\ nextRequest' = r + 1
      /\ wanted' = [wanted EXCEPT ![r] = p]
      /\ status' = [status EXCEPT ![r] = "pending"]
      /\ CreateJob(r, k, p) \/ JoinJob(r, k, p)
      /\ UNCHANGED leaseVars

-----------------------------------------------------------------------------
(* The entry of the map for job j is dropped if it is still j's.           *)
DropFromMap(j) ==
  jobs' = IF jobs[jobKey[j]] = j THEN [jobs EXCEPT ![jobKey[j]] = NoJob] ELSE jobs

(* Faulty: the last consumer leaves and the job stays in the map.          *)
BugOrphanStaysInMap(r) ==
  LET j    == jobOf[r]
      last == subscribers[j] = {r}
  IN  /\ status[r] = "pending"
      /\ r \in subscribers[j]
      /\ subscribers' = [subscribers EXCEPT ![j] = @ \ {r}]
      /\ status' = [status EXCEPT ![r] = "cancelled"]
      /\ aborted' = [aborted EXCEPT ![j] = @ \/ (last /\ state[j] # "queued")]
      /\ UNCHANGED <<jobs, jobKey, priority, revision>>
      /\ pump(queue, state, runningCount)
      /\ UNCHANGED <<requestVars, leaseVars>>

(* Faulty: cancelling the last consumer gives the slot back at once.       *)
BugCancelFreesSlot(r) ==
  LET j    == jobOf[r]
      last == subscribers[j] = {r}
  IN  /\ status[r] = "pending"
      /\ r \in subscribers[j]
      /\ subscribers' = [subscribers EXCEPT ![j] = @ \ {r}]
      /\ status' = [status EXCEPT ![r] = "cancelled"]
      /\ aborted' = [aborted EXCEPT ![j] = @ \/ last]
      /\ IF last THEN DropFromMap(j) ELSE UNCHANGED jobs
      /\ UNCHANGED <<jobKey, priority, revision>>
      /\ pump(queue, state, IF last THEN runningCount - 1 ELSE runningCount)
      /\ UNCHANGED <<requestVars, leaseVars>>

(* A consumer aborts its signal.  The listener of a settled request has    *)
(* been removed, so the event reaches pending requests only.               *)
cancelSubscriber(r) ==
  LET j    == jobOf[r]
      last == subscribers[j] = {r}
  IN  /\ status[r] = "pending"
      /\ r \in subscribers[j]
      /\ subscribers' = [subscribers EXCEPT ![j] = @ \ {r}]
      /\ status' = [status EXCEPT ![r] = "cancelled"]
      /\ revision' = [revision EXCEPT ![j] =
                        IF last /\ state[j] = "queued" THEN @ + 1 ELSE @]
      /\ aborted' = [aborted EXCEPT ![j] = @ \/ (last /\ state[j] # "queued")]
      /\ IF last THEN DropFromMap(j) ELSE UNCHANGED jobs
      /\ UNCHANGED <<jobKey, priority>>
      /\ pump(queue, state, runningCount)
      /\ UNCHANGED <<requestVars, leaseVars>>

-----------------------------------------------------------------------------
(* Faulty: the slot of a finished job is not refilled.                     *)
BugEndWithoutPump(j) ==
  /\ subscribers' = [subscribers EXCEPT ![j] = {}]
  /\ DropFromMap(j)
  /\ state' = [state EXCEPT ![j] = "ended"]
  /\ runningCount' = runningCount - 1
  /\ UNCHANGED <<jobKey, priority, revision, aborted, queue>>

(* Faulty: an orphaned job that ends keeps its slot.                       *)
BugOrphanKeepsSlot(j) ==
  /\ subscribers' = [subscribers EXCEPT ![j] = {}]
  /\ DropFromMap(j)
  /\ UNCHANGED <<jobKey, priority, revision, aborted>>
  /\ pump(queue, [state EXCEPT ![j] = "ended"],
          IF subscribers[j] = {} THEN runningCount ELSE runningCount - 1)

(* The end of run: takeSubscribers, then the finally block.                *)
EndRun(j) ==
  /\ subscribers' = [subscribers EXCEPT ![j] = {}]
  /\ DropFromMap(j)
  /\ UNCHANGED <<jobKey, priority, revision, aborted>>
  /\ pump(queue, [state EXCEPT ![j] = "ended"], runningCount - 1)

(* Faulty: the registration of an orphaned call is kept.                   *)
BugOrphanLeaks(j) ==
  /\ state[j] = "running"
  /\ status' = [r \in Request |-> IF r \in subscribers[j] THEN "leased" ELSE status[r]]
  /\ remaining' = [remaining EXCEPT ![j] = Cardinality(subscribers[j])]
  /\ refs' = [refs EXCEPT ![jobKey[j]] = @ + 1]
  /\ EndRun(j)
  /\ UNCHANGED <<requestVars, backendReleased>>

(* The port resolves: the backend has registered the thumbnail.  Without   *)
(* subscribers the registration is released at once; else one group of     *)
(* leases owns it.                                                         *)
PortResolves(j) ==
  LET waiting == subscribers[j]
  IN  /\ state[j] = "running"
      /\ status' = [r \in Request |-> IF r \in waiting THEN "leased" ELSE status[r]]
      /\ remaining' = [remaining EXCEPT ![j] = Cardinality(waiting)]
      /\ refs' = IF waiting = {} THEN refs
                 ELSE [refs EXCEPT ![jobKey[j]] = @ + 1]
      /\ EndRun(j)
      /\ UNCHANGED <<requestVars, backendReleased>>

(* The port rejects: backend failure, or the cancellation it was asked for.*)
PortRejects(j) ==
  LET waiting == subscribers[j]
  IN  /\ state[j] = "running"
      /\ status' = [r \in Request |-> IF r \in waiting THEN "failed" ELSE status[r]]
      /\ EndRun(j)
      /\ UNCHANGED <<requestVars, leaseVars>>

-----------------------------------------------------------------------------
(* RepresentationLeaseGroup.releaseOne with releaseBackend.                *)
releaseOne(j) ==
  LET lastLease == remaining[j] = 1
      drop      == lastLease /\ ~backendReleased[j]
  IN  IF remaining[j] <= 0 THEN UNCHANGED leaseVars
      ELSE /\ remaining' = [remaining EXCEPT ![j] = @ - 1]
           /\ backendReleased' = [backendReleased EXCEPT ![j] = @ \/ lastLease]
           /\ refs' = IF drop THEN [refs EXCEPT ![jobKey[j]] = @ - 1] ELSE refs

(* Faulty: a second release of one lease counts again.                     *)
BugReleaseNotIdempotent(r) ==
  /\ status[r] \in {"leased", "released"}
  /\ status' = [status EXCEPT ![r] = "released"]
  /\ releaseOne(jobOf[r])
  /\ UNCHANGED <<requestVars, jobVars, poolVars>>

(* ScheduledThumbnailLease.release, which a consumer may call repeatedly.  *)
release(r) ==
  /\ status[r] \in {"leased", "released"}
  /\ status' = [status EXCEPT ![r] = "released"]
  /\ IF status[r] = "released" THEN UNCHANGED leaseVars ELSE releaseOne(jobOf[r])
  /\ UNCHANGED <<requestVars, jobVars, poolVars>>

-----------------------------------------------------------------------------
Next ==
  \/ \E k \in Key, p \in Rank : requestThumbnail(k, p)
  \/ \E r \in Request : cancelSubscriber(r)
  \/ \E j \in Job : PortResolves(j)
  \/ \E j \in Job : PortRejects(j)
  \/ \E r \in Request : release(r)

(* The backend answers every call; consumers owe nothing.                  *)
Fairness == \A j \in Job : WF_vars(PortResolves(j) \/ PortRejects(j))

Safe == Init /\ [][Next]_vars
Spec == Safe /\ Fairness

-----------------------------------------------------------------------------
Running == {j \in Job : state[j] = "running"}
Waiting == {j \in Job : state[j] = "queued" /\ subscribers[j] # {}}
Holders(j) == {r \in Request : status[r] = "leased" /\ jobOf[r] = j}

(* The counter pump trusts is the number of backend calls in flight, and   *)
(* they are at most maxConcurrent: an answer to an orphaned call frees its *)
(* slot exactly once, a cancellation frees none.                           *)
SlotAccounting ==
  /\ runningCount = Cardinality(Running)
  /\ runningCount <= MaxConcurrent

(* No slot stays idle while a request waits: each handler that can free a  *)
(* slot or enqueue a job pumps, and no live entry is lost from the heap.   *)
NoIdleSlot ==
  Waiting # {} => runningCount = MaxConcurrent

(* Requests for one key share one backend call: two jobs of a key that     *)
(* still have consumers never coexist, and a call told to stop is joined   *)
(* by no later request.                                                    *)
OrphanNeverRejoined ==
  \A j \in Job : state[j] \in {"queued", "running"} =>
    /\ aborted[j] => subscribers[j] = {} /\ jobs[jobKey[j]] # j
    /\ \A i \in Job :
         /\ state[i] \in {"queued", "running"}
         /\ subscribers[i] # {} /\ subscribers[j] # {}
         /\ jobKey[i] = jobKey[j]
         => i = j

(* The backend holds, for each key, one registration per job some consumer *)
(* still leases: none is released under a consumer, none outlives the last *)
(* one, whatever the order of answers, late cancellations and (repeated)   *)
(* releases.                                                               *)
RegistrationsMatchLeases ==
  \A k \in Key :
    refs[k] = Cardinality({j \in Job : jobKey[j] = k /\ Holders(j) # {}})

(* A job that gets a slot does not overtake a request of a higher priority *)
(* that stays in the queue, also when the priority came with a late joiner.*)
NoPriorityInversion ==
  [][\A j \in Job, r \in Request :
       /\ state[j] # "running" /\ state'[j] = "running"
       /\ status'[r] = "pending" /\ state'[jobOf'[r]] = "queued"
       => wanted'[r] <= priority'[j]]_vars

(* The scheduler keeps the promise of RepresentationContract: whatever it  *)
(* merges, reorders, cancels or orphans, a request settles, exactly once,  *)
(* and a registration lives from its answer to the last lease on it.       *)
NoLease == <<>>
Contract == INSTANCE RepresentationContract WITH
  Group <- Job,
  lease <- [r \in Request |->
              IF status[r] \in {"leased", "released"}
                THEN [group |-> jobOf[r], key |-> jobKey[jobOf[r]]]
                ELSE NoLease]
ImplementsContract == Contract!Spec
=============================================================================
