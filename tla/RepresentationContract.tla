----------------------- MODULE RepresentationContract -----------------------
(***************************************************************************)
(* What the consumers of the thumbnail scheduler are promised (the         *)
(* interface ThumbnailRepresentationLease and the rejections declared at   *)
(* the top of representationScheduler.ts), with no jobs, queue or slots:   *)
(* a request settles once, the requests served by one backend registration *)
(* hold it together, and it is given back with the last of their leases.   *)
(***************************************************************************)
EXTENDS Integers

CONSTANTS Request, Group, Key, NoLease

VARIABLES
  status,  \* what became of each request
  lease,   \* the registration a served request shares, kept once returned
  refs     \* the backend's registrations for each key

vars == <<status, lease, refs>>

Pending == {r \in Request : status[r] = "pending"}

Init ==
  /\ status = [r \in Request |-> "idle"]
  /\ lease = [r \in Request |-> NoLease]
  /\ refs = [k \in Key |-> 0]

Ask(r) ==
  /\ status[r] = "idle"
  /\ status' = [status EXCEPT ![r] = "pending"]
  /\ UNCHANGED <<lease, refs>>

Withdraw(r) ==
  /\ status[r] = "pending"
  /\ status' = [status EXCEPT ![r] = "cancelled"]
  /\ UNCHANGED <<lease, refs>>

(* One failure answers all the requests of a set that were pending.        *)
Fail(S) ==
  /\ status' = [r \in Request |-> IF r \in S THEN "failed" ELSE status[r]]
  /\ UNCHANGED <<lease, refs>>

(* One new registration for k serves all the requests of such a set.       *)
Deliver(S, g, k) ==
  /\ S # {}
  /\ \A r \in Request : lease[r] # NoLease => lease[r].group # g
  /\ status' = [r \in Request |-> IF r \in S THEN "leased" ELSE status[r]]
  /\ lease' = [r \in Request |->
                 IF r \in S THEN [group |-> g, key |-> k] ELSE lease[r]]
  /\ refs' = [refs EXCEPT ![k] = @ + 1]

Return(r) ==
  /\ status[r] = "leased"
  /\ status' = [status EXCEPT ![r] = "released"]
  /\ refs' = IF \E s \in Request \ {r} : status[s] = "leased" /\ lease[s] = lease[r]
               THEN refs
               ELSE [refs EXCEPT ![lease[r].key] = @ - 1]
  /\ UNCHANGED lease

Next ==
  \/ \E r \in Request : Ask(r) \/ Withdraw(r) \/ Return(r)
  \/ \E S \in SUBSET Pending :
       Fail(S) \/ \E g \in Group, k \in Key : Deliver(S, g, k)

(* Each of the finitely many requests is settled: by a lease, a failure or *)
(* a cancellation, and as it is made only once, for good.                  *)
EveryRequestSettles == <>[](Pending = {})

Safe == Init /\ [][Next]_vars
Spec == Safe /\ EveryRequestSettles
=============================================================================
