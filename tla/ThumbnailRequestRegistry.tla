---------------------- MODULE ThumbnailRequestRegistry ----------------------
(***************************************************************************)
(* src/src-tauri/src/thumbnail_request.rs: the cancellation tokens of the  *)
(* thumbnail requests the backend works on, and the tombstones of the      *)
(* cancellations that reached it before their request.  Every operation    *)
(* holds the registry's mutex from start to end, so each is one step.      *)
(***************************************************************************)
EXTENDS Integers, FiniteSets, Sequences, SequencesExt

CONSTANTS
  Call,                     \* request ids; the frontend never repeats one
  MaxPendingCancellations   \* MAX_PENDING_CANCELLATIONS (256 in the code)

VARIABLES
  active,          \* the ids in the map `active`
  cancelled,       \* the ids whose token has been cancelled
  pending,         \* pending_cancellations
  pendingOrder     \* pending_order

RequestTypeOK ==
  /\ active \subseteq Call
  /\ cancelled \subseteq Call
  /\ pending \subseteq Call
  /\ pendingOrder \in Seq(Call)

RequestInit ==
  /\ active = {}
  /\ cancelled = {}
  /\ pending = {}
  /\ pendingOrder = <<>>

(* Faulty: a tombstone is not consulted.                                   *)
BugRegisterIgnoresTombstone(c) ==
  /\ c \notin active
  /\ active' = active \cup {c}
  /\ UNCHANGED <<cancelled, pending, pendingOrder>>

(* The call starts work; a tombstone cancels its token at once.  The id    *)
(* leaves the set of tombstones and stays in their order.                  *)
register(c) ==
  /\ c \notin active
  /\ cancelled' = IF c \in pending THEN cancelled \cup {c} ELSE cancelled
  /\ pending' = pending \ {c}
  /\ active' = active \cup {c}
  /\ UNCHANGED pendingOrder

(* The ids the while loop pops from the order before the set is small      *)
(* enough again: the shortest sufficient prefix.                           *)
EvictedCount(order, set) ==
  LET enough(n) == Cardinality(set \ ToSet(SubSeq(order, 1, n)))
                     <= MaxPendingCancellations
  IN  CHOOSE n \in 0 .. Len(order) :
        /\ enough(n) \/ n = Len(order)
        /\ \A m \in 0 .. n - 1 : ~enough(m)

CancelActive(c) ==
  /\ c \in active
  /\ cancelled' = cancelled \cup {c}
  /\ UNCHANGED <<active, pending, pendingOrder>>

CancelUnknown(c) ==
  LET order == IF c \in pending THEN pendingOrder ELSE Append(pendingOrder, c)
      set   == pending \cup {c}
      n     == EvictedCount(order, set)
  IN  /\ c \notin active
      /\ pending' = set \ ToSet(SubSeq(order, 1, n))
      /\ pendingOrder' = SubSeq(order, n + 1, Len(order))
      /\ UNCHANGED <<active, cancelled>>

cancel(c) == CancelActive(c) \/ CancelUnknown(c)

finish(c) ==
  /\ active' = active \ {c}
  /\ UNCHANGED <<cancelled, pending, pendingOrder>>
=============================================================================
