-------------------- MODULE MCRepresentationScheduler --------------------
(***************************************************************************)
(* RepresentationScheduler on two keys with two slots; four requests let a *)
(* key be requested, joined, orphaned and requested again while the other  *)
(* key's jobs compete for the slots.                                       *)
(***************************************************************************)
EXTENDS RepresentationScheduler

CONSTANTS k1, k2
Keys == {k1, k2}
=============================================================================
