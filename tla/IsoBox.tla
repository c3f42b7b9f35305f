--------------------------------- MODULE IsoBox ---------------------------------
(***************************************************************************)
(* read_iso_box: the header of a box of an ISO media file.  The function    *)
(* stands three times in the source; the one of video.rs differs in         *)
(* checking that an extended size lies in the parent before it reads it     *)
(* (checked), where the others fail when the file ends there.               *)
(*                                                                         *)
(* A header is what its bytes say: the 32-bit size, the 64-bit size that    *)
(* follows, and the kind.                                                   *)
(***************************************************************************)
EXTENDS Naturals

Malformed == [kind |-> "malformed"]
Missing   == [kind |-> "error"]

HeaderLength(head) == (IF head.size32 = 1 THEN 16 ELSE 8)
                        + (IF head.kind = "uuid" THEN 16 ELSE 0)

\* Size 0 is a box to the end of its parent.
BoxSize(head, rest) == CASE head.size32 = 0 -> rest
                         [] head.size32 = 1 -> head.size64
                         [] OTHER           -> head.size32

\* BoxSize past 2^64 is past parentEnd too, so checked_add needs no case.
ReadIsoBox(head, start, parentEnd, fileLen, checked) ==
    LET size == BoxSize(head, parentEnd - start)
    IN  CASE start + 8 > parentEnd -> Malformed
          [] head.size32 = 1 /\ start + 16 > (IF checked THEN parentEnd ELSE fileLen) ->
               (IF checked THEN Malformed ELSE Missing)
          [] OTHER ->
               IF size < HeaderLength(head) \/ start + size > parentEnd
               THEN Malformed
               ELSE [kind          |-> head.kind,
                     payload_start |-> start + HeaderLength(head),
                     end           |-> start + size]

=================================================================================
