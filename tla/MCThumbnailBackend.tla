------------------------- MODULE MCThumbnailBackend -------------------------
(* ThumbnailBackend with two concurrent calls on two cache files.          *)
EXTENDS ThumbnailBackend, TLC

CONSTANTS c1, c2, p1, p2
Calls == {c1, c2}
Paths == {p1, p2}
Symmetry == Permutations(Calls) \cup Permutations(Paths)
=============================================================================
