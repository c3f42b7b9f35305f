---------------------- MODULE MCBrowserRepresentations ----------------------
(***************************************************************************)
(* Both browsers on one item of two sizes: they share its thumbnail, while *)
(* earlier requests of either are still on their way.                      *)
(***************************************************************************)
EXTENDS BrowserRepresentations, TLC

CONSTANTS flow, canvas, r1, r2, r3
Browsers == {flow, canvas}
Requests == {r1, r2, r3}
Symmetry == Permutations(Requests)
=============================================================================
