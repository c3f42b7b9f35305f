------------------------ MODULE MCPixiCanvasRenderer ------------------------
(* Two tiles and two URIs: a URI shared by both tiles, a tile that changes *)
(* its URI and comes back to it.                                           *)
EXTENDS PixiCanvasRenderer

CONSTANTS u1, u2, m1, m2

Uris  == {u1, u2}
Tiles == {m1, m2}
=============================================================================
