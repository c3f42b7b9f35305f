---------------------- MODULE MCMediaSessionController ----------------------
(* Two sessions, so that the second supersedes the first; a walk long      *)
(* enough for a full batch and a partial one.                              *)
EXTENDS MediaSessionController

MCMaxEntries == <<2, 1>>
=============================================================================
