----------------------------- MODULE MCMediaPreview ------------------------------
(***************************************************************************)
(* Two sources of a video and a sound each; the other order turns them      *)
(* round, the other filter hides the video.                                 *)
(***************************************************************************)
EXTENDS MediaPreview

MCKindOf  == <<"video", "audio">>
MCRankOf  == [name_desc |-> <<2, 1>>]
MCKindSet == {{"video", "audio"}, {"audio"}}

==================================================================================
