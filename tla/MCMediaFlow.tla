------------------------------- MODULE MCMediaFlow --------------------------------
(***************************************************************************)
(* Five items: two images so tall that the gaps of a narrow row use up its  *)
(* width before they do, an image without a size, a wide video, another     *)
(* image.  The order by name mixes them, and the widths have one, two and    *)
(* three columns.                                                          *)
(***************************************************************************)
EXTENDS MediaFlow

MCKindOf   == <<"image", "image", "image", "video", "image">>
MCRankOf   == [name_desc |-> <<3, 1, 5, 4, 2>>]
MCKindSet  == {{"image", "video"}, {"image"}, {"video"}}
MCWidthOf  == <<1, 1, 0, 16, 2>>
MCHeightOf == <<50, 50, 1, 10, 3>>

==================================================================================
