------------------------------ MODULE VorbisComment ------------------------------
(***************************************************************************)
(* What ogg.rs and flac.rs read alike: the comments of a stream, of which   *)
(* the list holds those whose lengths fit.                                  *)
(***************************************************************************)
EXTENDS Containers, Naturals, SequencesExt

NoTags == [title |-> None, artist |-> None]

\* The first comment with a value counts; what is not text, has no "=" or is
\* blank is passed over.
TakeComment(tags, comment) ==
    CASE comment.value \in {"blank", "undecodable"} -> tags
      [] comment.key = "TITLE" /\ tags.title = None   -> [tags EXCEPT !.title = Some(comment.value)]
      [] comment.key = "ARTIST" /\ tags.artist = None -> [tags EXCEPT !.artist = Some(comment.value)]
      [] OTHER -> tags

read_vorbis_comments(comments, tags) == FoldLeft(TakeComment, tags, comments)

===================================================================================
