---------------------------------- MODULE Flac ----------------------------------
(***************************************************************************)
(* The detail of a FLAC file (metadata/flac.rs): its metadata blocks in     *)
(* order, up to the one marked last.                                        *)
(***************************************************************************)
EXTENDS VorbisComment

CONSTANTS
  MaxMetadataBlocks,       \* MAX_METADATA_BLOCKS
  MaxVorbisCommentBytes    \* MAX_VORBIS_COMMENT_BYTES

StreaminfoBytes == 34

\* The blocks read_flac_detail visits.
Visited(f) ==
    LET ends(i)  == i <= Len(f.block) /\ f.block[i].last
        until(n) == n <= MaxMetadataBlocks /\ ends(n) /\ \A i \in 1 .. n - 1 : ~ends(i)
    IN  IF \E n \in 1 .. Len(f.block) : until(n)
        THEN SubSeq(f.block, 1, CHOOSE n \in 1 .. Len(f.block) : until(n))
        ELSE <<>>

\* A comment block over the limit is passed over.
ReadsComments(block) == block.type = 4 /\ block.len <= MaxVorbisCommentBytes

BlockFails(block) ==
    \/ block.type = 0 /\ (block.len < StreaminfoBytes \/ block.cut)
    \/ ReadsComments(block) /\ block.cut

TakeBlock(detail, block) ==
    CASE block.type = 0 /\ block.sample_rate > 0 ->
           [detail EXCEPT !.duration_ms = Milliseconds(block.samples, block.sample_rate)]
      [] ReadsComments(block) ->
           LET tags == read_vorbis_comments(block.comments,
                                            [title |-> detail.title, artist |-> detail.artist])
           IN  [detail EXCEPT !.title = tags.title, !.artist = tags.artist]
      [] OTHER -> detail

\* Without a last block the file ends, or there are too many.
read_flac_detail(f) ==
    LET blocks == Visited(f)
    IN  CASE f.format # "flac" -> None
          [] blocks = <<>> \/ (\E i \in 1 .. Len(blocks) : BlockFails(blocks[i])) -> Error
          [] OTHER -> Some(FoldLeft(TakeBlock,
                                    [duration_ms |-> None, codec |-> Some("flac"),
                                     title |-> None, artist |-> None], blocks))

=================================================================================
