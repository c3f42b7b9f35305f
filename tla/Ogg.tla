---------------------------------- MODULE Ogg -----------------------------------
(***************************************************************************)
(* The detail of an Ogg file (metadata/ogg.rs): the streams of a file are   *)
(* interleaved page by page, a packet may span pages, and the duration is   *)
(* found in the last bytes of the file.                                     *)
(*                                                                         *)
(* A page is the pieces of packets it carries: a piece has the packet it    *)
(* belongs to, a size, and whether the packet ends with it.  A decoy is a   *)
(* run of payload bytes that reads as a page.                               *)
(***************************************************************************)
EXTENDS VorbisComment, Integers, FiniteSetsExt

CONSTANTS
  MaxHeaderPages,    \* MAX_HEADER_PAGES
  MaxPacketBytes,    \* MAX_PACKET_BYTES
  TailWindowBytes    \* TAIL_WINDOW_BYTES

ASSUME OggLimitsAssumption ==
  MaxHeaderPages \in Nat /\ MaxPacketBytes \in Nat /\ TailWindowBytes \in Nat

NoGranule == -1      \* u64::MAX: no packet ends on the page
PageHeader == 27

\* The whole pages read_page yields before it stops, and whether it failed.
ReadPages(f) ==
    LET whole(i) == \A j \in 1 .. i : f.page[j].form = "whole"
        n        == Max({i \in 0 .. Len(f.page) : whole(i)})
    IN  SubSeq(f.page, 1, IF n < MaxHeaderPages THEN n ELSE MaxHeaderPages)

PageCut(f) == LET next == Len(ReadPages(f)) + 1
              IN  next <= MaxHeaderPages /\ next <= Len(f.page) /\ f.page[next].form = "cut"

\* The packet that ends first on the page, if it identifies a codec.
identify_codec_from_page(page) ==
    IF (\E i \in 1 .. Len(page.piece) : page.piece[i].ends)
    THEN LET packet == page.piece[1].packet
         IN  CASE packet.is = "OpusHead" -> Some([name |-> "opus", pre_skip |-> packet.number])
               [] packet.is = "vorbisHead" /\ packet.number > 0 ->
                    Some([name |-> "vorbis", sample_rate |-> packet.number])
               [] OTHER -> None
    ELSE None

IsComments(packet, codec) ==
    packet.is = IF codec.name = "opus" THEN "OpusTags" ELSE "vorbisComments"

\* One lacing value of the selected stream: the packet is what it began with.
TakePiece(s, piece) ==
    LET packet == IF s.packet = None THEN piece.packet ELSE s.packet[1]
    IN  CASE s.failed -> s
          [] s.size + piece.size > MaxPacketBytes -> [s EXCEPT !.failed = TRUE]
          [] ~piece.ends ->
               [s EXCEPT !.packet = Some(packet), !.size = @ + piece.size]
          [] IsComments(packet, s.codec[1]) ->
               [s EXCEPT !.packet = None, !.size = 0, !.sawComments = TRUE,
                         !.tags = read_vorbis_comments(packet.comments, @)]
          [] OTHER -> [s EXCEPT !.packet = None, !.size = 0]

\* One page of the header loop, which the comments end.
TakePage(s, page) ==
    CASE s.sawComments \/ s.failed -> s
      [] s.serial = Some(page.serial) -> FoldLeft(TakePiece, s, page.piece)
      [] s.serial = None /\ page.bos /\ identify_codec_from_page(page) # None ->
           FoldLeft(TakePiece, [s EXCEPT !.serial = Some(page.serial),
                                         !.codec  = identify_codec_from_page(page)],
                    page.piece)
      [] OTHER -> s

Nothing == [serial |-> None, codec |-> None, packet |-> None, size |-> 0,
            tags |-> NoTags, sawComments |-> FALSE, failed |-> FALSE]

Headers(f) == FoldLeft(TakePage, Nothing, ReadPages(f))

\* Every "OggS" of the tail is tried as a page; one that does not fit, or has
\* another version, is passed over by a byte.
read_final_granule(f, serial) ==
    LET window == IF f.len < TailWindowBytes THEN f.len ELSE TailWindowBytes
        syncs  == {f.page[i] : i \in 1 .. Len(f.page)} \cup f.decoys
        scan[at \in f.len - window .. f.len] ==
          LET ahead == {p \in syncs : p.at >= at}
              next  == CHOOSE p \in ahead : \A q \in ahead : p.at <= q.at
              fits  == next.form = "whole" /\ next.at + next.len <= f.len
              later == scan[IF fits THEN next.at + next.len ELSE next.at + 1]
          IN  CASE at + PageHeader > f.len \/ ahead = {} -> None
                [] later # None -> later
                [] fits /\ next.serial = serial /\ next.granule # NoGranule ->
                     Some(next.granule)
                [] OTHER -> None
    IN  scan[f.len - window]

duration_from_granule(codec, granule) ==
    LET samples == IF codec.name = "opus" THEN granule - codec.pre_skip ELSE granule
        rate    == IF codec.name = "opus" THEN 48000 ELSE codec.sample_rate
    IN  IF samples < 0 THEN None ELSE Milliseconds(samples, rate)

read_ogg_detail(f) ==
    LET s       == Headers(f)
        granule == read_final_granule(f, s.serial[1])
    IN  CASE f.len < PageHeader -> None
          [] s.failed \/ (~s.sawComments /\ PageCut(f)) -> Error
          [] s.serial = None -> None
          [] OTHER ->
               Some([duration_ms |-> IF granule = None THEN None
                                     ELSE duration_from_granule(s.codec[1], granule[1]),
                     codec  |-> Some(s.codec[1].name),
                     title  |-> s.tags.title,
                     artist |-> s.tags.artist])

=================================================================================
