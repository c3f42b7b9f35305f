-------------------------------- MODULE IsoBmff ---------------------------------
(***************************************************************************)
(* The three readers of ISO media files: the dimensions for a scan          *)
(* (metadata/video.rs), the detail of a video (metadata/detail.rs) and of   *)
(* an audio file (metadata/isobmff_audio.rs).                               *)
(*                                                                         *)
(* A file is its length, the box headers and the data at their offsets.     *)
(* What the bytes say at any other offset, where a damaged size may lead,   *)
(* is the file's own matter (stray): they are zeros, or parts of the data   *)
(* and headers around them, such as a word of a matrix read as a width.     *)
(* Only the kind of a box is not met by chance.  The readers' bound of      *)
(* 100,000 boxes is not reached.                                            *)
(***************************************************************************)
EXTENDS Containers, IsoBox, Sequences, FiniteSetsExt

CONSTANT MaxTextTagBytes    \* MAX_TEXT_TAG_BYTES

ASSUME MaxTextTagBytesAssumption == MaxTextTagBytes \in Nat

Header(f, offset) ==
    IF offset \in DOMAIN f.header THEN f.header[offset] ELSE f.stray.header

\* What is read at an offset as data of a type.
Data(f, offset, type) ==
    IF offset \in DOMAIN f.data /\ f.data[offset].type = type
    THEN f.data[offset] ELSE f.stray[type]

\* The loop every reader runs over the boxes in start .. end.
Boxes(f, start, end, checked) ==
    LET walk[at \in start .. end] ==
          LET box == ReadIsoBox(Header(f, at), at, end, f.len, checked)
          IN  CASE at + 8 > end                 -> <<>>
                [] box \in {Malformed, Missing} -> <<box>>
                [] OTHER                        -> <<box>> \o walk[box.end]
    IN  IF start > end THEN <<>> ELSE walk[start]

Inside(f, box, checked) == Boxes(f, box.payload_start, box.end, checked)

HandlerIs(f, hdlr, handler) ==
    /\ hdlr.payload_start + 12 <= hdlr.end
    /\ Data(f, hdlr.payload_start + 8, "handler").handler = handler

-----------------------------------------------------------------------------
(* video.rs                                                                *)

fixed_16_16_to_pixels(value) == (value + 32768) \div 65536

\* The matrix and the size are the last 44 bytes before the end the box claims.
read_tkhd_dimensions(f, tkhd) ==
    LET tail   == Data(f, tkhd.end - 44, "tkhd")
        width  == fixed_16_16_to_pixels(tail.width)
        height == fixed_16_16_to_pixels(tail.height)
    IN  CASE tkhd.end - tkhd.payload_start < 44 -> None
          [] tail.turned -> Dimensions(height, width)
          [] OTHER       -> Dimensions(width, height)

parse_mdia_is_video(f, mdia) ==
    LET walk == Inside(f, mdia, TRUE)
        hdlr == At(walk, "hdlr")
    IN  hdlr # {} /\ HandlerIs(f, walk[Min(hdlr)], "vide")

parse_trak(f, trak) ==
    LET walk       == Inside(f, trak, TRUE)
        size(n)    == Latest(walk, n, "tkhd", LAMBDA b : read_tkhd_dimensions(f, b), None)
        isVideo(n) == Latest(walk, n, "mdia", LAMBDA b : parse_mdia_is_video(f, b), FALSE)
    IN  Until(walk, LAMBDA n : isVideo(n) /\ size(n) # None, size)

parse_iso_bmff(f) ==
    First(Boxes(f, 0, f.len, TRUE), "moov",
          LAMBDA moov : FirstFound(Inside(f, moov, TRUE), "trak",
                                   LAMBDA trak : parse_trak(f, trak)))

-----------------------------------------------------------------------------
(* detail.rs and isobmff_audio.rs                                          *)

\* Four bytes are read before the box is known to have them.
read_mvhd_duration(f, mvhd) ==
    LET m == Data(f, mvhd.payload_start, "mvhd")
    IN  CASE mvhd.payload_start + 4 > f.len -> Error
          [] mvhd.payload_start + (IF m.version = 1 THEN 32 ELSE 20) > mvhd.end -> None
          [] m.timescale = 0 -> None
          [] OTHER           -> Milliseconds(m.duration, m.timescale)

read_stbl_codec(f, stbl) ==
    First(Inside(f, stbl, FALSE), "stsd",
          LAMBDA stsd : IF stsd.payload_start + 16 > stsd.end THEN None
                        ELSE Some(Data(f, stsd.payload_start + 12, "entry").codec))

read_minf_codec(f, minf) ==
    First(Inside(f, minf, FALSE), "stbl", LAMBDA stbl : read_stbl_codec(f, stbl))

\* Faulty: the handler is not asked for.
BugAnyHandler(f, mdia, handler) ==
    LET walk == Inside(f, mdia, FALSE)
        minf == At(walk, "minf")
    IN  CASE Failed(walk) -> Error
          [] minf # {}    -> read_minf_codec(f, walk[Max(minf)])
          [] OTHER        -> None

\* Here the whole box is walked, and the last handler and minf count.
read_mdia_codec(f, mdia, handler) ==
    LET walk  == Inside(f, mdia, FALSE)
        whole == Len(walk)
        minf  == At(walk, "minf")
    IN  CASE Failed(walk) -> Error
          [] minf # {} /\ Latest(walk, whole, "hdlr",
                                 LAMBDA b : HandlerIs(f, b, handler), FALSE) ->
               read_minf_codec(f, walk[Max(minf)])
          [] OTHER -> None

read_track_codec(f, trak, handler) ==
    First(Inside(f, trak, FALSE), "mdia", LAMBDA mdia : read_mdia_codec(f, mdia, handler))

\* Duration and codec of the movie.
read_moov(f, moov, handler) ==
    LET walk     == Inside(f, moov, FALSE)
        duration == Latest(walk, Len(walk), "mvhd", LAMBDA b : read_mvhd_duration(f, b), None)
        codec    == FirstFound(walk, "trak", LAMBDA b : read_track_codec(f, b, handler))
        failed   == \E i \in At(walk, "mvhd") : read_mvhd_duration(f, walk[i]) = Error
    IN  IF Failed(walk) \/ failed \/ codec = Error THEN Error
        ELSE Some([duration_ms |-> duration, codec |-> codec])

read_iso_bmff_detail(f, handler) ==
    First(Boxes(f, 0, f.len, FALSE), "moov", LAMBDA moov : read_moov(f, moov, handler))

\* What is left of the text when NULs and blanks are trimmed.
read_text_data(f, data) ==
    LET d      == Data(f, data.payload_start, "text")
        length == data.end - (data.payload_start + 8)
    IN  IF /\ data.payload_start + 8 < data.end /\ length <= MaxTextTagBytes
           /\ d.format \in {1, 2} /\ d.text \notin {"blank", "undecodable"}
        THEN Some(d.text) ELSE None

read_text_item(f, item) ==
    First(Inside(f, item, FALSE), "data", LAMBDA data : read_text_data(f, data))

\* The walk stops when both are there; an error before that spoils all.
read_ilst_tags(f, ilst) ==
    LET walk   == Inside(f, ilst, FALSE)
        tag(k) == FirstFound(walk, k, LAMBDA item : read_text_item(f, item))
    IN  IF Error \in {tag("nam"), tag("ART")}
           \/ (Failed(walk) /\ ~(Found(tag("nam")) /\ Found(tag("ART"))))
        THEN Error ELSE Some([title |-> tag("nam"), artist |-> tag("ART")])

\* meta starts with four bytes of version and flags.
read_itunes_tags(f, udta) ==
    First(Inside(f, udta, FALSE), "meta",
          LAMBDA meta : First(Boxes(f, meta.payload_start + 4, meta.end, FALSE), "ilst",
                              LAMBDA ilst : read_ilst_tags(f, ilst)))

\* Faulty: without tags there is no detail.
BugTagsRequired(f) ==
    LET movie == read_iso_bmff_detail(f, "soun")
        tags  == First(Boxes(f, 0, f.len, FALSE), "moov",
                       LAMBDA moov : First(Inside(f, moov, FALSE), "udta",
                                           LAMBDA udta : read_itunes_tags(f, udta)))
    IN  CASE ~Found(movie) -> movie
          [] ~Found(tags)  -> tags
          [] OTHER -> Some([duration_ms |-> movie[1].duration_ms, codec |-> movie[1].codec,
                            title |-> tags[1].title, artist |-> tags[1].artist])

read_iso_bmff_audio_detail(f) ==
    LET movie == read_iso_bmff_detail(f, "soun")
        tags  == First(Boxes(f, 0, f.len, FALSE), "moov",
                       LAMBDA moov : First(Inside(f, moov, FALSE), "udta",
                                           LAMBDA udta : read_itunes_tags(f, udta)))
        tag(t) == IF Found(tags) THEN tags[1][t] ELSE None
    IN  CASE ~Found(movie) -> movie
          [] tags = Error  -> Error
          [] OTHER -> Some([duration_ms |-> movie[1].duration_ms, codec |-> movie[1].codec,
                            title |-> tag("title"), artist |-> tag("artist")])

=================================================================================
