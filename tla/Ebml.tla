---------------------------------- MODULE Ebml ----------------------------------
(***************************************************************************)
(* The dimensions of a WebM file (metadata/video.rs:272-485), read from     *)
(* the first bytes of the file only: elements may be cut by the limit.      *)
(*                                                                         *)
(* A file is its length, the element headers and the numbers in payloads,   *)
(* at their offsets.  Other bytes are zero, which starts no element.        *)
(***************************************************************************)
EXTENDS Containers, Integers, Sequences

CONSTANT WebmHeaderReadLimit   \* WEBM_HEADER_READ_LIMIT

ASSUME WebmHeaderReadLimitAssumption == WebmHeaderReadLimit \in Nat

MaxU32 == 2000000   \* u32::MAX, scaled to TLC's integers
Unknown == -1       \* the size of all ones

\* Header lengths are positive, and sizes are those that an element can state.
IsEbml(f) ==
    /\ f.len \in Nat
    /\ \A o \in DOMAIN f.element :
         f.element[o].header \in Nat \ {0} /\ f.element[o].size \in Nat \cup {Unknown}

\* A header that does not fit, or none, ends the walk; a payload that does not
\* fit is clipped, and the element is not complete.
read_ebml_element(f, cursor, parentEnd) ==
    IF cursor \notin DOMAIN f.element THEN [kind |-> "malformed"]
    ELSE LET e     == f.element[cursor]
             start == cursor + e.header
             end   == IF e.size = Unknown THEN parentEnd ELSE start + e.size
         IN  IF start > parentEnd THEN [kind |-> "malformed"]
             ELSE [kind          |-> e.id,
                   payload_start |-> start,
                   payload_end   |-> IF end < parentEnd THEN end ELSE parentEnd,
                   complete      |-> e.size # Unknown /\ end <= parentEnd,
                   unknown_size  |-> e.size = Unknown]

Elements(f, start, end) ==
    LET walk[at \in start .. end] ==
          LET e == read_ebml_element(f, at, end)
          IN  IF at >= end THEN <<>>
              ELSE IF e.kind = "malformed" \/ e.unknown_size \/ e.payload_end <= at THEN <<e>>
              ELSE <<e>> \o walk[e.payload_end]
    IN  IF start > end THEN <<>> ELSE walk[start]

Within(f, element) == Elements(f, element.payload_start, element.payload_end)

Number(f, offset) == IF offset \in DOMAIN f.value THEN f.value[offset] ELSE 0

\* Faulty: a number of which the last byte is cut is read without it.
BugPartialNumber(f, element) ==
    IF element.complete THEN Some(Number(f, element.payload_start))
    ELSE Some(Number(f, element.payload_start) \div 256)

\* Up to eight bytes, all of them there.
read_ebml_uint(f, element) ==
    IF element.complete /\ (element.payload_end - element.payload_start) \in 1 .. 8
    THEN Some(Number(f, element.payload_start)) ELSE None

ReadU32(f, element) ==
    LET number == read_ebml_uint(f, element)
    IN  IF Found(number) /\ number[1] <= MaxU32 THEN number ELSE None

parse_video_element(f, video) ==
    LET walk      == Within(f, video)
        width(n)  == Latest(walk, n, "PixelWidth",  LAMBDA e : ReadU32(f, e), None)
        height(n) == Latest(walk, n, "PixelHeight", LAMBDA e : ReadU32(f, e), None)
    IN  Until(walk, LAMBDA n : Found(width(n)) /\ Found(height(n)),
              LAMBDA n : Dimensions(width(n)[1], height(n)[1]))

parse_track_entry(f, entry) ==
    LET walk    == Within(f, entry)
        type(n) == Latest(walk, n, "TrackType", LAMBDA e : read_ebml_uint(f, e), None)
        size(n) == Latest(walk, n, "Video", LAMBDA e : parse_video_element(f, e), None)
    IN  Until(walk, LAMBDA n : type(n) = Some(1) /\ size(n) # None, size)

parse_tracks(f, tracks) ==
    FirstFound(Within(f, tracks), "TrackEntry", LAMBDA entry : parse_track_entry(f, entry))

parse_segment(f, segment) ==
    FirstFound(Within(f, segment), "Tracks", LAMBDA tracks : parse_tracks(f, tracks))

\* data is the beginning of the file, up to length.
parse_ebml_video_dimensions(f, length) ==
    LET walk == Elements(f, 0, length)
    IN  IF walk # <<>> /\ walk[1].kind = "EBML" /\ walk[1].complete
        THEN First(Tail(walk), "Segment", LAMBDA segment : parse_segment(f, segment))
        ELSE None

\* What the scan reads of the file.
ReadWebm(f) ==
    parse_ebml_video_dimensions(f,
        IF f.len < WebmHeaderReadLimit THEN f.len ELSE WebmHeaderReadLimit)

=================================================================================
