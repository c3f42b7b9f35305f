------------------------------ MODULE MediaReaders ------------------------------
(***************************************************************************)
(* The ways in which a media file is read: for the grid of a scan, its      *)
(* dimensions (HeaderVisualMetadataReader); for the preview, its detail     *)
(* (read_media_detail), which tries one reader after the other, each        *)
(* opening the file again; and for the screen, its bytes                    *)
(* (respond_to_media_request).  The kind follows from the file's name, its  *)
(* content may be anything.                                                 *)
(***************************************************************************)
EXTENDS IsoBmff, Ebml, ImageHeader, Ogg, Flac, WavId3, MediaProtocol

CONSTANTS
  Inputs,       \* a sequence of files with the kind their names give them
  RangeHeader,  \* the Range headers of requests
  MaxServed     \* bound: the longest file that is requested

ASSUME RequestsAssumption ==
  /\ \A i \in 1 .. Len(Inputs) :
       /\ Inputs[i].kind \in {"audio", "video", "image"}
       /\ Inputs[i].file.len \in Nat
       /\ Inputs[i].file.format = "ebml" => IsEbml(Inputs[i].file)
       /\ Inputs[i].file.format = "jpeg" => IsJpeg(Inputs[i].file)
  /\ \A header \in RangeHeader : IsRangeValue(header)

VARIABLES
  input,    \* the number of the file
  visual,   \* the answer to the scan, or Unread
  pc,       \* the reader read_media_detail comes to
  detail,   \* its answer, or Unread
  request   \* a request of the media protocol and where it has come

readVars == <<visual, pc, detail>>
vars == <<input, readVars, request>>

kind == Inputs[input].kind
file == Inputs[input].file

Unread == <<"not", "yet", "read">>

NoRequest == [stage |-> "none"]

Readers == {"idle", "flac", "iso audio", "ogg", "tags", "video", "done"}

IsAnswer(a) == a = Unread \/ a = Error \/ Len(a) <= 1

TypeOK ==
  /\ input \in 1 .. Len(Inputs)
  /\ pc \in Readers
  /\ IsAnswer(visual) /\ IsAnswer(detail)
  /\ Found(visual) => visual[1].width > 0 /\ visual[1].height > 0
  /\ (pc = "done") = (detail # Unread)
  /\ (Found(detail) /\ kind = "audio") =>
        \A field \in {"title", "artist", "codec", "duration_ms"} : Len(detail[1][field]) <= 1

Init ==
  /\ input \in 1 .. Len(Inputs)
  /\ visual = Unread
  /\ pc = "idle" /\ detail = Unread
  /\ request = NoRequest

-----------------------------------------------------------------------------
(* The bytes of another format are no box that fits, no EBML header, and no *)
(* signature.                                                              *)
OfFormat(format, answer) == IF file.format = format THEN answer ELSE None

read_video_dimensions ==
  LET iso == OfFormat("iso", parse_iso_bmff(file))
  IN  IF file.len < 8 THEN None
      ELSE IF iso # None THEN iso
      ELSE OfFormat("ebml", ReadWebm(file))

\* Opening or reading the file may fail.
ReadVisual ==
  /\ visual = Unread
  /\ \/ visual' = CASE kind = "audio" -> None
                    [] kind = "video" -> read_video_dimensions
                    [] kind = "image" -> ReadImage(file)
     \/ kind # "audio" /\ visual' = Error
  /\ UNCHANGED <<input, pc, detail, request>>

-----------------------------------------------------------------------------
GetDetail ==
  /\ pc = "idle"
  /\ pc' = CASE kind = "audio" -> "flac" [] kind = "video" -> "video" [] OTHER -> "done"
  /\ detail' = IF kind = "image" THEN None ELSE Unread
  /\ UNCHANGED <<input, visual, request>>

\* A reader that answers, or fails, ends the request; None passes it on.
Try(reader, answer, next) ==
  /\ pc = reader
  /\ \E a \in {answer, Error} :
       IF a = None THEN pc' = next /\ UNCHANGED detail
                   ELSE pc' = "done" /\ detail' = a
  /\ UNCHANGED <<input, visual, request>>

FlacReader     == Try("flac", OfFormat("flac", read_flac_detail(file)), "iso audio")
IsoAudioReader == Try("iso audio", OfFormat("iso", read_iso_bmff_audio_detail(file)), "ogg")
OggReader      == Try("ogg", OfFormat("ogg", read_ogg_detail(file)), "tags")
TagReader      == Try("tags", Some(read_audio_detail(file)), "done")

\* A video without a movie box has the default detail.
VideoReader ==
  LET movie == OfFormat("iso", read_iso_bmff_detail(file, "vide"))
  IN  Try("video", IF movie = None THEN Some([duration_ms |-> None, codec |-> None]) ELSE movie, "done")

-----------------------------------------------------------------------------
(* respond_to_media_request, from the file its key resolves to.            *)

\* The file is opened and its length read, and the range parsed against it.
OpenServed ==
  /\ request.stage = "none" /\ file.len <= MaxServed
  /\ \E header \in RangeHeader, head_only \in BOOLEAN :
       LET range == parse_range(header, file.len)
           opened(stage, answer) ==
             request' = [stage |-> stage, header |-> header, head_only |-> head_only,
                         range |-> range, response |-> answer]
       IN  \/ \E status \in {Status.notFound, Status.failed} :
                opened("answered", Empty(status))
           \/ IF range = Error THEN opened("answered", Unsatisfiable(file.len))
                               ELSE opened("open", Unread)
  /\ UNCHANGED <<input, readVars>>

\* It is read; somebody may have written it since.
ReadServed ==
  /\ request.stage = "open"
  /\ \E now \in 0 .. MaxServed + 1 :
       \E answer \in {Body(request.range, file.len, now, request.head_only),
                      Empty(Status.failed)} :
         request' = [request EXCEPT !.stage = "answered", !.response = answer]
  /\ UNCHANGED <<input, readVars>>

Next ==
  \/ ReadVisual \/ GetDetail
  \/ FlacReader \/ IsoAudioReader \/ OggReader \/ TagReader \/ VideoReader
  \/ OpenServed \/ ReadServed

Spec == Init /\ [][Next]_vars

-----------------------------------------------------------------------------
(* Properties.                                                             *)

\* What the boxes of a kind in a track of an ISO file may say: their data, and
\* anything where the size of the box itself is wrong.
Says(f, track, box, type) ==
  {f.data[o] : o \in {o \in DOMAIN f.data : o \in track /\ f.data[o].type = type}}
    \cup (IF f.damaged \in track /\ f.header[f.damaged].kind = box
          THEN {f.stray[type]} ELSE {})

HasHandler(f, track, handler) ==
  \E h \in Says(f, track, "hdlr", "handler") : h.handler = handler

SizeOf(t) ==
  LET width  == fixed_16_16_to_pixels(t.width)
      height == fixed_16_16_to_pixels(t.height)
  IN  IF t.turned THEN [width |-> height, height |-> width]
                  ELSE [width |-> width, height |-> height]

IsSizeIn(f, size) ==
  \E track \in f.tracks :
    HasHandler(f, track, "vide") /\ \E t \in Says(f, track, "tkhd", "tkhd") : size = SizeOf(t)

IsCodecIn(f, codec, handler) ==
  \E track \in f.tracks :
    HasHandler(f, track, handler) /\ \E e \in Says(f, track, "stsd", "entry") : e.codec = codec

TracksKeptApart ==
  file.format = "iso" =>
    /\ (kind = "video" /\ Found(visual)) => IsSizeIn(file, visual[1])
    /\ (Found(detail) /\ kind # "image" /\ Found(detail[1].codec)) =>
         IsCodecIn(file, detail[1].codec[1], IF kind = "audio" THEN "soun" ELSE "vide")

\* Damage inside the tags of an ISO audio file leaves duration and codec what
\* they were meant to be, unless the file ends in the middle of a header: "Unknown/non-text
\* data types are ignored without disturbing duration/codec metadata"
\* (docs/IMPLEMENTATION_STATUS.md:125; isobmff_audio.rs:56-86).
DamageStaysLocal ==
  (kind = "audio" /\ file.format = "iso" /\ Found(detail) /\ file.damaged \in file.tagBytes) =>
    [codec |-> detail[1].codec, duration_ms |-> detail[1].duration_ms] = file.meant

\* What is read of the beginning of a file is what the whole of it says, or
\* nothing: an element, a number or a segment that the limit cuts is never
\* taken for a whole one; for other images 32 bytes are as good as all
\* (metadata/video.rs:17-36, metadata/header.rs:49-75).
ClippedIsSound ==
  Found(visual) \/ visual = None =>
    /\ file.format = "ebml" => visual \in {None, parse_ebml_video_dimensions(file, file.len)}
    /\ file.format = "jpeg" => visual \in {None, parse_jpeg(file, file.len)}
    /\ (kind = "image" /\ file.format # "jpeg") => visual = parse_dimensions(file, file.len)

OggStreamOnly ==
  (file.format = "ogg" /\ file.decoys = {} /\ pc = "done" /\ Found(detail)
     /\ detail[1].codec \in {Some("opus"), Some("vorbis")}) =>
    \E head \in {file.page[i] : i \in 1 .. Len(file.page)} :
      LET own   == {p \in {file.page[i] : i \in 1 .. Len(file.page)} : p.serial = head.serial}
          codec == identify_codec_from_page(head)
          says(key, value) ==
            \E p \in own : \E i \in 1 .. Len(p.piece) :
              /\ p.piece[i].packet.is \in {"OpusTags", "vorbisComments"}
              /\ [key |-> key, value |-> value] \in ToSet(p.piece[i].packet.comments)
          time  == detail[1].duration_ms
      IN  /\ head.bos /\ Found(codec) /\ detail[1].codec = Some(codec[1].name)
          /\ Found(detail[1].title)  => says("TITLE", detail[1].title[1])
          /\ Found(detail[1].artist) => says("ARTIST", detail[1].artist[1])
          /\ Found(time) => \E p \in own : time = duration_from_granule(codec[1], p.granule)

\* What is said of a file belongs together.  Of an ISO file it is said of one
\* track, wherever the file is cut off and whichever box has a damaged size; the
\* box damaged may itself say anything, but of its own track alone: a tkhd with a
\* wrong end is read at the wrong place (video.rs:161-181), and no check of the
\* code notices.  The dimensions for the grid are the size of a track that is
\* itself a video track, never the size of one and the handler of another
\* (metadata/video.rs:90).  The codec of a detail is the sample entry of a
\* track with the handler asked for: "Video tracks are explicitly ignored when
\* resolving an audio codec" (docs/IMPLEMENTATION_STATUS.md:123; detail.rs:167).
\* Of interleaved Ogg streams one is chosen, and codec, tags and duration are all
\* its own, unless payload bytes look like a page (metadata/ogg.rs:46-130).
NothingMixed == TracksKeptApart /\ OggStreamOnly

\* A partial answer of the media protocol is the bytes the header asks for, also
\* when the file is written between the reading of its length and of its bytes,
\* and a range is refused only when it names no byte (media_resource.rs:305-444).
RangeServed ==
  request.stage = "answered" =>
    AnswersRange(request.header, file.len, request.head_only, request.response)

=================================================================================
