----------------------------- MODULE MCMediaReaders -----------------------------
(***************************************************************************)
(* Files for the readers: a few of each format, and of each those in which  *)
(* one size is wrong, the end is missing, or a limit falls elsewhere.       *)
(***************************************************************************)
EXTENDS MediaReaders

\* A box: own bytes before its children, of which one datum at an offset.
Node(k, own, children) == [kind |-> k, own |-> own, at |-> 0, datum |-> None, children |-> children]
Leaf(k, own, at, datum) == [kind |-> k, own |-> own, at |-> at, datum |-> Some(datum), children |-> <<>>]

RECURSIVE Size(_, _)
Size(box, head) ==
  FoldLeft(LAMBDA n, c : n + Size(c, head), head + box.own, box.children)

RECURSIVE Ascending(_)
Ascending(S) == IF S = {} THEN <<>> ELSE <<Min(S)>> \o Ascending(S \ {Min(S)})

\* Where each box begins: pairs of an offset and the box.
RECURSIVE Places(_, _, _)
Places(boxes, at, head) ==
  IF boxes = <<>> THEN {}
  ELSE LET box == boxes[1]
       IN  {<<at, box>>} \cup Places(box.children, at + head + box.own, head)
             \cup Places(Tail(boxes), at + Size(box, head), head)

Total(boxes, head) == FoldLeft(LAMBDA n, b : n + Size(b, head), 0, boxes)

\* The span of the boxes of some kinds.
Spans(boxes, head, kinds) ==
  {p[1] .. p[1] + Size(p[2], head) - 1 : p \in {q \in Places(boxes, 0, head) : q[2].kind \in kinds}}

Where(places) == {p[1] : p \in places}
BoxAt(places, o) == (CHOOSE p \in places : p[1] = o)[2]

-----------------------------------------------------------------------------
(* ISO media files.                                                        *)
Tkhd(w, h, turned) == Leaf("tkhd", 48, 4, [type |-> "tkhd", width |-> w * 65536, height |-> h * 65536,
                                            turned |-> turned])
Hdlr(h) == Leaf("hdlr", 12, 8, [type |-> "handler", handler |-> h])
Minf(c) == Node("minf", 0, <<Node("stbl", 0, <<Leaf("stsd", 16, 12, [type |-> "entry", codec |-> c])>>)>>)
Trak(t, m) == Node("trak", 0, <<t, Node("mdia", 0, m)>>)
Mvhd(scale, d) == Leaf("mvhd", 20, 0, [type |-> "mvhd", version |-> 0, timescale |-> scale, duration |-> d])
Text(k, format, t) == Node(k, 0, <<Leaf("data", 12, 0, [type |-> "text", format |-> format, text |-> t])>>)
Udta(items) == Node("udta", 0, <<Node("meta", 4, <<Node("ilst", 0, items)>>)>>)
Tags == Udta(<<Text("nam", 3, "cover"), Text("ART", 1, "artist"), Text("nam", 2, "title")>>)
Sound == Trak(Tkhd(0, 0, FALSE), <<Hdlr("soun"), Minf("mp4a")>>)

IsoTrees == <<
  <<Node("ftyp", 8, <<>>),
    Node("moov", 0, <<Mvhd(2, 5), Sound, Trak(Tkhd(4, 3, FALSE), <<Hdlr("vide"), Minf("avc1")>>), Tags>>)>>,
  <<Node("moov", 0, <<Trak(Tkhd(2, 1, FALSE), <<Hdlr("text"), Minf("tx3g")>>),
                      Trak(Tkhd(4, 3, TRUE), <<Minf("avc1"), Hdlr("vide")>>), Sound, Mvhd(0, 1), Tags>>),
    Node("free", 4, <<>>)>>,
  <<Node("moov", 0, <<Tags, Mvhd(1, 99),
                      Node("trak", 0, <<Node("mdia", 0, <<Hdlr("vide"), Hdlr("soun"), Minf("both")>>),
                                        Tkhd(6, 7, FALSE)>>),
                      Trak(Tkhd(0, 5, FALSE), <<Hdlr("vide"), Minf("hvc1")>>), Sound>>)>> >>

\* What an audio reader should find in each: a timescale of 0 is no duration,
\* one of more milliseconds than a u64 is none either, and of two handlers in a
\* track the last counts.
Meant == <<[codec |-> Some("mp4a"), duration_ms |-> Some(2500)],
           [codec |-> Some("mp4a"), duration_ms |-> None],
           [codec |-> Some("both"), duration_ms |-> None]>>

\* What bytes say that are read at a wrong place: they are zeros, or as
\* misleading as they can be: the matrix word 1.0 as a width, another handler, a
\* box of nine bytes that moves all that follow.
Zeros == [header  |-> [size32 |-> 0, size64 |-> 0, kind |-> "stray"],
          tkhd    |-> [width |-> 0, height |-> 0, turned |-> FALSE],
          handler |-> [handler |-> "none"],
          mvhd    |-> [version |-> 0, timescale |-> 0, duration |-> 0],
          entry   |-> [codec |-> "zeros"],
          text    |-> [format |-> 0, text |-> "blank"]]
MisleadingVideo ==
         [header  |-> [size32 |-> 9, size64 |-> 0, kind |-> "stray"],
          tkhd    |-> [width |-> 1073741824, height |-> 4 * 65536, turned |-> FALSE],
          handler |-> [handler |-> "vide"],
          mvhd    |-> [version |-> 1, timescale |-> 3, duration |-> 7],
          entry   |-> [codec |-> "stray"],
          text    |-> [format |-> 1, text |-> "stray"]]
MisleadingAudio == [MisleadingVideo EXCEPT !.handler = [handler |-> "soun"]]

\* The file of a tree as it should be.
IsoFile(tree, meant) ==
  LET places == Places(tree, 0, 8)
      header == [o \in Where(places) |-> [size32 |-> Size(BoxAt(places, o), 8), size64 |-> 0,
                                          kind |-> BoxAt(places, o).kind]]
      data   == {p \in places : p[2].datum # None}
      at(p)  == p[1] + 8 + p[2].at
  IN  [format  |-> "iso", len |-> Total(tree, 8), meant |-> meant, stray |-> Zeros, header |-> header,
       data    |-> [o \in {at(p) : p \in data} |-> (CHOOSE p \in data : at(p) = o)[2].datum[1]],
       tracks  |-> Spans(tree, 8, {"trak"}),
       damaged |-> -1,
       tagBytes |-> UNION {s \ {Min(s)} : s \in Spans(tree, 8, {"udta"})}]

\* The sizes given to a box of another size, and what the bytes at wrong places
\* say then.
Sizes(box) ==
  LET size == box.size32
  IN  <<<<0, 0, Zeros>>, <<1, size, Zeros>>, <<1, 4, Zeros>>, <<1, 1000000, Zeros>>,
        <<7, 0, Zeros>>, <<size - 4, 0, Zeros>>, <<size + 8, 0, Zeros>>,
        <<size + 60, 0, Zeros>>, <<8, 0, Zeros>>,
        <<0, 0, MisleadingVideo>>, <<1, size + 24, MisleadingVideo>>,
        <<size - 4, 0, MisleadingVideo>>, <<size + 8, 0, MisleadingVideo>>,
        <<8, 0, MisleadingVideo>>, <<1, size + 24, MisleadingAudio>>>>

Damaged(f, o, size) ==
  [f EXCEPT !.header[o].size32 = size[1], !.header[o].size64 = size[2],
            !.damaged = o, !.stray = size[3]]

\* One size field of the file takes another value, or the end is missing.
Variants(f) ==
  LET offsets == Ascending(DOMAIN f.header)
  IN  <<f>> \o [c \in 1 .. 20 |-> [f EXCEPT !.len = @ - 7 * c]]
        \o FlattenSeq([i \in 1 .. Len(offsets) |->
             LET sizes == Sizes(f.header[offsets[i]])
             IN  [j \in 1 .. Len(sizes) |-> Damaged(f, offsets[i], sizes[j])]])

IsoFiles == FlattenSeq([t \in 1 .. Len(IsoTrees) |-> Variants(IsoFile(IsoTrees[t], Meant[t]))])

-----------------------------------------------------------------------------
(* WebM files: a filler moves the limit through the tracks.                 *)
Num(k, n)  == Leaf(k, 2, 0, n)
Entry(t, w, h) == Node("TrackEntry", 0, <<Num("TrackType", t),
                    Node("Video", 0, <<Num("PixelWidth", w), Num("PixelHeight", h)>>)>>)

WebmFile(filler, unknown, tracks) ==
  LET tree == <<Node("EBML", 4, <<>>),
                Node("Segment", 0, <<Node("Void", filler, <<>>), Node("Tracks", 0, tracks)>>)>>
      places == Places(tree, 0, 2)
      value  == {p \in places : p[2].datum # None}
  IN  [format  |-> "ebml", len |-> Total(tree, 2),
       element |-> [o \in Where(places) |->
                     [id |-> BoxAt(places, o).kind, header |-> 2,
                      size |-> IF BoxAt(places, o).kind = unknown THEN Unknown
                               ELSE Size(BoxAt(places, o), 2) - 2]],
       value   |-> [o \in {p[1] + 2 : p \in value} |->
                     (CHOOSE p \in value : p[1] + 2 = o)[2].datum[1]]]

WebmFiles ==
  [i \in 1 .. 93 |->
    WebmFile(i % 31, IF i < 32 THEN "Segment" ELSE IF i < 63 THEN "TrackEntry" ELSE "none",
             IF i % 2 = 0 THEN <<Entry(2, 1, 1), Entry(1, 640, 480)>>
                          ELSE <<Entry(1, 0, 480), Entry(1, 320, 2000001), Entry(1, 300, 256)>>)]

-----------------------------------------------------------------------------
(* Images.                                                                 *)
Formats == <<"png", "gif", "bmpCore", "bmpInfo", "vp8x", "vp8l", "vp8">>
Headers32 ==
  [i \in 1 .. 28 |-> [format |-> Formats[(i % 7) + 1], len |-> 4 * (i % 10) + 4,
                      width |-> IF i > 21 THEN 0 ELSE 16385, height |-> IF i % 7 = 3 /\ i % 2 = 0 THEN -3 ELSE 3]]

M(k, l, w, h) == [kind |-> k, length |-> l, width |-> w, height |-> h]
Jpegs ==
  [i \in 1 .. 40 |->
    LET app == 2 + (i % 20)
    IN  [format |-> "jpeg", len |-> 24 + app,
         marker |-> (2 :> M("other", app, 0, 0)) @@ (4 + app :> M("standalone", 0, 0, 0))
                      @@ (7 + app :> IF i < 21 THEN M("sof", 11, 7, 8) ELSE M("end", 0, 0, 0))
                      @@ (12 + app :> M("sof", 7, 5, 0))]]

-----------------------------------------------------------------------------
(* Ogg files.                                                              *)
Packet(is, n, comments) == [is |-> is, number |-> n, comments |-> comments]
Part(p, size, ends) == [packet |-> p, size |-> size, ends |-> ends]
C(k, v) == [key |-> k, value |-> v]

Theora  == Packet("theora", 0, <<>>)
TheoraComments == Packet("vorbisComments", 0, <<C("TITLE", "of the video")>>)
Opus    == Packet("OpusHead", 4, <<>>)
OpusTags == Packet("OpusTags", 0, <<C("TITLE", "blank"), C("ARTIST", "artist"), C("TITLE", "song"), C("TITLE", "other")>>)
Vorbis(rate) == Packet("vorbisHead", rate, <<>>)
VorbisComments == Packet("vorbisComments", 0, <<C("x", "y"), C("TITLE", "song")>>)
Audio   == Packet("audio", 0, <<>>)

Page(serial, bos, granule, size, pieces) ==
  [serial |-> serial, bos |-> bos, granule |-> granule, len |-> size, piece |-> pieces, form |-> "whole"]

\* Pages laid out one after the other.
OggFile(pages, decoys) ==
  LET at[i \in 1 .. Len(pages) + 1] == IF i = 1 THEN 0 ELSE at[i - 1] + pages[i - 1].len
  IN  [format |-> "ogg", len |-> at[Len(pages) + 1],
       page   |-> [i \in 1 .. Len(pages) |-> [at |-> at[i]] @@ pages[i]],
       decoys |-> {[at |-> at[d[1]] + 30] @@ Page(d[2], FALSE, 77, 40, <<>>) : d \in decoys}]

OggPages(head, tags, tail) ==
  <<Page(9, TRUE, 0, 30, <<Part(Theora, 30, TRUE)>>),
    Page(7, TRUE, 0, 40, <<Part(head, 30, TRUE)>>),
    Page(9, FALSE, 0, 40, <<Part(TheoraComments, 30, TRUE)>>),
    Page(7, FALSE, NoGranule, 60, <<Part(tags, 50, FALSE)>>),
    Page(9, FALSE, 5, 50, <<Part(TheoraComments, 30, TRUE)>>),
    Page(7, FALSE, 0, 60, <<Part(tags, 30, TRUE), Part(Audio, 20, FALSE)>>),
    Page(7, FALSE, 44, 60, <<Part(Audio, 20, TRUE)>>),
    Page(9, FALSE, 60, tail, <<Part(Audio, 20, TRUE)>>),
    Page(7, FALSE, IF tail > 60 THEN 50 ELSE NoGranule, 40, <<Part(Audio, 20, TRUE)>>)>>

OggFiles ==
  FlattenSeq([t \in 1 .. 6 |->
    LET heads == <<Opus, Vorbis(8), Vorbis(0)>>
        tags  == <<OpusTags, VorbisComments, VorbisComments>>
    IN  FlattenSeq([h \in 1 .. 3 |->
          LET pages == OggPages(heads[h], tags[h], 28 * t)
          IN  <<OggFile(pages, {}), OggFile(pages, {<<7, 7>>, <<8, 9>>}),
                OggFile([pages EXCEPT ![4].form = "cut"], {}),
                OggFile([pages EXCEPT ![3].form = "garbage"], {}),
                OggFile(Tail(pages), {}), OggFile(SubSeq(pages, 3, 9), {}),
                OggFile([pages EXCEPT ![4].piece[1].size = 300], {})>>])])

-----------------------------------------------------------------------------
(* FLAC, WAV and MP3 files.                                                *)
Block(t, l, last, samples, rate, comments) ==
  [type |-> t, len |-> l, last |-> last, cut |-> FALSE, samples |-> samples, sample_rate |-> rate,
   comments |-> comments]
Info(l, last, rate) == Block(0, l, last, 20, rate, <<>>)
Comments(l, last) == Block(4, l, last, 0, 0, <<C("TITLE", "song"), C("ARTIST", "blank"), C("ARTIST", "artist")>>)
Cover(last) == Block(6, 40, last, 0, 0, <<>>)

FlacBlocks == <<
  <<Info(34, FALSE, 4), Comments(20, FALSE), Cover(TRUE)>>, <<Info(38, TRUE, 0)>>, <<Info(30, TRUE, 4)>>,
  <<Info(34, FALSE, 4), Comments(60, TRUE)>>, <<Info(34, FALSE, 4), Comments(20, FALSE)>>,
  <<Cover(FALSE), Cover(FALSE), Cover(FALSE), Info(34, TRUE, 4)>>,
  <<Info(34, FALSE, 4), [Comments(20, TRUE) EXCEPT !.cut = TRUE]>> >>
FlacFiles == [i \in 1 .. Len(FlacBlocks) |-> [format |-> "flac", len |-> 100, block |-> FlacBlocks[i]]]

Fmt(size, rate) == [kind |-> "fmt", size |-> size, tag |-> "pcm", byte_rate |-> rate]
WavFiles ==
  [i \in 1 .. 8 |-> [format |-> "wav", len |-> 40 + 3 * i,
     chunk |-> (12 :> Fmt(IF i = 1 THEN 10 ELSE 16, i - 2))
                 @@ (36 :> [kind |-> "data", size |-> IF i = 8 THEN 9 ELSE 30])]]

Frame(k, s, t) == [kind |-> k, size |-> s, text |-> t, cutText |-> "cut"]
Mp3Files ==
  [i \in 1 .. 12 |-> [format |-> CASE i = 12 -> "other" [] i = 11 -> "mp3" [] OTHER -> "id3", len |-> 100,
     version |-> 2 + (i % 4), tagSize |-> 10 * i,
     frame |-> (10 :> Frame("TIT2", 8, "song")) @@ (28 :> Frame("TPE1", IF i = 5 THEN 0 ELSE 10, "artist"))
                 @@ (48 :> Frame("TIT2", 30, "blank"))]]

\* Files that are served, by their length alone.
ServedFiles == [n \in 1 .. 5 |-> [format |-> "bytes", len |-> n - 1]]
Sides == {None} \cup {Some(n) : n \in 0 .. 5}
MCRangeHeader == {NoHeader, BadHeader} \cup {ByteRange(start, end) : start, end \in Sides}

-----------------------------------------------------------------------------
Named(k, files) == [i \in 1 .. Len(files) |-> [kind |-> k, file |-> files[i]]]

MCInputs ==
  Named("video", IsoFiles) \o Named("audio", IsoFiles) \o Named("video", WebmFiles)
    \o Named("image", Headers32) \o Named("image", Jpegs)
    \o Named("image", ServedFiles)
    \o Named("audio", OggFiles \o FlacFiles \o WavFiles \o Mp3Files)

=================================================================================
