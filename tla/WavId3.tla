--------------------------------- MODULE WavId3 ---------------------------------
(***************************************************************************)
(* The audio formats of metadata/detail.rs: the chunks of a WAV file, and   *)
(* otherwise ID3v2 tags and the sync bytes of MP3.  Chunks and frames are    *)
(* laid out at their offsets; other bytes are zero.                         *)
(***************************************************************************)
EXTENDS VorbisComment, Integers

CONSTANT Id3ReadLimit    \* ID3_READ_LIMIT

NoDetail == [duration_ms |-> None, codec |-> None, title |-> None, artist |-> None]

\* Chunks are padded to even sizes.
Chunks(f) ==
    LET walk[at \in 12 .. f.len] ==
          LET chunk == IF at \in DOMAIN f.chunk THEN f.chunk[at]
                       ELSE [kind |-> "zeros", size |-> 0]
              next  == at + 8 + chunk.size + (chunk.size % 2)
          IN  CASE at + 8 > f.len -> <<>>
                [] OTHER -> <<[chunk |-> chunk, payload |-> at + 8,
                               kind  |-> IF /\ chunk.kind = "fmt"
                                            /\ (chunk.size < 12 \/ at + 20 > f.len)
                                         THEN "short fmt" ELSE chunk.kind]>>
                            \o (IF next > f.len THEN <<>> ELSE walk[next])
    IN  walk[12]

\* The size of data is cut to what the file has of it.
DataSize(f, c) ==
    LET there == f.len - c.payload IN IF c.chunk.size < there THEN c.chunk.size ELSE there

read_wav_detail(f) ==
    LET walk == Chunks(f)
        last == Len(walk)
        data == Latest(walk, last, "data", LAMBDA c : Some(DataSize(f, c)), None)
        rate == Latest(walk, last, "fmt", LAMBDA c : Some(c.chunk.byte_rate), None)
    IN  IF f.len < 12 \/ f.format # "wav" THEN None
        ELSE Some([NoDetail EXCEPT
               !.codec = Latest(walk, last, "fmt", LAMBDA c : Some(c.chunk.tag), None),
               !.duration_ms = IF data # None /\ rate # None /\ rate # Some(0)
                               THEN Milliseconds(data[1], rate[1]) ELSE None])

\* The frames of the tag, which the limit may cut; zeros or an empty frame end them.
Frames(f, length) ==
    LET tagEnd == IF 10 + f.tagSize < length THEN 10 + f.tagSize ELSE length
        walk[at \in 10 .. tagEnd] ==
          LET frame == f.frame[at]
              end   == IF at + 10 + frame.size < tagEnd THEN at + 10 + frame.size ELSE tagEnd
          IN  IF at + 10 > tagEnd \/ at \notin DOMAIN f.frame \/ at + 10 >= end THEN <<>>
              ELSE <<[kind |-> frame.kind,
                      text |-> IF end < at + 10 + frame.size THEN frame.cutText ELSE frame.text]>>
                   \o walk[end]
    IN  IF length < 10 \/ f.version \notin {3, 4} THEN <<>> ELSE walk[10]

decode_id3_text(text) == IF text \in {"blank", "undecodable"} THEN None ELSE Some(text)

\* Tags, and MP3 by its tag or by two sync bytes anywhere in the beginning.
read_id3(f) ==
    LET length == IF f.len < Id3ReadLimit THEN f.len ELSE Id3ReadLimit
        walk   == IF f.format = "id3" THEN Frames(f, length) ELSE <<>>
        tag(k) == Latest(walk, Len(walk), k, LAMBDA frame : decode_id3_text(frame.text), None)
    IN  [NoDetail EXCEPT !.title = tag("TIT2"), !.artist = tag("TPE1"),
                         !.codec = IF f.format \in {"id3", "mp3"} THEN Some("mp3") ELSE None]

read_audio_detail(f) ==
    LET wav == read_wav_detail(f) IN IF Found(wav) THEN wav[1] ELSE read_id3(f)

=================================================================================
