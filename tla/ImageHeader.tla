------------------------------- MODULE ImageHeader -------------------------------
(***************************************************************************)
(* The dimensions of an image (metadata/header.rs), read from its first     *)
(* bytes.  A file is its length, its format and the numbers its header      *)
(* holds; a JPEG is the markers at their offsets, all other bytes being no   *)
(* marker (or the fill bytes before one).                                   *)
(***************************************************************************)
EXTENDS Containers, Integers

CONSTANTS
  FastHeaderBytes,       \* FAST_HEADER_BYTES
  JpegHeaderReadLimit    \* JPEG_HEADER_READ_LIMIT

ASSUME HeaderLimitsAssumption ==
  FastHeaderBytes \in Nat /\ JpegHeaderReadLimit \in Nat

Shorter(a, b) == IF a < b THEN a ELSE b

\* The bytes up to the last one a parser asks for.
HeaderBytes == [png |-> 24, gif |-> 10, bmpCore |-> 22, bmpInfo |-> 26,
                vp8x |-> 30, vp8l |-> 25, vp8 |-> 30]

ASSUME FastHeaderAssumption ==
  \A format \in DOMAIN HeaderBytes : HeaderBytes[format] <= FastHeaderBytes

\* parse_png, parse_gif, parse_bmp and parse_webp, told apart by their signature.
parse_dimensions(f, length) ==
    IF f.format \notin DOMAIN HeaderBytes \/ length < HeaderBytes[f.format] THEN None
    ELSE CASE f.format = "bmpInfo" ->    \* signed; a negative height is bottom-up
                IF f.width <= 0 THEN None
                ELSE Dimensions(f.width, IF f.height < 0 THEN -f.height ELSE f.height)
           [] f.format \in {"vp8x", "vp8l"} -> Dimensions(f.width + 1, f.height + 1)
           [] f.format = "vp8"              -> Dimensions(f.width % 16384, f.height % 16384)
           [] OTHER                         -> Dimensions(f.width, f.height)

\* The lengths that follow markers are no negative numbers.
IsJpeg(f) == f.len \in Nat /\ \A o \in DOMAIN f.marker : f.marker[o].length \in Nat

\* A marker is two bytes, most are followed by a two-byte length that counts itself.
parse_jpeg(f, length) ==
    LET scan[at \in 0 .. length] ==
          LET m == f.marker[at]
          IN  IF at >= length THEN None
              ELSE IF at \notin DOMAIN f.marker THEN scan[at + 1]
              ELSE IF at + 1 >= length \/ m.kind = "end" THEN None
              ELSE IF m.kind = "standalone" THEN scan[at + 2]
              ELSE IF at + 4 > length \/ m.length < 2 THEN None
              ELSE IF m.kind = "sof"
                   THEN IF m.length < 7 \/ at + 9 > length THEN None
                        ELSE Dimensions(m.width, m.height)
              ELSE IF at + 2 + m.length > length THEN None
              ELSE scan[at + 2 + m.length]
    IN  IF length < 2 THEN None ELSE scan[2]

ReadImage(f) ==
    IF f.format = "jpeg"
    THEN parse_jpeg(f, Shorter(f.len, JpegHeaderReadLimit))
    ELSE parse_dimensions(f, Shorter(f.len, FastHeaderBytes))

==================================================================================
