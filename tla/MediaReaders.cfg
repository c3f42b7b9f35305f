SPECIFICATION Spec
CONSTANTS
  Inputs <- MCInputs
  RangeHeader <- MCRangeHeader
  MaxServed = 4
  MaxU64 = 90000
  MaxTextTagBytes = 16
  WebmHeaderReadLimit = 56
  FastHeaderBytes = 32
  JpegHeaderReadLimit = 32
  MaxHeaderPages = 7
  MaxPacketBytes = 200
  TailWindowBytes = 150
  MaxMetadataBlocks = 3
  MaxVorbisCommentBytes = 40
  Id3ReadLimit = 60
INVARIANTS
  TypeOK
  DamageStaysLocal
  ClippedIsSound
  NothingMixed
  RangeServed
CHECK_DEADLOCK FALSE
