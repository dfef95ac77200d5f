CONSTANTS
  MaxPackets = 5
SPECIFICATION FairSpec
INVARIANTS
  DecoderGetsAll
  FileIsPrefix
  Durations
  CompleteWhenClosed
PROPERTIES
  StreamEnds
