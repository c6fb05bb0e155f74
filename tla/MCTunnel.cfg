SPECIFICATION FairSpec
CONSTANTS
  Streams = {s1}
  Window = 2
  MaxChunk = 2
  MaxStreams = 1
  Bytes <- SourceBytes
  MaxFaults = 1
INVARIANTS TypeOK CreditKept InOrder
PROPERTIES AllArrives BothForget NoneOutlives
\* A quiet system stops: nobody has to open a stream.
CHECK_DEADLOCK FALSE
