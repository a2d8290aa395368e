SPECIFICATION Spec
CONSTANTS
  Byte = {0, 1}
  BUFFER_SIZE = 2
  STREAM_MAX = 3
  UINT32_MAX = 4
  Pipelining = FALSE
INVARIANTS
  EndOfStreamKeepsData
