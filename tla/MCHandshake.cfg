SPECIFICATION Spec
CONSTANTS
  Streams <- SomeStreams
  BUFFER_SIZE = 24
INVARIANTS
  
  RequestIsDecoded
  RefusedOnlyForCause
  
PROPERTIES
  HandshakeEnds
