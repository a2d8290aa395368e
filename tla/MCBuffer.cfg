SPECIFICATION Spec
CONSTANTS
  Byte = {0, 1}
  Zero = 0
  Limit = 3
INVARIANTS
  PointersOrdered
  DrainedIsRewound
PROPERTIES
  ImplementsQueue
