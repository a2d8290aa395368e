SPECIFICATION Spec
CONSTANTS
  ITEMS_MAX_SIZE = 4
  Fds = {0, 3}
  Initials = {0, 1, 4, 5}
  Interests <- SomeInterests
  NoData = NoData
INVARIANTS
  MasterMatchesTable
  ServerTableNeverLeft
  
  WakeUpNotLost
PROPERTIES
  ImplementsTable
  
