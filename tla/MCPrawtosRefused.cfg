SPECIFICATION Spec
CONSTANTS
  Manager = {m1, m2}
  Logins <- SomeLogins
  Commands <- AllCommands
  InitialUsers <- OneAdmin
  NulFollows = {TRUE, FALSE}
  BUFFER_SIZE = 3
  UINT16_MAX = 2
  MaxProxies = 1
  MaxAhead = 1
  MaxDirty = 1
PROPERTIES
  RefusedCommandsHaveNoEffect
