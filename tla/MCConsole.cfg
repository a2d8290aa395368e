SPECIFICATION ConsoleSpec
CONSTANTS
  Manager = {m1}
  NoFd = NoFd
  Names = {"ana"}
  Passwords = {"pw", "no"}
  Credentials <- TypedCredentials
  OtherCommands <- FewCommands
  Logins <- SomeLogins
  Commands <- ConsoleCommands
  InitialUsers <- OneAdmin
  NulFollows = {TRUE, FALSE}
  BUFFER_SIZE = 3
  UINT16_MAX = 2
  MaxProxies = 1
  MaxAhead = 1
  MaxDirty = 1
  MaxClients = 1
INVARIANTS
  ConsoleTypeOK
  AnswerIsPending
  StreamStaysAligned
  
  
  
PROPERTIES
  AdminsOnly
  ListIsRegistry
  AnswersGoOut
  
