SPECIFICATION Spec
CONSTANTS
  Session = {s1, s2}
  NoData = NoData
  FD_LIMIT = 5
  ITEMS_MAX_SIZE = 5
  BUFFER_SIZE = 2
  Offers <- PlainOffer
  Requests = {"connect_ip", "connect_domain", "other_command"}
  Outcomes = {"recv_fails", "send_fails", "send_partial", "accept_fails", "socket_fails",
              "nio_fails", "connect_now", "connect_fails", "origin_refuses",
              "parse_more", "parse_error", "pipelined", "malloc_fails"}
SYMMETRY Sym
INVARIANTS
  AbortsHaveTheirCause
  SessionsOwnDescriptors
  SomeEventCanWake
  OrphansAreQuiet
  ReplyIsPending
  
PROPERTIES
  HandlersTouchOwnItems
