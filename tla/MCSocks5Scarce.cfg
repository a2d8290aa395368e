SPECIFICATION Spec
CONSTANTS
  Session = {s1, s2, s3}
  NoData = NoData
  FD_LIMIT = 4
  ITEMS_MAX_SIZE = 3
  BUFFER_SIZE = 2
  Offers <- SomeOffers
  Requests = {"connect_ip"}
  Outcomes = {"recv_fails", "send_fails", "connect_fails"}
SYMMETRY Sym
INVARIANTS
  SessionsOwnDescriptors
