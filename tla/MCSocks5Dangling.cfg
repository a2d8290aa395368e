SPECIFICATION Spec
CONSTANTS
  Session = {s1}
  NoData = NoData
  FD_LIMIT = 3
  ITEMS_MAX_SIZE = 3
  BUFFER_SIZE = 2
  Offers <- PlainOffer
  Requests = {"connect_ip"}
  Outcomes = {"send_fails"}
INVARIANTS
  NoDanglingDispatch
