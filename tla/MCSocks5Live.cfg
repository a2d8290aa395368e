SPECIFICATION FairSpec
CONSTANTS
  Session = {s1, s2}
  NoData = NoData
  FD_LIMIT = 5
  ITEMS_MAX_SIZE = 5
  BUFFER_SIZE = 2
  Offers <- PlainOffer
  Requests = {"connect_ip"}
  Outcomes = {"origin_refuses"}
PROPERTIES
  PendingConnectIsAnswered
