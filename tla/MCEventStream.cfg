\* A tab that reconnects, other requests from its address, and a restart.
SPECIFICATION StreamSpec
CONSTANTS
  tab1 = tab1
  home = home
  e1 = e1
  e2 = e2
  None = None
  Ip = {home}
  Stream = {tab1}
  IpOf <- OneHome
  Event = {e1, e2}
  RateLimitWindow = 3
  RateLimitMax = 3
  Second = 2
  FirstRetry = 1
  LastRetry = 3
  MaxPublished = 2
  MaxRestarts = 1
  MaxOther = 3
  MaxLost = 1
  MaxClosed = 1
INVARIANTS
  RequestsAreLimited
  ReconnectsAreAdmitted
PROPERTIES
  WaitingHelps
  NewsArrives
