SPECIFICATION FairDelivery
CONSTANTS
  None = None
  Names = {alice}
  IPs = {ip1}
  Socks <- OneSock
  Stored <- Fitting
  Width <- Widths
  Conns = {c1, c2}
  Requests <- StatusRequests
  Traced = {"MSG", "OK"}
  PAYLOAD_SIZE = 100
  MAX_CLIENTS = 1
  INACTIVITY_TIMEOUT = 0
  MAX_TIME = 2
  MAX_REQS = 2
INVARIANT WarnedOnce
PROPERTIES
  IdleNoticed
  DepartedLeaves
CHECK_DEADLOCK FALSE
