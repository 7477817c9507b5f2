SPECIFICATION DeliverySpec
CONSTANTS
  None = None
  Names = {alice, bob, carol}
  IPs = {ip1, ip2, ip3}
  Socks <- MCSocks3
  Stored <- Fitting
  Width <- Widths
  Conns = {c1, c2, c3}
  Requests <- BroadcastRequests
  Traced = {"MSG", "DISCONNECTED"}
  PAYLOAD_SIZE = 100
  MAX_CLIENTS = 3
  INACTIVITY_TIMEOUT = 0
  MAX_TIME = 0
  MAX_REQS = 2
SYMMETRY Symmetric
CONSTRAINT FewDepartures
INVARIANT EveryoneToldOnce
CHECK_DEADLOCK FALSE
