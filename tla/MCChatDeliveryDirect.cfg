SPECIFICATION DeliverySpec
CONSTANTS
  None = None
  Names = {alice, bob}
  IPs = {ip1, ip2}
  Socks <- MCSocks
  Stored <- Fitting
  Width <- Widths
  Conns = {c1, c2, c3}
  Requests <- DirectRequests
  Traced = {"MSG"}
  PAYLOAD_SIZE = 100
  MAX_CLIENTS = 2
  INACTIVITY_TIMEOUT = 0
  MAX_TIME = 0
  MAX_REQS = 2
SYMMETRY Symmetric
INVARIANT DirectToAddressee
CHECK_DEADLOCK FALSE
