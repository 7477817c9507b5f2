SPECIFICATION Spec
CONSTANTS
  None = None
  Names = {alice, bob}
  IPs = {ip1, ip2}
  Socks <- MCSocks
  Stored <- Fitting
  Width <- Widths
  Conns = {c1, c2}
  Requests <- CoreRequests
  PAYLOAD_SIZE = 26
  MAX_CLIENTS = 2
  INACTIVITY_TIMEOUT = 0
  MAX_TIME = 1
  MAX_REQS = 2
SYMMETRY Symmetric
INVARIANT ServerStaysUp
CHECK_DEADLOCK FALSE
