SPECIFICATION CMSpec
CONSTANTS
  None = None
  Names = {alice, bob, carol}
  IPs = {ip1, ip2, ip3}
  Socks <- MCSocks
  Stored <- Fitting
  MAX_CLIENTS = 2
  INACTIVITY_TIMEOUT = 1
  MAX_TIME = 2
INVARIANTS
  CMTypeOK
  CountExact
  UniqueIps
  UniqueSocks
  UniqueUsernames
PROPERTIES
  Refines
  InactiveOnlyIfIdle
CHECK_DEADLOCK FALSE
