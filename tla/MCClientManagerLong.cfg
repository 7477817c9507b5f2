SPECIFICATION CMSpec
CONSTANTS
  None = None
  Names <- LongNames
  IPs = {ip1, ip2}
  Socks <- MCSocks
  Stored <- Truncating
  MAX_CLIENTS = 2
  INACTIVITY_TIMEOUT = 1
  MAX_TIME = 1
INVARIANT UniqueUsernames
CHECK_DEADLOCK FALSE
