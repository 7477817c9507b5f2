SPECIFICATION GatewaySpec
CONSTANTS
  None = None
  Names = {ana, beto}
  Links = {t1, t2}
  PACKET_SIZE = 2
  MAX_FLIGHT = 2
INVARIANT LabelsTrue
\* The session ends when its WebSocket is closed and its connections are gone.
CHECK_DEADLOCK FALSE
