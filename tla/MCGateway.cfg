SPECIFICATION FairGateway
CONSTANTS
  None = None
  Names = {ana, beto}
  Links = {t1, t2}
  PACKET_SIZE = 2
  MAX_FLIGHT = 2
INVARIANTS GatewayTypeOK FramesWhole LabelledUnlessRefused
PROPERTIES OnlyAwaitedOutlives LossReachesPage
\* The session ends when its WebSocket is closed and its connections are gone.
CHECK_DEADLOCK FALSE
