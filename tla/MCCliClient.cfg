SPECIFICATION FairCli
CONSTANTS
  None = None
  c1 = c1
  c2 = c2
  Conns = {c1, c2}
  PACKET_SIZE = 2
  BUFFER = 1
  Lines <- OneTalks
INVARIANTS
  CliTypeOK
  PacketsWhole
PROPERTIES
  NoGridlock
  ExitReturns
CHECK_DEADLOCK FALSE
