SPECIFICATION FairWeb
CONSTANTS
  None = None
  Names = {alice, bob}
  Clients = {g1, g2}
  Words <- Plain
  Chatter = {"chat", "leave", "idle"}
  Picks = {"BUSY"}
  Hosts = {home, away}
  Home = home
  MAX_FLIGHT = 1
ACTION_CONSTRAINTS FirstName MovesApart
INVARIANTS WebTypeOK OneLiveClient OnlineIsReal StatusSettles 
PROPERTY LoginSettles
\* The user may have used every client there is.
CHECK_DEADLOCK FALSE
