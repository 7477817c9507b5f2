SPECIFICATION WebSpec
CONSTANTS
  None = None
  Names = {alice, bob}
  Clients = {g1, g2}
  Words <- Plain
  Chatter = {"broadcast"}
  Picks = {}
  Hosts = {home}
  Home = home
  MAX_FLIGHT = 1
ACTION_CONSTRAINT FirstName
INVARIANT OthersAreShown
CHECK_DEADLOCK FALSE
