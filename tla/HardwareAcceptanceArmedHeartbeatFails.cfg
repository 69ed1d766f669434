SPECIFICATION Spec
CONSTANTS
  board = board
  spare = spare
  station = station
  nobody = nobody
  NoSystem = nobody
  cfg = cfg
  port = port
  Systems <- MCSystems
  Px4 <- MCPx4
  Pinned <- MCPinned
  Parameters <- MCParameters
  Stamps = {1, 2}
CHECK_DEADLOCK FALSE
INVARIANT ArmedHeartbeatFails
