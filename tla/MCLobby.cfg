SPECIFICATION FairSpec
CONSTANTS
  c1 = c1
  c2 = c2
  c3 = c3
  p1 = p1
  p2 = p2
  Pid <- MCPid
  Conn <- MCConn
  PidOf <- MCPidOf
  LiveOverlap = FALSE
  Relaying = TRUE
  MaxRooms = 1
  MaxRoomParticipants = 2
  MaxRoomGid = 4098
  Worlds = {257}
  Lobbies = {}
  ServerPid = server
  MaxRuntime = 1
  MaxPerOwner = 1
  MaxHallGid = 8193
INVARIANTS
  NoGhost
  NoGhostInHalls
  GidsApart
PROPERTIES
  RemovedByOwnerOrSelf
  GhostsLeave
