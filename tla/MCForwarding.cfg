SPECIFICATION ForwardingSpec
CONSTANTS
  h = h
  a = a
  b = b
  h1 = h1
  a1 = a1
  b1 = b1
  Pid <- MCPid
  Conn <- MCConn
  PidOf <- MCPidOf
  LiveOverlap = FALSE
  Relaying = FALSE
  MaxRooms = 1
  MaxRoomParticipants = 3
  MaxRoomGid = 4097
  Worlds = {}
  Lobbies = {513}
  ServerPid = server
  MaxRuntime = 0
  MaxPerOwner = 0
  MaxHallGid = 8192
  ProbesMode = "host"
  Forced = FALSE
  Fallback = TRUE
  Targets = 2
  Handlers = 1
INVARIANTS
  ProbeNamesOwnPair
  ShoutsStayTogether
PROPERTIES
  ProbeNamesOpenRelay
SYMMETRY MCAlike
