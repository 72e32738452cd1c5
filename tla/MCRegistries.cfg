SPECIFICATION MCSpec
CONSTANTS
  Pid = {p1, p2, p3}
  MaxRooms = 2
  MaxRoomParticipants = 2
  MaxGid = 4099
  Worlds = {257}
  Lobbies = {513}
  ServerPid = server
  MaxRuntime = 2
  MaxPerOwner = 1
  MaxHallGid = 8195
SYMMETRY Players
INVARIANTS
  RoomsConsistent
  OneRoomPerHost
  PopulationShown
  SeededSurvive
PROPERTIES
  GidNamesOneRoom
  HostKeepsARoom
  OwnerTakesHallsAlong
