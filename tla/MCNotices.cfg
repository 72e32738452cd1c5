SPECIFICATION FairSpec
CONSTANTS
  Pid = {h, a, b}
  MaxRooms = 1
  MaxRoomParticipants = 3
  MaxGid = 4098
  QuickRejoin = FALSE
INVARIANTS
  TypeOK
  NoticeUnderWay
PROPERTIES
  SlotsFreed
  RejoinsClean
  LiveSlotsKept
