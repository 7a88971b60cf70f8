SPECIFICATION RoomSpec
CONSTANTS
  Socks = {k1, k2, k3}
  MaxKept = 2
  MaxEvents = 3
  MaxCuts = 1
  MaxFaults = 2
  CommandItems <- RoomItems
  Heard <- RoomDanmaku
  Senders <- RoomSenders
  Blocked = {}
  MaxRewrites = 1
  MaxQueue = 1
  MaxAge = 1
  Words = {"a", "b"}
  Numbers = {0, 1, 2}
INVARIANT OwnSongs
CHECK_DEADLOCK FALSE
