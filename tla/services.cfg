SPECIFICATION MCSpec
CONSTANTS
  Services = {"whitelist", "router", "log"}
  Player <- TwoPlayers
  Spelling <- AsNamed
  Known = {"ann"}
  NoLine = NoLine
  Files <- SomeLines
  MaxChanges = 3
  Addresses = {1, 2}
  NoAddress = 0
  Grace = 2
  RouterEvents = {"address", "outage", "reboot", "nft", "reload", "reload lost"}
  MaxDisturbances = 3
  Caps = {2, 4}
  Widths = {1, 2}
  RowBytes = 1
  MinKeep = 2
  None = 0
  MaxTime = 2
  MaxRows = 5
  MaxWritten = 6
  MaxKills = 1
INVARIANTS TypeOK ActiveMeansApplied EmptyIsKnown OutageIsPosted
PROPERTIES NamedStay NoCreep EndsApplied SetComesBack EndsUnderCap
CHECK_DEADLOCK FALSE
