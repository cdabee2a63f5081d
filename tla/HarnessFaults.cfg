\* A fresh conversation: everything that can fail, two dropped sockets.
SPECIFICATION FairSpec
CONSTANTS
  Histories = {"fresh"}
  MaxEvents = 4
  MaxDrops = 2
  MaxCrashes = 0
  MaxTries = 2
  Failing = {"Drop", "Socket", "Rest", "Poll", "Tight", "Late"}
INVARIANTS
  StreamDeliversOnce
  FreshReportsAreTrue
PROPERTIES
  TurnEnds
CHECK_DEADLOCK FALSE
