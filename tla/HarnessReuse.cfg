\* A new conversation, or one whose earlier turn ended, goes on or is announced late.
SPECIFICATION Spec
CONSTANTS
  Histories = {"fresh", "idle", "active", "late"}
  MaxEvents = 5
  MaxDrops = 1
  MaxCrashes = 1
  MaxTries = 2
  Failing = {"Drop", "Crash"}
INVARIANTS
  StreamMissesNothing
  SuccessIsTrue
  FailureIsOwn
PROPERTIES
  ErrorIsSeen
CHECK_DEADLOCK FALSE
