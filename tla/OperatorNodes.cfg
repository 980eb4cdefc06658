SPECIFICATION MCSpec
CONSTANTS
  Depth = 1
  AgeCap = 2
  InitialMode = "INACTIVE"
  Requesters = {"operator", "mission"}
  Keys = {"w", "a", "x"}
  Step = 1
  MaxVelocity = 1
  KeyTimeout = 1
INVARIANTS TypeOk RecordIsCurrent ActiveNeedsSafety KeyboardTypeOk
PROPERTIES RecordIsAChain EntryGuarded OwnerIsOnRecord SilenceStops
