SPECIFICATION Spec
CONSTANTS
  Depth = 1
  AgeCap = 2
  Keys = {"w", "x"}
  Step = 1
  MaxVelocity = 1
  KeyTimeout = 1
INVARIANT StopKeyStops
