SPECIFICATION Spec
CONSTANTS
  Depth = 1
  AgeCap = 2
  Profiles = {{"policy_scripted"}}
  Crashable = {}
  TicksPerUnit = 1
  StreamModes = {"AUTONOMY", "AI_POLICY"}
  StreamSafety = {"OK", "MRM"}
  StreamLocomotion <- MCLocomotion
  Skills = {"stop", "walk_velocity"}
  Files <- MCFiles
  BridgeTimeout = 0
  ArbiterTimeout = 0
  Velocity <- MCVelocity
  TickTime = 2
  TransportTime = 1
PROPERTIES WaypointsPlayed
