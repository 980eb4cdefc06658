SPECIFICATION Spec
CONSTANTS
  Depth = 1
  AgeCap = 2
  Profiles = {{"nav2_bridge"}, {"policy_stub"}, {"policy_scripted"}, {"capability_registry", "skill_server"}}
  Crashable = {"nav2_bridge", "policy_stub", "policy_scripted", "capability_registry", "skill_server"}
  TicksPerUnit = 1
  StreamModes = {"AUTONOMY", "AI_POLICY"}
  StreamSafety = {"OK", "MRM"}
  StreamLocomotion <- MCLocomotion
  Skills = {"stop", "walk_velocity"}
  Files <- MCFiles
  BridgeTimeout = 0
  ArbiterTimeout = 0
  Velocity <- MCVelocity
  TickTime = 2
  TransportTime = 1
INVARIANTS TypeOk QuietSources CapabilitiesConverge SilenceReachesArbiter
PROPERTIES PlaybackRefined
