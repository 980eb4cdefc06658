SPECIFICATION Spec
CONSTANTS
  Depth = 1
  AgeCap = 5
  TicksPerUnit = 1
  CommandSources = {"teleop", "autonomy"}
  Crashable = {"teleop", "hardware"}
  Requested = {"AUTONOMY"}
  InitialMode = "INACTIVE"
  TeleopVelocity <- MCTeleopVelocity
  AutonomyVelocity <- MCAutonomyVelocity
  ArbiterTimeout = 1
  MaxLinear = 2
  MaxAngular = 2
  PublishStopOnBlock = TRUE
  ApprovedTimeout = 2
  ArbitrationTimeout = 2
INVARIANTS TypeOk ModeReachesMotors AppliedCommandFresh
