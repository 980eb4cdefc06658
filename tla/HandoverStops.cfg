SPECIFICATION Spec
CONSTANTS
  Depth = 1
  AgeCap = 4
  TicksPerUnit = 1
  CommandSources = {"teleop", "autonomy"}
  Crashable = {}
  Requested = {"AUTONOMY"}
  InitialMode = "INACTIVE"
  TeleopVelocity <- MCTeleopVelocity
  AutonomyVelocity <- MCAutonomyVelocity
  ArbiterTimeout = 1
  MaxLinear = 2
  MaxAngular = 2
  PublishStopOnBlock = TRUE
  ApprovedTimeout = 1
  ArbitrationTimeout = 2
PROPERTIES StopsBetweenModes
