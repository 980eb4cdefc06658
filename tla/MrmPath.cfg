SPECIFICATION Spec
CONSTANTS
  Depth = 1
  AgeCap = 3
  OperatingMode = "TELEOP"
  Controls = {"parameter","trigger","clear"}
  Offered <- MCOffered
  TicksPerUnit = 1
  Crashable = {"operator"}
  RequireTeleop = TRUE
  MonitorApproved = TRUE
  MrmTriggers = {"teleop_heartbeat", "approved_command"}
  TeleopTimeout = 1
  ApprovedTimeout = 1
  ArbiterTimeout = 1
  MaxLinear = 1
  MaxAngular = 1
  PublishStopOnBlock = TRUE
  LocomotionTimeout = 1
  SettleTime = 1
  Epsilon = 0
PROPERTIES InterlockRefined
