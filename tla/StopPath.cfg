SPECIFICATION Spec
CONSTANTS
  Depth = 1
  AgeCap = 4
  OperatingMode = "AUTONOMY"
  Controls = {"estop"}
  Offered <- MCOffered
  TicksPerUnit = 1
  Crashable = {"operator", "safety_manager", "arbiter"}
  RequireTeleop = FALSE
  MonitorApproved = FALSE
  MrmTriggers = {}
  TeleopTimeout = 1
  ApprovedTimeout = 1
  ArbiterTimeout = 1
  MaxLinear = 1
  MaxAngular = 1
  PublishStopOnBlock = TRUE
  LocomotionTimeout = 2
  SettleTime = 1
  Epsilon = 0
INVARIANTS TypeOk StopBound FreshnessBound
