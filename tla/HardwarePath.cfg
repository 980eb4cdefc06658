SPECIFICATION Spec
CONSTANTS
  Depth = 1
  AgeCap = 2
  OperatingMode = "TELEOP"
  Offered <- MCOffered
  TicksPerUnit = 1
  Crashable = {"safety_manager", "hardware"}
  MrmTriggers = {"hardware_heartbeat"}
  HardwareTimeout = 1
  ApprovedTimeout = 1
  ArbitrationTimeout = 1
INVARIANTS TypeOk HaltReachesMotors AlarmIsTrue
