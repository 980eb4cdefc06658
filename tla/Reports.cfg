SPECIFICATION MCSpec
CONSTANTS
  Depth = 1
  AgeCap = 4
  CommandTimeout = 3
  SettleTime = 2
  Epsilon = 1
  Offered <- MCOffered
  MaxLinear = 1
  MaxAngular = 1
  PublishStopOnBlock = TRUE
  ArbiterTimeout = 1
  Candidates <- MCCandidates
  RequireTeleop = TRUE
  RequireHardware = TRUE
  MonitorApproved = TRUE
  TeleopTimeout = 1
  HardwareTimeout = 1
  ApprovedTimeout = 1
  MrmTriggers = {"hardware_heartbeat"}
  ParameterReason = ""
  Listened = {"safety/state", "locomotion/state"}
  MonitorNav2 = FALSE
  MonitorTeleop = FALSE
  StaleTimeout = 1
  MaxGap = 1
  Horizon = 3
  StatesOf <- MCStatesOf
  ShortCap = 2
INVARIANTS TypeOk MotionStateAgrees
  ArbiterTypeOk ApprovedWithinContract ReportExplainsOutput LastWordIsStop
  SafetyTypeOk SafetyAndMrmAgree TriggerHolds ObserversTypeOk EvaluationIsExact StaleOnRecord
PROPERTIES HoldExplained StandsAfterSettling DropoutNoticed TroubleIsReported
