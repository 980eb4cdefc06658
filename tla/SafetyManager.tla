--------------------------- MODULE SafetyManager --------------------------
(***************************************************************************)
(* The safety manager node: the E-stop and MRM inputs, the three watchdogs *)
(* and the safety and MRM states that it derives from them and publishes.  *)
(***************************************************************************)
EXTENDS HumaWareMsgs, RosRuntime

CONSTANTS RequireTeleop,          \* require_teleop_heartbeat
          RequireHardware,        \* require_hardware_heartbeat
          MonitorApproved,        \* monitor_approved_commands
          TeleopTimeout,          \* teleop_heartbeat_timeout_s
          HardwareTimeout,        \* hardware_heartbeat_timeout_s
          ApprovedTimeout,        \* approved_command_timeout_s
          MrmTriggers,            \* the watchdogs whose *_triggers_mrm is set
          ParameterReason         \* mrm_reason, "" unless it is configured

Watchdogs == {"teleop_heartbeat", "hardware_heartbeat", "approved_command"}

SafetyConstants ==
  /\ {RequireTeleop, RequireHardware, MonitorApproved} \subseteq BOOLEAN
  /\ TeleopTimeout \in Nat /\ TeleopTimeout < AgeCap
  /\ HardwareTimeout \in Nat /\ HardwareTimeout < AgeCap
  /\ ApprovedTimeout \in Nat /\ ApprovedTimeout < AgeCap
  /\ MrmTriggers \subseteq Watchdogs
  /\ ParameterReason \in {"", "operator"}

VARIABLES activeMode,     \* _active_mode
          teleopAge,      \* age of _teleop_heartbeat_at
          hardwareAge,    \* age of _hardware_heartbeat_at
          approvedAge,    \* age of _approved_command_at
          serviceMrm,     \* _service_mrm_active
          estop,          \* parameter estop_engaged
          parameterMrm,   \* parameter mrm_active
          safety,         \* topic safety/state
          mrm             \* topic safety/mrm_state

nodeVars == <<activeMode, teleopAge, hardwareAge, approvedAge, serviceMrm,
              estop, parameterMrm>>
topicVars == <<safety, mrm>>
vars == <<nodeVars, topicVars>>

(***************************************************************************)
(* evaluate_watchdogs.  A heartbeat watchdog fires on a heartbeat that was *)
(* never heard as well as on a late one; the approved command watchdog     *)
(* needs a first command to measure from.                                  *)
(***************************************************************************)
Silenced(age, timeout) == age = Never \/ Expired(age, timeout)

Fired ==
  {w \in Watchdogs :
     CASE w = "teleop_heartbeat" ->
            /\ activeMode = "TELEOP" /\ RequireTeleop
            /\ Silenced(teleopAge, TeleopTimeout)
       [] w = "hardware_heartbeat" ->
            /\ activeMode \in ActiveModes /\ RequireHardware
            /\ Silenced(hardwareAge, HardwareTimeout)
       [] w = "approved_command" ->
            /\ activeMode \in ActiveModes /\ MonitorApproved
            /\ Expired(approvedAge, ApprovedTimeout)}

Warnings == Fired \ MrmTriggers

MrmReasons == Fired \intersect MrmTriggers

\* Variant for mutation: the parameter is read at start-up only.
MrmActiveWithoutParameter == serviceMrm \/ MrmReasons # {}

MrmActive == parameterMrm \/ serviceMrm \/ MrmReasons # {}

FirstOf(watchdogs) ==
  IF "teleop_heartbeat" \in watchdogs THEN "teleop_heartbeat"
  ELSE IF "hardware_heartbeat" \in watchdogs THEN "hardware_heartbeat"
  ELSE "approved_command"

\* select_mrm_reason.  A service request always leaves a reason text.
MrmReason ==
  IF parameterMrm /\ ParameterReason # "" THEN ParameterReason
  ELSE IF serviceMrm THEN "service"
  ELSE IF MrmReasons # {} THEN FirstOf(MrmReasons)
  ELSE IF parameterMrm THEN "parameter_mrm_active"
  ELSE ""

\* Variant for mutation: the E-stop is evaluated as a fault.
EvaluatedAsFault ==
  IF estop THEN "FAULT" ELSE IF MrmActive THEN "MRM"
  ELSE IF Warnings # {} THEN "WARN" ELSE "OK"

Evaluated ==
  IF estop THEN "ESTOP"
  ELSE IF MrmActive THEN "MRM"
  ELSE IF Warnings # {} THEN "WARN"
  ELSE "OK"

SafetyMsg == [state |-> Evaluated, estop |-> estop, mrm |-> MrmActive]

\* Variant for mutation: an active MRM hides the E-stop.
MrmMsgFirst ==
  [state |-> IF MrmActive THEN "STOP" ELSE IF estop THEN "FAULT" ELSE "NONE",
   reason |-> MrmReason,
   intervention |-> MrmActive \/ estop]

MrmMsg ==
  [state |-> IF estop THEN "FAULT" ELSE IF MrmActive THEN "STOP" ELSE "NONE",
   reason |-> MrmReason,
   intervention |-> MrmActive \/ estop]

SafetyMsgs == [state : {"OK", "WARN", "MRM", "ESTOP"}, estop : BOOLEAN, mrm : BOOLEAN]

MrmMsgs ==
  [state : MrmStates,
   reason : Watchdogs \union {"", "operator", "service", "parameter_mrm_active"},
   intervention : BOOLEAN]

(***************************************************************************)
(* The callbacks.                                                          *)
(***************************************************************************)
\* _publish_state, called when the rest of the step has taken effect.  Its copy
\* in _current_safety_state is only echoed in service replies.
PublishState ==
  /\ safety' = Publish(safety, SafetyMsg')
  /\ mrm' = Publish(mrm, MrmMsg')

NodeInit ==
  /\ activeMode = "INACTIVE"
  /\ teleopAge = Never /\ hardwareAge = Never /\ approvedAge = Never
  /\ serviceMrm = FALSE
  /\ estop = FALSE /\ parameterMrm = FALSE

\* The process dies; the next one starts from the constructor, with the
\* parameters of the launch file.
Restart ==
  /\ activeMode' = "INACTIVE"
  /\ teleopAge' = Never /\ hardwareAge' = Never /\ approvedAge' = Never
  /\ serviceMrm' = FALSE
  /\ estop' = FALSE /\ parameterMrm' = FALSE

OnTeleopHeartbeat ==
  /\ teleopAge' = 0
  /\ UNCHANGED <<activeMode, hardwareAge, approvedAge, serviceMrm, estop,
                 parameterMrm, topicVars>>

OnHardwareHeartbeat ==
  /\ hardwareAge' = 0
  /\ UNCHANGED <<activeMode, teleopAge, approvedAge, serviceMrm, estop,
                 parameterMrm, topicVars>>

OnApprovedCommand ==
  /\ approvedAge' = 0
  /\ UNCHANGED <<activeMode, teleopAge, hardwareAge, serviceMrm, estop,
                 parameterMrm, topicVars>>

OnModeState(mode) ==
  /\ activeMode' = mode
  /\ UNCHANGED <<teleopAge, hardwareAge, approvedAge, serviceMrm, estop,
                 parameterMrm, topicVars>>

\* The operator sets a parameter of the running node; the timer reads it.
SetEstop(engaged) ==
  /\ estop' = engaged
  /\ UNCHANGED <<activeMode, teleopAge, hardwareAge, approvedAge, serviceMrm,
                 parameterMrm, topicVars>>

SetParameterMrm(active) ==
  /\ parameterMrm' = active
  /\ UNCHANGED <<activeMode, teleopAge, hardwareAge, approvedAge, serviceMrm,
                 estop, topicVars>>

\* Variant for mutation: the trigger is announced by the next timer only.
TriggerMrmQuietly ==
  /\ serviceMrm' = TRUE
  /\ UNCHANGED <<activeMode, teleopAge, hardwareAge, approvedAge, estop,
                 parameterMrm, topicVars>>

\* _handle_trigger_mrm
TriggerMrm ==
  /\ serviceMrm' = TRUE
  /\ UNCHANGED <<activeMode, teleopAge, hardwareAge, approvedAge, estop, parameterMrm>>
  /\ PublishState

\* _handle_clear_mrm: while the E-stop is engaged the request is rejected.
ClearMrm ==
  /\ ~estop
  /\ serviceMrm' = FALSE
  /\ UNCHANGED <<activeMode, teleopAge, hardwareAge, approvedAge, estop, parameterMrm>>
  /\ PublishState

\* The timer.
Tick ==
  /\ UNCHANGED nodeVars
  /\ PublishState

Age ==
  /\ teleopAge' = Older(teleopAge)
  /\ hardwareAge' = Older(hardwareAge)
  /\ approvedAge' = Older(approvedAge)
  /\ UNCHANGED <<activeMode, serviceMrm, estop, parameterMrm>>

(***************************************************************************)
(* The node on its own, with one listener on both of its topics.           *)
(***************************************************************************)
Init ==
  /\ NodeInit
  /\ safety = Silent({"listener"})
  /\ mrm = Silent({"listener"})

Next ==
  \/ OnTeleopHeartbeat
  \/ OnHardwareHeartbeat
  \/ OnApprovedCommand
  \/ \E mode \in Modes : OnModeState(mode)
  \/ \E engaged \in BOOLEAN : SetEstop(engaged)
  \/ \E active \in BOOLEAN : SetParameterMrm(active)
  \/ TriggerMrm
  \/ ClearMrm
  \/ Tick
  \/ Restart /\ UNCHANGED topicVars
  \/ Age /\ UNCHANGED topicVars

Spec == Init /\ [][Next]_vars

-----------------------------------------------------------------------------
NodeTypeOk ==
  /\ activeMode \in Modes
  /\ {teleopAge, hardwareAge, approvedAge} \subseteq Ages
  /\ {serviceMrm, estop, parameterMrm} \subseteq BOOLEAN

TypeOk ==
  /\ NodeTypeOk
  /\ safety \in Topics({"listener"}, SafetyMsgs)
  /\ mrm \in Topics({"listener"}, MrmMsgs)

LastSafety == Latest(safety["listener"])
LastMrm == Latest(mrm["listener"])

\* The two topics never disagree about the last evaluation: E-stop shows as
\* MRM state FAULT, an active MRM as STOP, and an active MRM always names the
\* reason that select_mrm_reason found for it.
SafetyAndMrmAgree ==
  safety["listener"] # << >> =>
    /\ LastSafety.state = "ESTOP" <=> LastMrm.state = "FAULT"
    /\ LastSafety.state = "MRM" <=> LastMrm.state = "STOP"
    /\ LastSafety.mrm <=> LastMrm.reason # ""
    /\ LastMrm.intervention <=> LastSafety.state \in BlockingSafety

\* An accepted trigger_mrm is announced at once and stays announced until a
\* clear_mrm is accepted: no watchdog, timer, parameter or E-stop ends it.
TriggerHolds ==
  serviceMrm => safety["listener"] # << >> /\ LastSafety.state \in BlockingSafety
=============================================================================
