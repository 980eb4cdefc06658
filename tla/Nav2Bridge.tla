----------------------------- MODULE Nav2Bridge ---------------------------
(***************************************************************************)
(* The Nav2 bridge node.  It passes a velocity command of Nav2 on as the   *)
(* autonomy candidate the moment the command arrives, or not at all, and   *)
(* reports on a timer what it would do with a command.  _latest_command    *)
(* and _last_input_time are set together: inputAge stands for both.        *)
(* _state and _output_enabled are computed anew before each use, and       *)
(* _last_output_time is only reported.                                     *)
(***************************************************************************)
EXTENDS HumaWareMsgs, RosRuntime

CONSTANTS InputTimeout    \* command_timeout_s

BridgeConstants == InputTimeout \in Nat /\ InputTimeout < AgeCap

VARIABLES enabled,          \* the parameter of that name
          activeMode,       \* _active_mode
          safetyState,      \* _safety_state
          locomotionState,  \* _locomotion_state
          inputAge,         \* _last_input_time
          autonomy,         \* topic autonomy/cmd_vel
          bridgeState       \* topic navigation/nav2_bridge_state

nodeVars == <<enabled, activeMode, safetyState, locomotionState, inputAge>>
topicVars == <<autonomy, bridgeState>>

\* The locomotion states in which no command is passed on.
NotReady == {"UNKNOWN", "FAULT", "RECOVERING"}

GateOpen ==
  /\ activeMode = "AUTONOMY"
  /\ safetyState \in AllowedSafety
  /\ locomotionState \notin NotReady

\* _update_bridge_state for a last command of the given age.
Status(age) ==
  IF ~enabled THEN "DISABLED"
  ELSE IF age = Never THEN "IDLE"
  ELSE IF Expired(age, InputTimeout) THEN "STALE"
  ELSE IF ~GateOpen THEN "BLOCKED"
  ELSE "ACTIVE"

\* The state in the bridge's report; output_enabled is set in ACTIVE only.
BridgeStates == {"DISABLED", "IDLE", "STALE", "BLOCKED", "ACTIVE"}

NodeInit ==
  /\ enabled = TRUE
  /\ activeMode = "INACTIVE"
  /\ safetyState = "UNKNOWN"
  /\ locomotionState = "UNKNOWN"
  /\ inputAge = Never

Restart ==
  /\ enabled' = TRUE
  /\ activeMode' = "INACTIVE"
  /\ safetyState' = "UNKNOWN"
  /\ locomotionState' = "UNKNOWN"
  /\ inputAge' = Never

SetEnabled(value) ==
  /\ enabled' = value
  /\ UNCHANGED <<activeMode, safetyState, locomotionState, inputAge, topicVars>>

OnModeState(mode) ==
  /\ activeMode' = mode
  /\ UNCHANGED <<enabled, safetyState, locomotionState, inputAge, topicVars>>

OnSafetyState(state) ==
  /\ safetyState' = state
  /\ UNCHANGED <<enabled, activeMode, locomotionState, inputAge, topicVars>>

OnLocomotionState(state) ==
  /\ locomotionState' = state
  /\ UNCHANGED <<enabled, activeMode, safetyState, inputAge, topicVars>>

\* Variant for mutation: only the first command is stamped.
HandleStampedOnce(vel) ==
  /\ inputAge' = IF inputAge = Never THEN 0 ELSE inputAge
  /\ autonomy' = IF Status(0) = "ACTIVE" THEN Publish(autonomy, Sample(vel)) ELSE autonomy
  /\ UNCHANGED <<enabled, activeMode, safetyState, locomotionState, bridgeState>>

\* _on_twist, _on_twist_stamped: a command is stamped with its arrival.
HandleCommand(vel) ==
  /\ inputAge' = 0
  /\ autonomy' = IF Status(0) = "ACTIVE" THEN Publish(autonomy, Sample(vel)) ELSE autonomy
  /\ UNCHANGED <<enabled, activeMode, safetyState, locomotionState, bridgeState>>

Tick ==
  /\ bridgeState' = Publish(bridgeState, Status(inputAge))
  /\ UNCHANGED <<nodeVars, autonomy>>

Age ==
  /\ inputAge' = Older(inputAge)
  /\ UNCHANGED <<enabled, activeMode, safetyState, locomotionState>>

-----------------------------------------------------------------------------
NodeTypeOk ==
  /\ enabled \in BOOLEAN
  /\ activeMode \in Modes
  /\ safetyState \in SafetyStates
  /\ locomotionState \in LocomotionStates \union NotReady
  /\ inputAge \in Ages
=============================================================================
