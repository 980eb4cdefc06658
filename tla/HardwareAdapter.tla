-------------------------- MODULE HardwareAdapter -------------------------
(***************************************************************************)
(* The hardware adapter template node: the last gate before the vendor's   *)
(* controller.  On a timer it either hands the last approved command to    *)
(* the vendor or tells it to stop; a second timer sends heartbeats.        *)
(***************************************************************************)
EXTENDS HumaWareMsgs, RosRuntime

CONSTANTS ApprovedTimeout,     \* approved_command_timeout_s
          ArbitrationTimeout,  \* arbitration_state_timeout_s
          Offered              \* the velocities that approved commands carry

VARIABLES activeMode,      \* _active_mode
          safetyState,     \* _safety_state
          mrmState,        \* _mrm_state
          lastApproved,    \* _last_approved
          approvedAge,     \* age of _last_approved_at
          outputEnabled,   \* _last_arbitration.output_enabled
          arbitrationAge,  \* age of _last_arbitration_at
          applied,         \* what the vendor was last told: a velocity, or Halt
          heartbeat        \* topic hardware/heartbeat

nodeVars == <<activeMode, safetyState, mrmState, lastApproved, approvedAge,
              outputEnabled, arbitrationAge, applied>>
topicVars == <<heartbeat>>
vars == <<nodeVars, topicVars>>

\* _stop_hardware: a stop of the vendor's own, in the shape of a velocity.
Halt == [lin |-> 0, ang |-> 0, halted |-> TRUE]

Apply(vel) == [lin |-> vel.lin, ang |-> vel.ang, halted |-> FALSE]

Outputs == [lin : Int, ang : Int, halted : BOOLEAN]

\* should_release_output.
GateReason ==
  IF safetyState \in BlockingSafety THEN "safety_state_blocks_output"
  ELSE IF safetyState \notin AllowedSafety THEN "safety_state_not_ready"
  ELSE IF mrmState # "NONE" THEN "mrm_state_blocks_output"
  ELSE IF activeMode \notin ActiveModes THEN "active_mode_blocks_output"
  ELSE IF arbitrationAge = Never THEN "waiting_for_arbitration_state"
  ELSE IF Expired(arbitrationAge, ArbitrationTimeout) THEN "arbitration_state_stale"
  ELSE IF ~outputEnabled THEN "arbiter_disabled_output"
  ELSE IF approvedAge = Never THEN "waiting_for_approved_command"
  ELSE IF Expired(approvedAge, ApprovedTimeout) THEN "approved_command_stale"
  ELSE "approved_command"

ReleaseOutput == GateReason = "approved_command"

(***************************************************************************)
(* The callbacks.                                                          *)
(***************************************************************************)
NodeInit ==
  /\ activeMode = "INACTIVE"
  /\ safetyState = "UNKNOWN"
  /\ mrmState = "NONE"
  /\ lastApproved = Zero /\ approvedAge = Never
  /\ outputEnabled = FALSE /\ arbitrationAge = Never
  /\ applied = Halt

\* The process dies, the vendor's own watchdog halts the robot, and the next
\* process starts from the constructor.
Restart ==
  /\ activeMode' = "INACTIVE"
  /\ safetyState' = "UNKNOWN"
  /\ mrmState' = "NONE"
  /\ lastApproved' = Zero /\ approvedAge' = Never
  /\ outputEnabled' = FALSE /\ arbitrationAge' = Never
  /\ applied' = Halt

OnModeState(mode) ==
  /\ activeMode' = mode
  /\ UNCHANGED <<safetyState, mrmState, lastApproved, approvedAge, outputEnabled,
                 arbitrationAge, applied, topicVars>>

OnSafetyState(state) ==
  /\ safetyState' = state
  /\ UNCHANGED <<activeMode, mrmState, lastApproved, approvedAge, outputEnabled,
                 arbitrationAge, applied, topicVars>>

OnMrmState(state) ==
  /\ mrmState' = state
  /\ UNCHANGED <<activeMode, safetyState, lastApproved, approvedAge, outputEnabled,
                 arbitrationAge, applied, topicVars>>

OnApprovedCommand(vel) ==
  /\ lastApproved' = vel
  /\ approvedAge' = 0
  /\ UNCHANGED <<activeMode, safetyState, mrmState, outputEnabled, arbitrationAge,
                 applied, topicVars>>

OnArbitrationState(enabled) ==
  /\ outputEnabled' = enabled
  /\ arbitrationAge' = 0
  /\ UNCHANGED <<activeMode, safetyState, mrmState, lastApproved, approvedAge,
                 applied, topicVars>>

\* Variant for mutation: a closed gate sends the vendor nothing.
TickWithoutStop ==
  /\ applied' = IF ReleaseOutput THEN Apply(lastApproved) ELSE applied
  /\ UNCHANGED <<activeMode, safetyState, mrmState, lastApproved, approvedAge,
                 outputEnabled, arbitrationAge, topicVars>>

\* _tick; the diagnostics it publishes repeat the gate's reason.
Tick ==
  /\ applied' = IF ReleaseOutput THEN Apply(lastApproved) ELSE Halt
  /\ UNCHANGED <<activeMode, safetyState, mrmState, lastApproved, approvedAge,
                 outputEnabled, arbitrationAge, topicVars>>

\* Variant for mutation: the heartbeat stands for an open gate.
PublishHeartbeatWhileOpen ==
  /\ heartbeat' = IF ReleaseOutput THEN Publish(heartbeat, "beat") ELSE heartbeat
  /\ UNCHANGED nodeVars

\* _publish_heartbeat, on a timer of its own.
PublishHeartbeat ==
  /\ heartbeat' = Publish(heartbeat, "beat")
  /\ UNCHANGED nodeVars

Age ==
  /\ approvedAge' = Older(approvedAge)
  /\ arbitrationAge' = Older(arbitrationAge)
  /\ UNCHANGED <<activeMode, safetyState, mrmState, lastApproved, outputEnabled, applied>>

-----------------------------------------------------------------------------
NodeTypeOk ==
  /\ activeMode \in Modes
  /\ safetyState \in SafetyStates
  /\ mrmState \in MrmStates
  /\ lastApproved \in Offered \union {Zero}
  /\ {approvedAge, arbitrationAge} \subseteq Ages
  /\ outputEnabled \in BOOLEAN
  /\ applied \in Outputs
=============================================================================
