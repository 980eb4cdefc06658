------------------------- MODULE CapabilityRegistry -----------------------
(***************************************************************************)
(* The capability registry node.  It derives the state of each capability  *)
(* from the mode, the safety state and the locomotion state that it heard  *)
(* last, and publishes the list once at its start and then on a timer.     *)
(*                                                                         *)
(* The topic is transient local with depth 1: a subscription holds the     *)
(* last list only, and one that starts late is given it as long as the     *)
(* registry that published it lives.                                       *)
(***************************************************************************)
EXTENDS HumaWareMsgs, RosRuntime

VARIABLES activeMode,       \* _mode
          safetyState,      \* _safety
          locomotionState,  \* _locomotion
          capabilities,     \* topic capabilities
          latched           \* the sample kept for late subscriptions

nodeVars == <<activeMode, safetyState, locomotionState>>
topicVars == <<capabilities, latched>>

CapabilityNames == {"stand", "stop", "walk_velocity", "turn_in_place",
                    "recover_posture", "request_teleop"}

CapabilityStates == {"UNAVAILABLE", "IDLE", "EXECUTING", "DEGRADED", "FAULT"}

MotionCapabilities == {"walk_velocity", "turn_in_place"}

RecoverModes == {"MAINTENANCE", "INACTIVE", "TELEOP"}

ExecutingLocomotion == {"WALKING", "TURNING"}

\* The tests that apply when safety asks for no intervention.
Permitted(name, mode, safety) ==
  /\ safety # "UNKNOWN"
  /\ name \in MotionCapabilities => mode \in ActiveModes
  /\ name = "recover_posture" => mode \in RecoverModes
  /\ name = "stand" => mode # "MAINTENANCE"

CapabilityState(name, mode, safety, locomotion) ==
  IF mode = "SHUTDOWN" THEN "UNAVAILABLE"
  ELSE IF name = "stop" THEN "IDLE"
  ELSE IF name = "request_teleop"
       THEN IF safety \in BlockingSafety THEN "DEGRADED" ELSE "IDLE"
  ELSE IF safety \in {"FAULT", "ESTOP"} THEN "FAULT"
  ELSE IF safety = "MRM"
       THEN IF name = "recover_posture" /\ mode \in RecoverModes
            THEN "DEGRADED" ELSE "UNAVAILABLE"
  ELSE IF ~Permitted(name, mode, safety) THEN "UNAVAILABLE"
  ELSE IF name \in MotionCapabilities /\ locomotion \in ExecutingLocomotion
       THEN "EXECUTING"
  ELSE IF safety = "OK" THEN "IDLE" ELSE "DEGRADED"

\* The list as published, and as served by capabilities/list.
CapabilitiesIn(mode, safety, locomotion) ==
  [name \in CapabilityNames |-> CapabilityState(name, mode, safety, locomotion)]

\* Variant for mutation: the topic is volatile, only the first list is kept.
PublishVolatile(mode, safety, locomotion) ==
  LET list == CapabilitiesIn(mode, safety, locomotion)
  IN  /\ capabilities' = [sub \in DOMAIN capabilities |-> <<list>>]
      /\ latched' = IF latched = << >> THEN <<list>> ELSE latched

PublishCapabilities(mode, safety, locomotion) ==
  LET list == CapabilitiesIn(mode, safety, locomotion)
  IN  /\ capabilities' = [sub \in DOMAIN capabilities |-> <<list>>]
      /\ latched' = <<list>>

-----------------------------------------------------------------------------
NodeInit ==
  /\ activeMode = "UNKNOWN"
  /\ safetyState = "UNKNOWN"
  /\ locomotionState = "UNKNOWN"

\* The constructor, which ends with a publication.
Start ==
  /\ activeMode' = "UNKNOWN"
  /\ safetyState' = "UNKNOWN"
  /\ locomotionState' = "UNKNOWN"
  /\ PublishCapabilities("UNKNOWN", "UNKNOWN", "UNKNOWN")

\* The process dies, and its kept sample with it.
Die ==
  /\ latched' = << >>
  /\ UNCHANGED <<nodeVars, capabilities>>

OnModeState(mode) ==
  /\ activeMode' = mode
  /\ UNCHANGED <<safetyState, locomotionState, topicVars>>

OnSafetyState(state) ==
  /\ safetyState' = state
  /\ UNCHANGED <<activeMode, locomotionState, topicVars>>

OnLocomotionState(state) ==
  /\ locomotionState' = state
  /\ UNCHANGED <<activeMode, safetyState, topicVars>>

Tick ==
  /\ PublishCapabilities(activeMode, safetyState, locomotionState)
  /\ UNCHANGED nodeVars

-----------------------------------------------------------------------------
NodeTypeOk ==
  /\ activeMode \in Modes
  /\ safetyState \in SafetyStates
  /\ locomotionState \in LocomotionStates \union {"UNKNOWN", "RECOVERING", "FAULT"}
=============================================================================
