---------------------------- MODULE SkillServer ---------------------------
(***************************************************************************)
(* The skill server node.  It judges a request by the capabilities, the    *)
(* mode and the safety state that it heard last and turns an accepted one  *)
(* into a single policy candidate.  The skill state that it publishes with *)
(* each decision, and again on a timer, only repeats that decision and is  *)
(* left out.                                                               *)
(***************************************************************************)
EXTENDS HumaWareMsgs, RosRuntime

CONSTANTS Velocity    \* the velocity that a moving skill is asked for

SkillConstants == Velocity \in Velocities

VARIABLES known,         \* _capabilities: the last list, a function or << >>
          activeMode,    \* _mode
          safetyState,   \* _safety
          policy         \* topic policy/cmd_vel

nodeVars == <<known, activeMode, safetyState>>

ExecutableSkills == {"stop", "walk_velocity", "turn_in_place"}

UnsafeStates == {"FAULT", "ESTOP", "MRM"}

Unusable == {"UNKNOWN", "UNAVAILABLE", "FAULT"}

\* Variant for mutation: the mode is left to the capabilities.
DecisionInAnyMode(name) ==
  IF name \notin DOMAIN known THEN "capability_not_found"
  ELSE IF name \notin ExecutableSkills THEN "no_skill_handler"
  ELSE IF name # "stop" /\ safetyState \in UnsafeStates THEN "safety_state_blocks_skill"
  ELSE IF known[name] \in Unusable THEN "capability_not_available"
  ELSE "accepted"

\* evaluate_request
Decision(name) ==
  IF name \notin DOMAIN known THEN "capability_not_found"
  ELSE IF name \notin ExecutableSkills THEN "no_skill_handler"
  ELSE IF name # "stop" /\ safetyState \in UnsafeStates THEN "safety_state_blocks_skill"
  ELSE IF name # "stop" /\ activeMode # "AI_POLICY" THEN "skill_requires_ai_policy_mode"
  ELSE IF known[name] \in Unusable THEN "capability_not_available"
  ELSE "accepted"

Accepts(name) == Decision(name) = "accepted"

\* make_stop_command, sanitize_velocity_command
Command(name) ==
  CASE name = "stop" -> Zero
    [] name = "walk_velocity" -> Velocity
    [] name = "turn_in_place" -> [Velocity EXCEPT !.lin = 0]

-----------------------------------------------------------------------------
NodeInit ==
  /\ known = << >>
  /\ activeMode = "UNKNOWN"
  /\ safetyState = "UNKNOWN"

Restart ==
  /\ known' = << >>
  /\ activeMode' = "UNKNOWN"
  /\ safetyState' = "UNKNOWN"

OnCapabilities(list) ==
  /\ known' = list
  /\ UNCHANGED <<activeMode, safetyState, policy>>

OnModeState(mode) ==
  /\ activeMode' = mode
  /\ UNCHANGED <<known, safetyState, policy>>

OnSafetyState(state) ==
  /\ safetyState' = state
  /\ UNCHANGED <<known, activeMode, policy>>

OnExecuteSkill(name, dryRun) ==
  /\ policy' = IF Accepts(name) /\ ~dryRun THEN Publish(policy, Sample(Command(name))) ELSE policy
  /\ UNCHANGED <<known, activeMode, safetyState>>

-----------------------------------------------------------------------------
NodeTypeOk ==
  /\ activeMode \in Modes
  /\ safetyState \in SafetyStates
=============================================================================
