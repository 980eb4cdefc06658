------------------------- MODULE LocomotionAdapter ------------------------
(***************************************************************************)
(* The mock locomotion adapter node: it turns approved velocity commands   *)
(* into the state of a walking robot, stops it when the runtime blocks     *)
(* motion or commands stop coming, and reports why it stands.              *)
(***************************************************************************)
EXTENDS HumaWareMsgs, RosRuntime

CONSTANTS CommandTimeout,  \* command_timeout_s
          SettleTime,      \* stop_settle_time_s
          Epsilon,         \* walk_epsilon
          Offered          \* the velocities that approved commands carry

ASSUME LocomotionAssumption ==
  /\ CommandTimeout \in Nat /\ CommandTimeout < AgeCap
  /\ SettleTime \in Nat /\ SettleTime <= AgeCap
  /\ Epsilon \in Nat
  /\ Offered \subseteq Velocities

VARIABLES activeMode,    \* _active_mode
          safetyState,   \* _safety_state
          commandAge,    \* age of _last_command_time
          stopAge,       \* age of _stop_started_at
          state,         \* _state
          velocity,      \* _linear_velocity_mps, _angular_velocity_radps
          constraints,   \* _constraints
          locomotion     \* topic locomotion/state

nodeVars == <<activeMode, safetyState, commandAge, stopAge, state, velocity,
              constraints>>
topicVars == <<locomotion>>
vars == <<nodeVars, topicVars>>

RestModes == {"INACTIVE", "MAINTENANCE"}

Constraints == {"waiting_for_mode", "waiting_for_safety_state", "mode_inactive",
                "mode_blocks_locomotion", "safety_blocks_locomotion",
                "waiting_for_command", "command_timeout",
                "approved_stop_command", "runtime_blocks_output"}

\* _is_output_blocked
OutputBlocked == activeMode \notin ActiveModes \/ safetyState \notin AllowedSafety

(***************************************************************************)
(* _begin_stop and _settle_stop_if_ready, for a call made at a time when   *)
(* the stop in progress, if there is one, is `since' old.                  *)
(***************************************************************************)
\* Variant for mutation: a robot that stands no longer says why.
SettleInSilence(since, reasons) ==
  IF since # Never /\ since >= SettleTime
  THEN state' = "STANDING" /\ constraints' = {}
  ELSE state' = "STOPPING" /\ constraints' = reasons

\* Variant for mutation: the settle time is cut short.
SettleEarly(since, reasons) ==
  IF since # Never /\ since + 1 >= SettleTime
  THEN state' = "STANDING" /\ constraints' = IF OutputBlocked THEN reasons ELSE {}
  ELSE state' = "STOPPING" /\ constraints' = reasons

Settle(since, reasons) ==
  IF since # Never /\ since >= SettleTime
  THEN /\ state' = "STANDING"
       /\ constraints' = IF OutputBlocked THEN reasons ELSE {}
  ELSE /\ state' = "STOPPING"
       /\ constraints' = reasons

StopSince ==
  IF state \notin {"STOPPING", "STANDING"} \/ stopAge = Never THEN 0 ELSE stopAge

\* Variant for mutation: the mode is taken for the state at rest.
BeginStopInMode(reason) ==
  /\ velocity' = Zero
  /\ IF activeMode \in RestModes
     THEN state' = activeMode /\ constraints' = {"mode_inactive"} /\ stopAge' = Never
     ELSE stopAge' = StopSince /\ Settle(StopSince, {reason})

\* Variant for mutation: a stop at rest forgets the velocity.
BeginStopRolling(reason) ==
  IF activeMode \in RestModes
  THEN /\ state' = "INACTIVE" /\ constraints' = {"mode_inactive"} /\ stopAge' = Never
       /\ UNCHANGED velocity
  ELSE velocity' = Zero /\ stopAge' = StopSince /\ Settle(StopSince, {reason})

BeginStop(reason) ==
  /\ velocity' = Zero
  /\ IF activeMode \in RestModes
     THEN /\ state' = "INACTIVE"
          /\ constraints' = {"mode_inactive"}
          /\ stopAge' = Never
     ELSE /\ stopAge' = StopSince
          /\ Settle(StopSince, {reason})

(***************************************************************************)
(* The callbacks.                                                          *)
(***************************************************************************)
NodeInit ==
  /\ activeMode = "INACTIVE"
  /\ safetyState = "UNKNOWN"
  /\ commandAge = Never
  /\ stopAge = Never
  /\ state = "INACTIVE"
  /\ velocity = Zero
  /\ constraints = {"waiting_for_mode", "waiting_for_safety_state"}

\* The process dies; the next one starts from the constructor.
Restart ==
  /\ activeMode' = "INACTIVE"
  /\ safetyState' = "UNKNOWN"
  /\ commandAge' = Never
  /\ stopAge' = Never
  /\ state' = "INACTIVE"
  /\ velocity' = Zero
  /\ constraints' = {"waiting_for_mode", "waiting_for_safety_state"}

OnModeState(mode) ==
  /\ activeMode' = mode
  /\ UNCHANGED <<safetyState, commandAge, stopAge, state, velocity, constraints,
                 topicVars>>

OnSafetyState(safety) ==
  /\ safetyState' = safety
  /\ UNCHANGED <<activeMode, commandAge, stopAge, state, velocity, constraints,
                 topicVars>>

StartMoving(vel) ==
  /\ stopAge' = Never
  /\ velocity' = vel
  /\ state' = IF Abs(vel.lin) > Epsilon THEN "WALKING" ELSE "TURNING"
  /\ constraints' = {}

\* _on_approved_cmd
OnApprovedCommand(vel) ==
  /\ commandAge' = 0
  /\ IF Abs(vel.lin) <= Epsilon /\ Abs(vel.ang) <= Epsilon
     THEN BeginStop("approved_stop_command")
     ELSE IF OutputBlocked THEN BeginStop("runtime_blocks_output")
     ELSE StartMoving(vel)
  /\ UNCHANGED <<activeMode, safetyState, topicVars>>

\* Variant for mutation: only the mode and the command's age are watched.
UpdateStateForMode ==
  IF activeMode \in RestModes THEN BeginStop("mode_inactive")
  ELSE IF Expired(commandAge, CommandTimeout) THEN BeginStop("command_timeout")
  ELSE UNCHANGED <<stopAge, velocity, state, constraints>>

\* _update_state_for_runtime
UpdateStateForRuntime ==
  IF activeMode \in RestModes THEN
       BeginStop("mode_inactive")
  ELSE IF activeMode \in {"FAULT", "SHUTDOWN"} THEN
       BeginStop("mode_blocks_locomotion")
  ELSE IF safetyState \in BlockingSafety \union {"UNKNOWN"} THEN
       BeginStop("safety_blocks_locomotion")
  ELSE IF commandAge = Never THEN
       /\ state' = "STANDING"
       /\ constraints' = {"waiting_for_command"}
       /\ UNCHANGED <<stopAge, velocity>>
  ELSE IF Expired(commandAge, CommandTimeout) THEN
       BeginStop("command_timeout")
  ELSE /\ IF state = "STOPPING" THEN Settle(stopAge, constraints)
                                ELSE UNCHANGED <<state, constraints>>
       /\ UNCHANGED <<stopAge, velocity>>

StateMsg == [state |-> state, velocity |-> velocity, constraints |-> constraints,
             navigating |-> activeMode = "AUTONOMY"]

StateMsgs == [state : LocomotionStates, velocity : Velocities,
              constraints : SUBSET Constraints, navigating : BOOLEAN]

\* _tick: the state is published after it has been updated.
Tick ==
  /\ UNCHANGED <<activeMode, safetyState, commandAge>>
  /\ UpdateStateForRuntime
  /\ locomotion' = Publish(locomotion, StateMsg')

Age ==
  /\ commandAge' = Older(commandAge)
  /\ stopAge' = Older(stopAge)
  /\ UNCHANGED <<activeMode, safetyState, state, velocity, constraints>>

(***************************************************************************)
(* The node on its own, with one listener on its topic.                    *)
(***************************************************************************)
Init == NodeInit /\ locomotion = Silent({"listener"})

Next ==
  \/ \E mode \in Modes \ {"UNKNOWN"} : OnModeState(mode)
  \/ \E safety \in SafetyStates : OnSafetyState(safety)
  \/ \E vel \in Offered : OnApprovedCommand(vel)
  \/ Tick
  \/ Restart /\ UNCHANGED topicVars
  \/ Age /\ UNCHANGED topicVars

Spec == Init /\ [][Next]_vars

-----------------------------------------------------------------------------
NodeTypeOk ==
  /\ activeMode \in Modes
  /\ safetyState \in SafetyStates
  /\ commandAge \in Ages
  /\ stopAge \in Ages
  /\ state \in LocomotionStates
  /\ velocity \in Offered \union {Zero}
  /\ constraints \subseteq Constraints

TypeOk ==
  /\ NodeTypeOk
  /\ locomotion \in Topics({"listener"}, StateMsgs)

Moving == {"WALKING", "TURNING"}

\* The reported state and the commanded velocity never disagree, in whatever
\* order commands, mode and safety changes and timer ticks arrive: the robot
\* has a velocity exactly when it walks or turns, and then no stop is in
\* progress, no constraint is reported and a command has been received.
MotionStateAgrees ==
  /\ velocity # Zero <=> state \in Moving
  /\ velocity # Zero => stopAge = Never /\ constraints = {} /\ commandAge # Never

\* A robot that is held still by mode or safety is never reported without the
\* reason why it will not move.
HoldExplained ==
  [][locomotion' # locomotion =>
       LET sample == Latest(locomotion'["listener"])
       IN  OutputBlocked /\ sample.state \notin Moving => sample.constraints # {}]_vars

\* A robot that has been commanded is reported as standing only when it began
\* to stop at least the settle time ago, and a moving robot begins to stop anew.
StandsAfterSettling ==
  [][/\ commandAge # Never /\ state # "STANDING" /\ state' = "STANDING" =>
          stopAge' # Never /\ stopAge' >= SettleTime
     /\ state \in Moving /\ state' \notin Moving => stopAge' \in {Never, 0}]_vars
=============================================================================
