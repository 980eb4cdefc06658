--------------------------- MODULE Reports_proofs -------------------------
(***************************************************************************)
(* What the runtime says about itself: the report of the locomotion        *)
(* adapter, the announcements of the safety manager and the judgments of   *)
(* the two observers, for every value of their parameters and every queue  *)
(* depth, in whatever order callbacks run and however often a process      *)
(* restarts.                                                               *)
(***************************************************************************)
EXTENDS MCReports, Foundations_proofs

(***************************************************************************)
(*                                                                         *)
(* The locomotion adapter.                                                 *)
(*                                                                         *)
(***************************************************************************)

\* The mode manager never sends the unknown mode, and the adapter starts in
\* INACTIVE: of the modes in which it does not move, each is named by a test of
\* _update_state_for_runtime.
ModeKnown == activeMode # "UNKNOWN"

LocInv == TypeOk /\ MotionStateAgrees /\ ModeKnown

\* The variables that the motion state and its report are made of.
motionVars == <<stopAge, state, velocity, constraints>>

MotionTyped ==
  /\ stopAge \in Ages
  /\ state \in LocomotionStates
  /\ velocity \in Offered \union {Zero}
  /\ constraints \subseteq Constraints

(***************************************************************************)
(* Stopping.                                                               *)
(***************************************************************************)

\* A stop is at rest or on the way to it, with the reasons it was given, and is
\* called standing only at the settle time (_settle_stop_if_ready).
LEMMA SettleRests ==
  ASSUME NEW since \in Ages, NEW reasons \in SUBSET Constraints, Settle(since, reasons)
  PROVE  /\ state' \in {"STANDING", "STOPPING"}
         /\ constraints' \in SUBSET Constraints
         /\ constraints' \in {reasons, {}}
         /\ OutputBlocked => constraints' = reasons
         /\ state' = "STANDING" => since # Never /\ since >= SettleTime
BY DEF Settle

\* Whatever the robot was doing, a stop leaves it without velocity, says why
\* while motion is blocked, and counts from now if the robot was moving
\* (_begin_stop).
LEMMA BeginStopRests ==
  ASSUME TypeOk, NEW reason \in Constraints, BeginStop(reason)
  PROVE  /\ MotionTyped'
         /\ velocity' = Zero
         /\ state' \in {"INACTIVE", "STANDING", "STOPPING"}
         /\ OutputBlocked => constraints' # {}
         /\ state' = "STANDING" => stopAge' # Never /\ stopAge' >= SettleTime
         /\ state \in Moving => stopAge' \in {Never, 0}
<1>1. velocity' = Zero
  BY DEF BeginStop
<1>2. CASE activeMode \in RestModes
  BY <1>1, <1>2 DEF BeginStop, MotionTyped, Ages, LocomotionStates, Constraints
<1>3. CASE activeMode \notin RestModes
  <2>1. stopAge' = StopSince /\ Settle(StopSince, {reason})
    BY <1>3 DEF BeginStop
  <2>2. StopSince \in Ages
    BY AgeCapAssumption DEF StopSince, TypeOk, NodeTypeOk, Ages
  <2>3. state \in Moving => StopSince = 0
    BY DEF StopSince, Moving
  <2>4. /\ state' \in {"STANDING", "STOPPING"}
        /\ constraints' \in SUBSET Constraints
        /\ OutputBlocked => constraints' = {reason}
        /\ state' = "STANDING" => StopSince # Never /\ StopSince >= SettleTime
    BY <2>1, <2>2, SettleRests
  <2>5. QED
    BY <1>1, <2>1, <2>2, <2>3, <2>4 DEF MotionTyped, LocomotionStates
<1>4. QED
  BY <1>2, <1>3

\* A step that leaves the robot at rest: without velocity, called standing only
\* after the settle time, and with a stop on record that began now if it moved.
Rests ==
  /\ velocity' = Zero
  /\ state' \notin Moving
  /\ commandAge # Never /\ state # "STANDING" /\ state' = "STANDING"
       => stopAge' # Never /\ stopAge' >= SettleTime
  /\ state \in Moving => stopAge' \in {Never, 0}

\* Every stop is such a step, and says why while motion is blocked.
LEMMA StopsRest ==
  ASSUME LocInv, NEW reason \in Constraints, BeginStop(reason)
  PROVE  MotionTyped' /\ Rests /\ (OutputBlocked => constraints' # {})
<1>1. /\ MotionTyped'
      /\ velocity' = Zero
      /\ state' \in {"INACTIVE", "STANDING", "STOPPING"}
      /\ OutputBlocked => constraints' # {}
      /\ state' = "STANDING" => stopAge' # Never /\ stopAge' >= SettleTime
      /\ state \in Moving => stopAge' \in {Never, 0}
  BY BeginStopRests DEF LocInv
<1>2. QED
  BY <1>1 DEF Rests, Moving

\* An approved command above the threshold on either axis moves the robot, and
\* every other one stops it (_on_approved_cmd).
LEMMA CommandMovesOrStops ==
  ASSUME LocInv, NEW vel \in Offered, OnApprovedCommand(vel)
  PROVE  /\ MotionTyped' /\ commandAge' = 0
         /\ \/ Rests
            \/ velocity' # Zero /\ state' \in Moving /\ stopAge' = Never /\ constraints' = {}
<1>1. commandAge' = 0
  BY DEF OnApprovedCommand
<1> DEFINE small == Abs(vel.lin) <= Epsilon /\ Abs(vel.ang) <= Epsilon
<1>2. CASE small \/ OutputBlocked
  <2>1. \E reason \in Constraints : BeginStop(reason)
    BY <1>2 DEF OnApprovedCommand, Constraints
  <2>2. QED
    BY <1>1, <2>1, StopsRest
<1>3. CASE ~small /\ ~OutputBlocked
  <2>1. StartMoving(vel)
    BY <1>3 DEF OnApprovedCommand
  <2>2. vel # Zero
    <3>1. SUFFICES ASSUME vel = Zero PROVE small
      BY <1>3
    <3>2. QED
      BY <3>1, LocomotionAssumption DEF Zero, Abs
  <2>3. QED
    BY <1>1, <2>1, <2>2 DEF StartMoving, MotionTyped, Moving, LocomotionStates, Ages
<1>4. QED
  BY <1>2, <1>3

\* The timer stops the robot, or leaves it as it is, or ends its stop
\* (_update_state_for_runtime).
LEMMA UpdateStopsOrKeeps ==
  ASSUME LocInv, UpdateStateForRuntime
  PROVE  /\ MotionTyped'
         /\ Rests \/ UNCHANGED motionVars
         /\ OutputBlocked => constraints' # {}
<1> USE DEF LocInv, TypeOk, NodeTypeOk
<1>1. CASE \E reason \in Constraints : BeginStop(reason)
  BY <1>1, StopsRest
<1>2. CASE /\ ~ \E reason \in Constraints : BeginStop(reason)
           /\ commandAge = Never
  <2>1. /\ state' = "STANDING" /\ constraints' = {"waiting_for_command"}
        /\ UNCHANGED <<stopAge, velocity>>
    BY <1>2 DEF UpdateStateForRuntime, Constraints
  <2>2. velocity = Zero /\ state \notin Moving
    BY <1>2 DEF MotionStateAgrees
  <2>3. QED
    BY <1>2, <2>1, <2>2 DEF Rests, Moving, MotionTyped, LocomotionStates, Constraints
<1>3. CASE /\ ~ \E reason \in Constraints : BeginStop(reason)
           /\ commandAge # Never
  <2>1. /\ activeMode \notin RestModes \union {"FAULT", "SHUTDOWN"}
        /\ safetyState \notin BlockingSafety \union {"UNKNOWN"}
        /\ IF state = "STOPPING" THEN Settle(stopAge, constraints)
                                 ELSE UNCHANGED <<state, constraints>>
        /\ UNCHANGED <<stopAge, velocity>>
    BY <1>3 DEF UpdateStateForRuntime, Constraints
  <2>2. ~OutputBlocked
    BY <2>1 DEF OutputBlocked, ModeKnown, Modes, SafetyStates, RestModes, ActiveModes,
                BlockingSafety, AllowedSafety
  <2>3. CASE state = "STOPPING"
    <3>1. /\ state' \in {"STANDING", "STOPPING"}
          /\ constraints' \in SUBSET Constraints
          /\ state' = "STANDING" => stopAge # Never /\ stopAge >= SettleTime
      BY <2>1, <2>3, SettleRests
    <3>2. velocity = Zero
      BY <2>3 DEF MotionStateAgrees, Moving
    <3>3. QED
      BY <2>1, <2>2, <2>3, <3>1, <3>2 DEF Rests, Moving, MotionTyped, LocomotionStates
  <2>4. CASE state # "STOPPING"
    BY <2>1, <2>2, <2>4 DEF motionVars, MotionTyped
  <2>5. QED
    BY <2>3, <2>4
<1>4. QED
  BY <1>1, <1>2, <1>3

(***************************************************************************)
(* The invariant.                                                          *)
(***************************************************************************)

\* What the timer publishes is a message of the topic, and the last one.
LEMMA StatePublished ==
  ASSUME LocInv, Tick
  PROVE  /\ locomotion' \in Topics({"listener"}, StateMsgs)
         /\ Latest(locomotion'["listener"]) = StateMsg'
<1>1. MotionTyped'
  BY UpdateStopsOrKeeps DEF Tick
<1>2. Offered \union {Zero} \subseteq Velocities
  BY LocomotionAssumption DEF Velocities, Zero
<1>3. StateMsg' \in StateMsgs
  BY <1>1, <1>2 DEF StateMsg, StateMsgs, MotionTyped
<1>4. locomotion \in Topics({"listener"}, StateMsgs)
  BY DEF LocInv, TypeOk
<1>5. locomotion' = Publish(locomotion, StateMsg')
  BY DEF Tick
<1>6. QED
  BY <1>3, <1>4, <1>5, PublishType

\* The types, the agreement of motion and state and the known mode are inductive.
LEMMA LocInvariant == Spec => []LocInv
<1> USE DEF LocInv, TypeOk
<1>1. Init => LocInv
  <2>1. NodeInit => NodeTypeOk /\ MotionStateAgrees /\ ModeKnown
    BY DEF NodeInit, NodeTypeOk, MotionStateAgrees, ModeKnown, Moving, Modes, SafetyStates,
           LocomotionStates, Constraints, Ages
  <2>2. QED
    BY <2>1, SilentType DEF Init
<1>2. LocInv /\ [Next]_vars => LocInv'
  <2> SUFFICES ASSUME LocInv, [Next]_vars PROVE LocInv'
    OBVIOUS
  <2>1. ASSUME NEW mode \in Modes \ {"UNKNOWN"}, OnModeState(mode) PROVE LocInv'
    BY <2>1 DEF OnModeState, topicVars, NodeTypeOk, MotionStateAgrees, ModeKnown
  <2>2. ASSUME NEW heard \in SafetyStates, OnSafetyState(heard) PROVE LocInv'
    BY <2>2 DEF OnSafetyState, topicVars, NodeTypeOk, MotionStateAgrees, ModeKnown
  <2>3. ASSUME NEW vel \in Offered, OnApprovedCommand(vel) PROVE LocInv'
    <3>1. /\ MotionTyped' /\ commandAge' = 0
          /\ \/ Rests
             \/ velocity' # Zero /\ state' \in Moving /\ stopAge' = Never /\ constraints' = {}
      BY <2>3, CommandMovesOrStops
    <3>2. 0 \in Ages /\ 0 # Never
      BY AgeCapAssumption DEF Ages, Never
    <3>3. QED
      BY <2>3, <3>1, <3>2 DEF OnApprovedCommand, topicVars, NodeTypeOk, MotionTyped,
                              MotionStateAgrees, ModeKnown, Rests
  <2>4. CASE Tick
    <3>1. MotionTyped' /\ (Rests \/ UNCHANGED motionVars)
      BY <2>4, UpdateStopsOrKeeps DEF Tick
    <3>2. NodeTypeOk' /\ ModeKnown' /\ MotionStateAgrees'
      BY <2>4, <3>1 DEF Tick, motionVars, NodeTypeOk, MotionTyped, MotionStateAgrees,
                        ModeKnown, Rests
    <3>3. QED
      BY <2>4, <3>2, StatePublished
  <2>5. CASE Restart /\ UNCHANGED topicVars
    BY <2>5 DEF Restart, topicVars, NodeTypeOk, MotionStateAgrees, ModeKnown, Moving, Modes,
                SafetyStates, LocomotionStates, Constraints, Ages
  <2>6. CASE Age /\ UNCHANGED topicVars
    <3>1. /\ commandAge' \in Ages /\ stopAge' \in Ages
          /\ (commandAge' = Never <=> commandAge = Never)
          /\ (stopAge' = Never <=> stopAge = Never)
      BY <2>6, OlderType DEF Age, NodeTypeOk
    <3>2. QED
      BY <2>6, <3>1 DEF Age, topicVars, NodeTypeOk, MotionStateAgrees, ModeKnown
  <2>7. CASE UNCHANGED vars
    BY <2>7 DEF vars, nodeVars, topicVars, NodeTypeOk, MotionStateAgrees, ModeKnown
  <2>8. QED
    BY <2>1, <2>2, <2>3, <2>4, <2>5, <2>6, <2>7 DEF Next
<1>3. QED
  BY <1>1, <1>2, PTL DEF Spec

\* The node's variables and its topic keep their types.
THEOREM LocomotionTyped == Spec => []TypeOk
BY LocInvariant, PTL DEF LocInv

\* The robot has a velocity exactly when it is reported as walking or turning,
\* and then no stop is in progress and nothing holds it.
THEOREM MotionAndStateAgree == Spec => []MotionStateAgrees
BY LocInvariant, PTL DEF LocInv

(***************************************************************************)
(* What a step may do.                                                     *)
(***************************************************************************)

\* Every report of a robot that is held still says why.
THEOREM HoldsExplained == Spec => HoldExplained
<1> DEFINE Explained == LET sample == Latest(locomotion'["listener"])
                        IN  OutputBlocked /\ sample.state \notin Moving => sample.constraints # {}
<1>1. LocInv /\ [Next]_vars => (locomotion' # locomotion => Explained)
  <2> SUFFICES ASSUME LocInv, [Next]_vars, locomotion' # locomotion PROVE Explained
    OBVIOUS
  <2>1. Tick
    BY DEF Next, OnModeState, OnSafetyState, OnApprovedCommand, vars, topicVars
  <2>2. OutputBlocked => constraints' # {}
    BY <2>1, UpdateStopsOrKeeps DEF Tick
  <2>3. Latest(locomotion'["listener"]).constraints = constraints'
    BY <2>1, StatePublished DEF StateMsg
  <2>4. QED
    BY <2>2, <2>3
<1>2. QED
  BY <1>1, LocInvariant, PTL DEF Spec, HoldExplained

\* Standing is reported no sooner than the settle time after the stop began, and
\* a moving robot begins a stop anew.
THEOREM SettlesBeforeStanding == Spec => StandsAfterSettling
<1> DEFINE Settled ==
      /\ commandAge # Never /\ state # "STANDING" /\ state' = "STANDING"
           => stopAge' # Never /\ stopAge' >= SettleTime
      /\ state \in Moving /\ state' \notin Moving => stopAge' \in {Never, 0}
<1>1. LocInv /\ [Next]_vars => Settled
  <2> SUFFICES ASSUME LocInv, [Next]_vars PROVE Settled
    OBVIOUS
  <2>1. CASE Rests
    BY <2>1 DEF Rests
  <2>2. CASE UNCHANGED state
    BY <2>2
  <2>3. CASE state' \in Moving
    BY <2>3 DEF Moving
  <2>4. CASE Restart
    BY <2>4 DEF Restart
  <2>5. ASSUME NEW vel \in Offered, OnApprovedCommand(vel) PROVE Rests \/ state' \in Moving
    BY <2>5, CommandMovesOrStops
  <2>6. Tick => Rests \/ UNCHANGED state
    BY UpdateStopsOrKeeps DEF Tick, motionVars
  <2>7. QED
    BY <2>1, <2>2, <2>3, <2>4, <2>5, <2>6
       DEF Next, OnModeState, OnSafetyState, Age, vars, nodeVars
<1>2. QED
  BY <1>1, LocInvariant, PTL DEF Spec, StandsAfterSettling

(***************************************************************************)
(*                                                                         *)
(* The safety manager.                                                     *)
(*                                                                         *)
(***************************************************************************)

\* The instance uses the runtime's operators under its own name for them, with
\* a cap of its own on ages.
LEMMA SafetyRuntime ==
  /\ \A topic, msg : SM!Publish(topic, msg) = Publish(topic, msg)
  /\ \A subs, Msgs : SM!Topics(subs, Msgs) = Topics(subs, Msgs)
  /\ \A subs : SM!Silent(subs) = Silent(subs)
  /\ \A queue : SM!Latest(queue) = Latest(queue)
  /\ \A age \in SM!Ages : SM!Older(age) \in SM!Ages
<1>1. \A age \in SM!Ages : SM!Older(age) \in SM!Ages
  BY ReportsAssumption DEF SM!Ages, SM!Older, SM!Never
<1>2. QED
  BY <1>1 DEF SM!Publish, Publish, SM!Enqueue, Enqueue, SM!Topics, Topics, SM!Silent,
              Silent, SM!Latest, Latest

(***************************************************************************)
(* One evaluation.                                                         *)
(***************************************************************************)

\* The reason that goes with an evaluation is one of the known ones, and there is
\* one exactly when an MRM is active (select_mrm_reason).
LEMMA ReasonOfMrm ==
  ASSUME SM!NodeTypeOk
  PROVE  /\ SM!MrmReason \in SM!Watchdogs \union {"", "operator", "service", "parameter_mrm_active"}
         /\ SM!MrmActive <=> SM!MrmReason # ""
<1>1. SM!FirstOf(SM!MrmReasons) \in SM!Watchdogs
  BY DEF SM!FirstOf, SM!Watchdogs
<1>2. "" \notin SM!Watchdogs
  BY DEF SM!Watchdogs
<1>3. QED
  BY <1>1, <1>2, ReportsAssumption DEF SM!MrmReason, SM!MrmActive, SM!SafetyConstants

\* What the two messages of one evaluation have to do with each other.
MessagesAgree ==
  /\ SM!SafetyMsg \in SM!SafetyMsgs /\ SM!MrmMsg \in SM!MrmMsgs
  /\ SM!SafetyMsg.state = "ESTOP" <=> SM!MrmMsg.state = "FAULT"
  /\ SM!SafetyMsg.state = "MRM" <=> SM!MrmMsg.state = "STOP"
  /\ SM!SafetyMsg.mrm <=> SM!MrmMsg.reason # ""
  /\ SM!MrmMsg.intervention <=> SM!SafetyMsg.state \in SM!BlockingSafety
  /\ serviceMrm => SM!SafetyMsg.state \in SM!BlockingSafety

\* Both messages of an evaluation are messages of their topics and say the same.
LEMMA EvaluationAgrees ==
  ASSUME SM!NodeTypeOk
  PROVE  MessagesAgree
<1>1. /\ estop \in BOOLEAN /\ parameterMrm \in BOOLEAN /\ serviceMrm \in BOOLEAN
      /\ SM!MrmActive \in BOOLEAN
  BY DEF SM!NodeTypeOk, SM!MrmActive
<1>2. /\ SM!MrmReason \in SM!Watchdogs \union {"", "operator", "service", "parameter_mrm_active"}
      /\ SM!MrmActive <=> SM!MrmReason # ""
  BY ReasonOfMrm
<1>3. SM!SafetyMsg \in SM!SafetyMsgs /\ SM!MrmMsg \in SM!MrmMsgs
  BY <1>1, <1>2 DEF SM!SafetyMsg, SM!SafetyMsgs, SM!MrmMsg, SM!MrmMsgs, SM!Evaluated, SM!MrmStates
<1>4. /\ SM!SafetyMsg.state = SM!Evaluated /\ SM!SafetyMsg.mrm = SM!MrmActive
      /\ SM!MrmMsg.state = IF estop THEN "FAULT" ELSE IF SM!MrmActive THEN "STOP" ELSE "NONE"
      /\ SM!MrmMsg.reason = SM!MrmReason /\ SM!MrmMsg.intervention = (SM!MrmActive \/ estop)
  BY DEF SM!SafetyMsg, SM!MrmMsg
<1>5. serviceMrm => SM!MrmActive
  BY DEF SM!MrmActive
<1>6. QED
  BY <1>1, <1>2, <1>3, <1>4, <1>5 DEF MessagesAgree, SM!Evaluated, SM!BlockingSafety

\* The same of the evaluation at the end of a step, which is when it is made.
LEMMA NextEvaluationAgrees == SM!NodeTypeOk' => MessagesAgree'
<1>1. SM!NodeTypeOk => MessagesAgree
  BY EvaluationAgrees
<1>2. QED
  BY <1>1, PTL

(***************************************************************************)
(* The invariant.  Trigger, clear and timer publish what they evaluate, on *)
(* both topics; everything else leaves the topics and the service's MRM    *)
(* alone, except for a restart, which forgets that MRM.                    *)
(***************************************************************************)
Announced == SM!SafetyAndMrmAgree /\ SM!TriggerHolds

SafetyInv == SM!TypeOk /\ Announced

\* One publication establishes the invariant whatever the topics held before.
LEMMA PublicationAnnounces ==
  ASSUME SM!TypeOk, SM!NodeTypeOk', SM!PublishState
  PROVE  SafetyInv'
<1>1. MessagesAgree'
  BY NextEvaluationAgrees
<1>2. /\ safety' \in Topics({"listener"}, SM!SafetyMsgs)
      /\ safety'["listener"] # << >> /\ Latest(safety'["listener"]) = SM!SafetyMsg'
  <2>1. safety \in Topics({"listener"}, SM!SafetyMsgs) /\ SM!SafetyMsg' \in SM!SafetyMsgs
    BY <1>1, SafetyRuntime DEF SM!TypeOk, MessagesAgree
  <2>2. safety' = Publish(safety, SM!SafetyMsg')
    BY SafetyRuntime DEF SM!PublishState
  <2>3. QED
    BY <2>1, <2>2, PublishType
<1>3. /\ mrm' \in Topics({"listener"}, SM!MrmMsgs)
      /\ Latest(mrm'["listener"]) = SM!MrmMsg'
  <2>1. mrm \in Topics({"listener"}, SM!MrmMsgs) /\ SM!MrmMsg' \in SM!MrmMsgs
    BY <1>1, SafetyRuntime DEF SM!TypeOk, MessagesAgree
  <2>2. mrm' = Publish(mrm, SM!MrmMsg')
    BY SafetyRuntime DEF SM!PublishState
  <2>3. QED
    BY <2>1, <2>2, PublishType
<1>4. QED
  BY <1>1, <1>2, <1>3, SafetyRuntime
     DEF MessagesAgree, SafetyInv, SM!TypeOk, Announced, SM!SafetyAndMrmAgree, SM!TriggerHolds,
         SM!LastSafety, SM!LastMrm

\* The invariant holds in every behaviour.
LEMMA SafetyInvariant == SM!Spec => []SafetyInv
<1>1. SM!Init => SafetyInv
  <2>1. SM!NodeInit => SM!NodeTypeOk
    BY DEF SM!NodeInit, SM!NodeTypeOk, SM!Modes, SM!Ages
  <2>2. QED
    BY <2>1, SilentType, SafetyRuntime
       DEF SM!Init, SafetyInv, SM!TypeOk, Announced, SM!SafetyAndMrmAgree, SM!TriggerHolds, Silent,
           SM!NodeInit
<1>2. SafetyInv /\ [SM!Next]_SM!vars => SafetyInv'
  <2> SUFFICES ASSUME SafetyInv, [SM!Next]_SM!vars PROVE SafetyInv'
    OBVIOUS
  <2> USE DEF SafetyInv, SM!TypeOk
  <2>1. ASSUME SM!NodeTypeOk', UNCHANGED SM!topicVars, serviceMrm' => serviceMrm PROVE SafetyInv'
    BY <2>1 DEF SM!topicVars, Announced, SM!SafetyAndMrmAgree, SM!TriggerHolds, SM!LastSafety, SM!LastMrm
  <2>2. 0 \in SM!Ages /\ SM!Never \in SM!Ages
    BY ReportsAssumption DEF SM!Ages
  <2>3. CASE SM!OnTeleopHeartbeat \/ SM!OnHardwareHeartbeat \/ SM!OnApprovedCommand
    BY <2>1, <2>2, <2>3
       DEF SM!OnTeleopHeartbeat, SM!OnHardwareHeartbeat, SM!OnApprovedCommand, SM!NodeTypeOk
  <2>4. ASSUME NEW mode \in SM!Modes, SM!OnModeState(mode) PROVE SafetyInv'
    BY <2>1, <2>4 DEF SM!OnModeState, SM!NodeTypeOk
  <2>5. ASSUME NEW engaged \in BOOLEAN, SM!SetEstop(engaged) PROVE SafetyInv'
    BY <2>1, <2>5 DEF SM!SetEstop, SM!NodeTypeOk
  <2>6. ASSUME NEW active \in BOOLEAN, SM!SetParameterMrm(active) PROVE SafetyInv'
    BY <2>1, <2>6 DEF SM!SetParameterMrm, SM!NodeTypeOk
  <2>7. CASE SM!TriggerMrm \/ SM!ClearMrm \/ SM!Tick
    <3>1. SM!NodeTypeOk' /\ SM!PublishState
      BY <2>7 DEF SM!TriggerMrm, SM!ClearMrm, SM!Tick, SM!nodeVars, SM!NodeTypeOk
    <3>2. QED
      BY <3>1, PublicationAnnounces
  <2>8. CASE SM!Restart /\ UNCHANGED SM!topicVars
    BY <2>1, <2>2, <2>8 DEF SM!Restart, SM!NodeTypeOk, SM!Modes
  <2>9. CASE SM!Age /\ UNCHANGED SM!topicVars
    <3>1. {teleopAge', hardwareAge', approvedAge'} \subseteq SM!Ages
      BY <2>9, SafetyRuntime DEF SM!Age, SM!NodeTypeOk
    <3>2. QED
      BY <2>1, <2>9, <3>1 DEF SM!Age, SM!NodeTypeOk
  <2>10. CASE UNCHANGED SM!vars
    BY <2>1, <2>10 DEF SM!vars, SM!nodeVars, SM!NodeTypeOk
  <2>11. QED
    BY <2>3, <2>4, <2>5, <2>6, <2>7, <2>8, <2>9, <2>10 DEF SM!Next
<1>3. QED
  BY <1>1, <1>2, PTL DEF SM!Spec

\* The node's variables and its two topics keep their types.
THEOREM SafetyTyped == SM!Spec => []SafetyTypeOk
<1>1. SM!Spec => []SafetyInv
  BY SafetyInvariant
<1>2. QED
  BY <1>1, PTL DEF SafetyInv, SafetyTypeOk

\* The safety state and the MRM state that were published last never contradict
\* each other, whichever of the four ways into an MRM and the E-stop are in
\* force, and an MRM always comes with its reason.
THEOREM TopicsAgree == SM!Spec => []SafetyAndMrmAgree
<1>1. SM!Spec => []SafetyInv
  BY SafetyInvariant
<1>2. QED
  BY <1>1, PTL DEF SafetyInv, Announced, SafetyAndMrmAgree

\* A triggered MRM stays announced until a clear is accepted.
THEOREM TriggersHold == SM!Spec => []TriggerHolds
<1>1. SM!Spec => []SafetyInv
  BY SafetyInvariant
<1>2. QED
  BY <1>1, PTL DEF SafetyInv, Announced, TriggerHolds

(***************************************************************************)
(*                                                                         *)
(* The observers.                                                          *)
(*                                                                         *)
(***************************************************************************)

\* What the observers' parameters are to each other.
LEMMA ObserverParameters ==
  /\ ShortCap \in Nat /\ StaleTimeout \in Nat /\ StaleTimeout < ShortCap
  /\ MaxGap = StaleTimeout /\ Horizon \in Nat
  /\ Obs!Bound = StaleTimeout + 1
  /\ Listened \subseteq Obs!InBag /\ "runtime/health" \in Obs!InBag \ Listened
  /\ Obs!Agg!RequiredTopics \subseteq Listened
  /\ Listened \intersect {"safety/state", "locomotion/state"} \subseteq Obs!Agg!RequiredTopics
  /\ \A topic \in Listened : "none" \notin StatesOf(topic)
BY ReportsAssumption
   DEF Obs!ObserversConstants, Obs!Agg!DiagnosticsConstants, Obs!Bound, Obs!InBag,
       Obs!Agg!RequiredTopics, Obs!Agg!BaseRequiredTopics, Obs!Agg!OptionalTopics

(***************************************************************************)
(* The recording and the evaluator's summaries of it.                      *)
(***************************************************************************)

\* No message of the topic strictly between the two moments.
Quiet(topic, from, to) == recorded[topic] \intersect (from + 1)..(to - 1) = {}

\* The four numbers of a topic: its first and last stamps, and the longest time
\* between them in which nothing was recorded.
Summarised(topic) ==
  LET first == summaries[topic].first
      last == summaries[topic].last
      gap == summaries[topic].maxGap
  IN  /\ summaries[topic] \in [count : Nat, first : Nat, last : Nat, maxGap : Nat]
      /\ first \in recorded[topic] /\ last \in recorded[topic]
      /\ recorded[topic] \subseteq first..last
      /\ \A from, to \in first..last : Quiet(topic, from, to) => to - from <= gap
      /\ gap > 0 => \E from, to \in recorded[topic] : to - from = gap /\ Quiet(topic, from, to)

\* Some topic was recorded first, and some topic last.
Bracketed ==
  DOMAIN summaries # {} =>
    /\ \E head \in DOMAIN summaries : \A topic \in DOMAIN summaries :
         summaries[head].first <= summaries[topic].first
    /\ \E tail \in DOMAIN summaries : \A topic \in DOMAIN summaries :
         summaries[topic].last <= summaries[tail].last

RecordTyped ==
  /\ now \in 0..Horizon
  /\ recorded \in [Obs!InBag -> SUBSET (0..now)]
  /\ DOMAIN summaries = {topic \in Obs!InBag : recorded[topic] # {}}

RecordInv ==
  /\ RecordTyped
  /\ \A topic \in DOMAIN summaries : Summarised(topic)
  /\ Bracketed

\* A message that is recorded and read keeps the summaries right (Continued,
\* First): its stamp is later than all of its topic's.
LEMMA RecordingSummarised ==
  ASSUME RecordInv, NEW topic \in Obs!InBag, now \notin recorded[topic],
         Obs!Record(topic), UNCHANGED now
  PROVE  RecordInv'
<1>1. /\ now \in Nat
      /\ recorded' = [recorded EXCEPT ![topic] = @ \union {now}]
      /\ recorded \in [Obs!InBag -> SUBSET (0..now)]
      /\ DOMAIN summaries = {t \in Obs!InBag : recorded[t] # {}}
  BY ObserverParameters DEF RecordInv, RecordTyped, Obs!Record
<1>2. /\ recorded'[topic] = recorded[topic] \union {now}
      /\ \A t \in Obs!InBag \ {topic} : recorded'[t] = recorded[t]
  BY <1>1
<1>3. RecordTyped'
  <2>1. recorded' \in [Obs!InBag -> SUBSET (0..now)]
    BY <1>1
  <2>2. DOMAIN summaries' = DOMAIN summaries \union {topic}
    BY DEF Obs!Record, Obs!Bag!Read
  <2>3. DOMAIN summaries' = {t \in Obs!InBag : recorded'[t] # {}}
    BY <1>1, <1>2, <2>2
  <2>4. QED
    BY <2>1, <2>3 DEF RecordInv, RecordTyped
<1>4. /\ \A t \in DOMAIN summaries \ {topic} : summaries'[t] = summaries[t]
      /\ topic \notin DOMAIN summaries => summaries'[topic] = Obs!Bag!First(now)
      /\ topic \in DOMAIN summaries =>
           summaries'[topic] = Obs!Bag!Continued(summaries[topic], now)
      /\ DOMAIN summaries' = DOMAIN summaries \union {topic}
  BY DEF Obs!Record, Obs!Bag!Read
<1>5. ASSUME NEW t \in DOMAIN summaries \ {topic} PROVE Summarised(t)'
  <2>1. Summarised(t) /\ summaries'[t] = summaries[t] /\ recorded'[t] = recorded[t]
    BY <1>1, <1>2, <1>4, <1>5 DEF RecordInv
  <2>2. QED
    BY <2>1 DEF Summarised, Quiet
<1>6. /\ Summarised(topic)'
      /\ summaries'[topic].last = now
      /\ topic \in DOMAIN summaries => summaries'[topic].first = summaries[topic].first
      /\ topic \notin DOMAIN summaries => summaries'[topic].first = now
  <2>1. CASE topic \notin DOMAIN summaries
    <3>1. recorded'[topic] = {now}
      BY <1>1, <1>2, <2>1
    <3>2. summaries'[topic] = [count |-> 1, first |-> now, last |-> now, maxGap |-> 0]
      BY <1>4, <2>1 DEF Obs!Bag!First
    <3>3. \A from, to \in now..now : to - from <= 0
      BY <1>1
    <3>4. QED
      BY <1>1, <2>1, <3>1, <3>2, <3>3 DEF Summarised, Quiet
  <2>2. CASE topic \in DOMAIN summaries
    <3> DEFINE first == summaries[topic].first
               last == summaries[topic].last
               gap == summaries[topic].maxGap
               newGap == summaries'[topic].maxGap
    <3>1. /\ summaries[topic] \in [count : Nat, first : Nat, last : Nat, maxGap : Nat]
          /\ first \in recorded[topic] /\ last \in recorded[topic]
          /\ recorded[topic] \subseteq first..last
          /\ \A from, to \in first..last : Quiet(topic, from, to) => to - from <= gap
          /\ gap > 0 => \E from, to \in recorded[topic] :
                          to - from = gap /\ Quiet(topic, from, to)
      BY <2>2 DEF RecordInv, Summarised
    <3>2. first \in Nat /\ last \in Nat /\ gap \in Nat /\ first <= last /\ last < now
      BY <1>1, <3>1
    <3>3. /\ summaries'[topic] \in [count : Nat, first : Nat, last : Nat, maxGap : Nat]
          /\ summaries'[topic].first = first
          /\ summaries'[topic].last = now
          /\ newGap = IF gap < now - last THEN now - last ELSE gap
      <4>1. /\ summaries'[topic].count = summaries[topic].count + 1
            /\ summaries'[topic].first = first /\ summaries'[topic].last = now
            /\ newGap = Obs!Bag!Larger(gap, now - last)
            /\ summaries'[topic] = [count |-> summaries'[topic].count, first |-> first,
                                    last |-> now, maxGap |-> newGap]
        BY <1>4, <2>2, <3>1 DEF Obs!Bag!Continued
      <4>2. newGap = IF gap < now - last THEN now - last ELSE gap
        BY <4>1 DEF Obs!Bag!Larger
      <4> HIDE DEF first, last, gap, newGap
      <4>3. newGap \in Nat
        BY <1>1, <3>2, <4>2
      <4>4. summaries'[topic].count \in Nat
        BY <3>1, <4>1
      <4>5. QED
        BY <1>1, <3>2, <4>1, <4>2, <4>3, <4>4
    <3> HIDE DEF first, last, gap, newGap
    <3>4. newGap \in Nat /\ newGap >= gap /\ newGap >= now - last
      BY <1>1, <3>2, <3>3
    <3>5. recorded'[topic] \subseteq first..now
      BY <1>1, <1>2, <3>1, <3>2
    <3>6. ASSUME NEW from \in first..now, NEW to \in first..now, Quiet(topic, from, to)'
          PROVE  to - from <= newGap
      <4>1. \A stamp \in recorded[topic] : ~(from < stamp /\ stamp < to)
        BY <1>1, <1>2, <3>2, <3>6 DEF Quiet
      <4>2. CASE to <= last
        <5>1. CASE from <= last
          <6>1. Quiet(topic, from, to)
            BY <1>2, <3>6 DEF Quiet
          <6>2. to - from <= gap
            BY <3>1, <3>2, <4>2, <5>1, <6>1
          <6>3. QED
            BY <1>1, <3>2, <3>4, <6>2
        <5>2. CASE from > last
          BY <1>1, <3>2, <3>4, <4>2, <5>2
        <5>3. QED
          BY <3>2, <5>1, <5>2
      <4>3. CASE to > last
        <5>1. from >= last
          BY <1>1, <3>1, <3>2, <4>1, <4>3
        <5>2. QED
          BY <1>1, <3>2, <3>4, <5>1
      <4>4. QED
        BY <1>1, <3>2, <4>2, <4>3
    <3>7. ASSUME newGap > 0
          PROVE  \E from, to \in recorded'[topic] :
                   to - from = newGap /\ Quiet(topic, from, to)'
      <4>1. CASE newGap = gap
        <5>1. PICK from, to \in recorded[topic] : to - from = gap /\ Quiet(topic, from, to)
          BY <3>1, <3>7, <4>1
        <5>2. from <= now /\ to <= now /\ from \in Nat /\ to \in Nat
          BY <1>1, <5>1
        <5>3. now \notin (from + 1)..(to - 1)
          BY <1>1, <5>2
        <5>4. Quiet(topic, from, to)'
          BY <1>2, <5>1, <5>3 DEF Quiet
        <5>5. QED
          BY <1>2, <4>1, <5>1, <5>4
      <4>2. CASE newGap = now - last
        <5>1. \A stamp \in recorded'[topic] : stamp \notin (last + 1)..(now - 1)
          BY <1>1, <1>2, <3>1, <3>2
        <5>2. recorded'[topic] \intersect (last + 1)..(now - 1) = {}
          BY <5>1
        <5>3. last \in recorded'[topic] /\ now \in recorded'[topic]
          BY <1>2, <3>1
        <5>4. QED
          BY <4>2, <5>2, <5>3 DEF Quiet
      <4>3. QED
        BY <3>3, <4>1, <4>2
    <3>8. first \in recorded'[topic] /\ now \in recorded'[topic]
      BY <1>2, <3>1
    <3>9. QED
      BY <2>2, <3>3, <3>5, <3>6, <3>7, <3>8 DEF Summarised, first, newGap
  <2>3. QED
    BY <2>1, <2>2
<1>7. Bracketed'
  <2>1. \A t \in DOMAIN summaries :
          /\ summaries[t].first \in 0..now /\ summaries[t].last \in 0..now
    BY <1>1 DEF RecordInv, Summarised
  <2>2. \A t \in DOMAIN summaries' : summaries'[t].last <= summaries'[topic].last
    BY <1>1, <1>4, <1>6, <2>1
  <2>3. \E head \in DOMAIN summaries' : \A t \in DOMAIN summaries' :
          summaries'[head].first <= summaries'[t].first
    <3>1. CASE DOMAIN summaries = {}
      <4>1. DOMAIN summaries' = {topic} /\ summaries'[topic].first = now
        BY <1>4, <1>6, <3>1
      <4>2. QED
        BY <1>1, <4>1
    <3>2. CASE DOMAIN summaries # {}
      <4>1. PICK head \in DOMAIN summaries : \A t \in DOMAIN summaries :
              summaries[head].first <= summaries[t].first
        BY <3>2 DEF RecordInv, Bracketed
      <4>2. \A t \in DOMAIN summaries : summaries'[t].first = summaries[t].first
        BY <1>4, <1>6
      <4>3. summaries[head].first <= now
        BY <1>1, <2>1, <4>1
      <4>4. \A t \in DOMAIN summaries' : summaries'[head].first <= summaries'[t].first
        BY <1>1, <1>4, <1>6, <4>1, <4>2, <4>3
      <4>5. QED
        BY <1>4, <4>1, <4>4
    <3>3. QED
      BY <3>1, <3>2
  <2>4. QED
    BY <1>4, <2>2, <2>3 DEF Bracketed
<1>8. QED
  BY <1>3, <1>4, <1>5, <1>6, <1>7 DEF RecordInv

\* Nothing else touches the recording, and time only goes on.
LEMMA RecordingKept ==
  ASSUME RecordInv, UNCHANGED <<summaries, recorded>>, now' \in {now, now + 1},
         now' <= Horizon
  PROVE  RecordInv'
<1>1. RecordTyped'
  BY ObserverParameters DEF RecordInv, RecordTyped
<1>2. QED
  BY <1>1 DEF RecordInv, Summarised, Quiet, Bracketed

(***************************************************************************)
(* The evaluator's judgment.                                               *)
(***************************************************************************)

\* A number that is in a set and not above the others is what Min chooses, and
\* correspondingly for Max.
LEMMA MinMaxChosen ==
  ASSUME NEW S \in SUBSET Int, NEW m \in S
  PROVE  /\ (\A x \in S : m <= x) => Obs!Bag!Min(S) = m
         /\ (\A x \in S : x <= m) => Obs!Bag!Max(S) = m
<1>1. ASSUME \A x \in S : m <= x PROVE Obs!Bag!Min(S) = m
  <2> DEFINE chosen == CHOOSE x \in S : \A y \in S : x <= y
  <2>1. chosen \in S /\ \A y \in S : chosen <= y
    <3>1. \E x \in S : \A y \in S : x <= y
      BY <1>1
    <3>2. QED
      BY <3>1
  <2> HIDE DEF chosen
  <2>2. chosen = m
    BY <2>1, <1>1
  <2>3. QED
    BY <2>2 DEF Obs!Bag!Min, chosen
<1>2. ASSUME \A x \in S : x <= m PROVE Obs!Bag!Max(S) = m
  <2> DEFINE chosen == CHOOSE x \in S : \A y \in S : x >= y
  <2>1. chosen \in S /\ \A y \in S : chosen >= y
    <3>1. \E x \in S : \A y \in S : x >= y
      BY <1>2
    <3>2. QED
      BY <3>1
  <2> HIDE DEF chosen
  <2>2. chosen = m
    BY <2>1, <1>2
  <2>3. QED
    BY <2>2 DEF Obs!Bag!Max, chosen
<1>3. QED
  BY <1>1, <1>2

\* The largest of three gaps exceeds a limit if one of them does (_coverage_gap).
LEMMA LargestOfThree ==
  ASSUME NEW a \in Int, NEW b \in Int, NEW c \in Int, NEW limit \in Int
  PROVE  Obs!Bag!Max({a, b, c}) > limit <=> a > limit \/ b > limit \/ c > limit
<1>1. \E m \in {a, b, c} : \A x \in {a, b, c} : x <= m
  <2>1. CASE b <= a /\ c <= a
    BY <2>1
  <2>2. CASE a <= b /\ c <= b
    BY <2>2
  <2>3. CASE a <= c /\ b <= c
    BY <2>3
  <2>4. QED
    BY <2>1, <2>2, <2>3
<1>2. PICK m \in {a, b, c} : \A x \in {a, b, c} : x <= m
  BY <1>1
<1>3. Obs!Bag!Max({a, b, c}) = m
  BY <1>2, MinMaxChosen
<1>4. QED
  BY <1>2, <1>3

\* A recording extends from the least of the first stamps to the largest of the
\* last ones (recording_start_ns, recording_end_ns).
LEMMA RecordingExtends ==
  ASSUME RecordInv, DOMAIN summaries # {}
  PROVE  /\ Obs!Bag!RecordingStart \in 0..now /\ Obs!Bag!RecordingEnd \in 0..now
         /\ Obs!Window = Obs!Bag!RecordingStart..Obs!Bag!RecordingEnd
         /\ \A topic \in DOMAIN summaries :
              /\ Obs!Bag!RecordingStart <= summaries[topic].first
              /\ summaries[topic].last <= Obs!Bag!RecordingEnd
<1> DEFINE stamps == UNION {recorded[topic] : topic \in Obs!InBag}
<1>1. /\ now \in Nat
      /\ recorded \in [Obs!InBag -> SUBSET (0..now)]
      /\ DOMAIN summaries = {topic \in Obs!InBag : recorded[topic] # {}}
  BY ObserverParameters DEF RecordInv, RecordTyped
<1>2. \A topic \in DOMAIN summaries :
        /\ summaries[topic].first \in recorded[topic]
        /\ summaries[topic].last \in recorded[topic]
        /\ recorded[topic] \subseteq summaries[topic].first..summaries[topic].last
        /\ recorded[topic] \subseteq 0..now
  BY <1>1 DEF RecordInv, Summarised
<1>3. PICK head \in DOMAIN summaries : \A topic \in DOMAIN summaries :
        summaries[head].first <= summaries[topic].first
  BY DEF RecordInv, Bracketed
<1>4. PICK tail \in DOMAIN summaries : \A topic \in DOMAIN summaries :
        summaries[topic].last <= summaries[tail].last
  BY DEF RecordInv, Bracketed
<1>5. Obs!Bag!RecordingStart = summaries[head].first
  <2> DEFINE Firsts == {summaries[topic].first : topic \in DOMAIN summaries}
  <2>1. Firsts \subseteq Int /\ summaries[head].first \in Firsts
    BY <1>1, <1>2
  <2>2. \A x \in Firsts : summaries[head].first <= x
    BY <1>3
  <2> HIDE DEF Firsts
  <2>3. Obs!Bag!Min(Firsts) = summaries[head].first
    BY <2>1, <2>2, MinMaxChosen
  <2>4. QED
    BY <2>3 DEF Obs!Bag!RecordingStart, Firsts
<1>6. Obs!Bag!RecordingEnd = summaries[tail].last
  <2> DEFINE Lasts == {summaries[topic].last : topic \in DOMAIN summaries}
  <2>1. Lasts \subseteq Int /\ summaries[tail].last \in Lasts
    BY <1>1, <1>2
  <2>2. \A x \in Lasts : x <= summaries[tail].last
    BY <1>4
  <2> HIDE DEF Lasts
  <2>3. Obs!Bag!Max(Lasts) = summaries[tail].last
    BY <2>1, <2>2, MinMaxChosen
  <2>4. QED
    BY <2>3 DEF Obs!Bag!RecordingEnd, Lasts
<1>7. summaries[head].first \in stamps /\ summaries[tail].last \in stamps
  BY <1>1, <1>2
<1>8. \A stamp \in stamps : /\ stamp \in 0..now
                            /\ summaries[head].first <= stamp
                            /\ stamp <= summaries[tail].last
  <2> SUFFICES ASSUME NEW topic \in Obs!InBag, NEW stamp \in recorded[topic]
               PROVE  /\ stamp \in 0..now
                      /\ summaries[head].first <= stamp
                      /\ stamp <= summaries[tail].last
    OBVIOUS
  <2>1. topic \in DOMAIN summaries /\ stamp \in 0..now
    BY <1>1
  <2>2. /\ summaries[topic].first \in 0..now /\ summaries[topic].last \in 0..now
        /\ summaries[head].first \in 0..now /\ summaries[tail].last \in 0..now
    BY <1>2, <2>1
  <2>3. summaries[topic].first <= stamp /\ stamp <= summaries[topic].last
    BY <1>2, <2>1, <2>2
  <2>4. QED
    BY <1>3, <1>4, <2>1, <2>2, <2>3
<1>9. Obs!Window = summaries[head].first..summaries[tail].last
  <2>1. Obs!Window = {time \in 0..now : \E from, to \in stamps : from <= time /\ time <= to}
    BY DEF Obs!Window
  <2> HIDE DEF stamps
  <2>2. \A time \in Obs!Window : time \in summaries[head].first..summaries[tail].last
    BY <1>1, <1>7, <1>8, <2>1
  <2>3. \A time \in summaries[head].first..summaries[tail].last : time \in Obs!Window
    BY <1>1, <1>7, <1>8, <2>1
  <2>4. QED
    BY <2>2, <2>3
<1>10. QED
  BY <1>2, <1>3, <1>4, <1>5, <1>6, <1>9

\* The gap the evaluator reports for a topic exceeds the limit exactly when the
\* topic was silent for longer than that somewhere in the recording.
LEMMA GapIsSilence ==
  ASSUME RecordInv, NEW topic \in DOMAIN summaries
  PROVE  Obs!Bag!CoverageGap(topic) > MaxGap <=> Obs!FellSilent(topic)
<1> DEFINE first == summaries[topic].first
           last == summaries[topic].last
           gap == summaries[topic].maxGap
           start == Obs!Bag!RecordingStart
           end == Obs!Bag!RecordingEnd
<1>1. /\ first \in Nat /\ last \in Nat /\ gap \in Nat /\ MaxGap \in Nat /\ now \in Nat
      /\ start \in 0..now /\ end \in 0..now
  <2>1. summaries[topic] \in [count : Nat, first : Nat, last : Nat, maxGap : Nat]
    BY DEF RecordInv, Summarised
  <2>2. start \in 0..now /\ end \in 0..now
    BY RecordingExtends
  <2>3. MaxGap \in Nat /\ now \in Nat
    BY ObserverParameters DEF RecordInv, RecordTyped
  <2>4. QED
    BY <2>1, <2>2, <2>3
<1>2. Obs!Window = start..end /\ start <= first /\ last <= end
  BY RecordingExtends
<1>3. /\ first \in recorded[topic] /\ last \in recorded[topic]
      /\ recorded[topic] \subseteq first..last
      /\ \A from, to \in first..last : Quiet(topic, from, to) => to - from <= gap
      /\ gap > 0 => \E from, to \in recorded[topic] : to - from = gap /\ Quiet(topic, from, to)
  BY DEF RecordInv, Summarised
<1>4. first <= last
  BY <1>1, <1>3
<1>5. Obs!FellSilent(topic) <=>
        \E from, to \in start..end : to - from > MaxGap /\ Quiet(topic, from, to)
  BY <1>2 DEF Obs!FellSilent, Quiet
<1>6. Obs!Bag!CoverageGap(topic) > MaxGap <=>
        gap > MaxGap \/ first - start > MaxGap \/ end - last > MaxGap
  <2>1. Obs!Bag!CoverageGap(topic) = Obs!Bag!Max({gap, first - start, end - last})
    BY DEF Obs!Bag!CoverageGap
  <2> HIDE DEF first, last, gap, start, end
  <2>2. gap \in Int /\ first - start \in Int /\ end - last \in Int /\ MaxGap \in Int
    BY <1>1
  <2>3. QED
    BY <2>1, <2>2, LargestOfThree
<1> HIDE DEF first, last, gap, start, end
<1>7. ASSUME gap > MaxGap PROVE Obs!FellSilent(topic)
  <2>1. PICK from, to \in recorded[topic] : to - from = gap /\ Quiet(topic, from, to)
    BY <1>1, <1>3, <1>7
  <2>2. from \in start..end /\ to \in start..end
    BY <1>1, <1>2, <1>3
  <2>3. QED
    BY <1>5, <1>7, <2>1, <2>2
<1>8. ASSUME first - start > MaxGap PROVE Obs!FellSilent(topic)
  <2>1. Quiet(topic, start, first)
    BY <1>1, <1>3 DEF Quiet
  <2>2. start \in start..end /\ first \in start..end
    BY <1>1, <1>2, <1>4
  <2>3. QED
    BY <1>5, <1>8, <2>1, <2>2
<1>9. ASSUME end - last > MaxGap PROVE Obs!FellSilent(topic)
  <2>1. Quiet(topic, last, end)
    BY <1>1, <1>3 DEF Quiet
  <2>2. last \in start..end /\ end \in start..end
    BY <1>1, <1>2, <1>4
  <2>3. QED
    BY <1>5, <1>9, <2>1, <2>2
<1>10. ASSUME Obs!FellSilent(topic)
       PROVE  gap > MaxGap \/ first - start > MaxGap \/ end - last > MaxGap
  <2>1. PICK from, to \in start..end : to - from > MaxGap /\ Quiet(topic, from, to)
    BY <1>5, <1>10
  <2>2. from \in Int /\ to \in Int /\ start <= from /\ to <= end /\ from < to
    BY <1>1, <2>1
  <2>3. ~(from < first /\ first < to) /\ ~(from < last /\ last < to)
    BY <1>1, <1>3, <2>1, <2>2 DEF Quiet
  <2>4. CASE to <= first
    BY <1>1, <2>1, <2>2, <2>4
  <2>5. CASE from >= last
    BY <1>1, <2>1, <2>2, <2>5
  <2>6. CASE from >= first /\ to <= last
    <3>1. from \in first..last /\ to \in first..last
      BY <1>1, <2>2, <2>6
    <3>2. to - from <= gap
      BY <1>3, <2>1, <3>1
    <3>3. QED
      BY <1>1, <2>1, <2>2, <3>2
  <2>7. QED
    BY <1>1, <2>2, <2>3, <2>4, <2>5, <2>6
<1>11. QED
  BY <1>6, <1>7, <1>8, <1>9, <1>10

\* What finalize makes of the four numbers is what the recording holds.
LEMMA JudgmentExact == RecordInv => EvaluationIsExact
<1> SUFFICES ASSUME RecordInv PROVE EvaluationIsExact
  OBVIOUS
<1>1. DOMAIN summaries = {topic \in Obs!InBag : recorded[topic] # {}}
  BY DEF RecordInv, RecordTyped
<1>2. Obs!Bag!StaleInBag = {topic \in Obs!InBag : recorded[topic] # {} /\ Obs!FellSilent(topic)}
  BY <1>1, GapIsSilence DEF Obs!Bag!StaleInBag
<1>3. Obs!Bag!MissingInBag =
        {topic \in Obs!InBag \intersect Obs!Bag!DefaultRequiredTopics : recorded[topic] = {}}
  BY <1>1 DEF Obs!Bag!MissingInBag
<1>4. QED
  BY <1>2, <1>3 DEF EvaluationIsExact, Obs!EvaluationIsExact

(***************************************************************************)
(* What the aggregator has heard against what was recorded.                *)
(***************************************************************************)

AggregatorTyped ==
  /\ Obs!Agg!NodeTypeOk
  /\ up \in BOOLEAN /\ upAge \in 0..Obs!Bound
  /\ alarms \subseteq Listened
  /\ DOMAIN actual = Listened
  /\ \A topic \in Listened : actual[topic] \in StatesOf(topic)
  /\ troubleAge \in [Listened -> {Never} \union 0..Obs!Bound]

\* A running aggregator has reported at every period since it started.
Awake == up => upAge <= now /\ (now - upAge)..(now - 1) \subseteq recorded["runtime/health"]

\* What was heard last is on record, and since then, or since the aggregator
\* started if it has heard nothing, nothing was recorded.
HeardAsRecorded(topic) ==
  /\ ~up => receivedAge[topic] = Never
  /\ receivedAge[topic] # Never =>
       \E stamp \in recorded[topic] :
         receivedAge[topic] = ShortCap \/ now - stamp <= receivedAge[topic]
  /\ up => \A stamp \in recorded[topic] :
             stamp + (IF receivedAge[topic] = Never THEN upAge ELSE receivedAge[topic]) <= now

\* A sample younger than the trouble tells of it.
TroubleHeard(topic) ==
  /\ troubleAge[topic] # Never => Obs!Trouble(topic, actual[topic])
  /\ receivedAge[topic] # Never /\ receivedAge[topic] < troubleAge[topic] =>
       Obs!Trouble(topic, message[topic])

\* A silence that raised an alarm is on record.
AlarmsSilent == \A topic \in alarms : Obs!FellSilent(topic)

ObserverInv ==
  /\ RecordInv /\ AggregatorTyped /\ Awake
  /\ \A topic \in Listened : HeardAsRecorded(topic) /\ TroubleHeard(topic)
  /\ AlarmsSilent

\* Ages at the observers, whose cap is beyond the stale timeout.
LEMMA ObserverAges ==
  /\ Obs!Never = Never /\ Obs!Agg!Never = Never /\ Obs!Agg!Ages = {Never} \union 0..ShortCap
  /\ \A age \in {Never} \union 0..ShortCap :
       /\ Obs!Agg!Older(age) \in {Never} \union 0..ShortCap
       /\ Obs!Agg!Older(age) = Never <=> age = Never
       /\ age # Never => Obs!Agg!Older(age) = ShortCap \/ Obs!Agg!Older(age) = age + 1
       /\ Obs!Agg!Older(age) <= age + 1
  /\ \A age \in {Never} \union 0..Obs!Bound :
       /\ Obs!Longer(age) \in {Never} \union 0..Obs!Bound
       /\ Obs!Longer(age) = Never <=> age = Never
       /\ Obs!Longer(age) <= age + 1
       /\ age <= Obs!Longer(age)
  /\ \A age \in 0..Obs!Bound : Obs!Longer(age) \in 0..Obs!Bound
BY ObserverParameters
   DEF Obs!Never, Obs!Agg!Never, Never, Obs!Agg!Ages, Obs!Agg!Older, Obs!Longer

(***************************************************************************)
(* The recording, step by step.                                            *)
(***************************************************************************)
RecordGrows ==
  /\ now' \in {now, now + 1}
  /\ \A topic \in Obs!InBag :
       /\ recorded[topic] \subseteq recorded'[topic]
       /\ recorded'[topic] \subseteq recorded[topic] \union {now}

\* Every step records what was published now, or nothing.
LEMMA RecordStep ==
  ASSUME RecordInv, [Obs!Next]_Obs!vars
  PROVE  RecordInv' /\ RecordGrows
<1>1. /\ recorded \in [Obs!InBag -> SUBSET (0..now)] /\ now \in Nat /\ now <= Horizon
      /\ Horizon \in Nat
  BY ObserverParameters DEF RecordInv, RecordTyped
<1>2. ASSUME NEW topic \in Obs!InBag, now \notin recorded[topic], Obs!Record(topic),
             UNCHANGED now
      PROVE  RecordInv' /\ RecordGrows
  BY <1>1, <1>2, RecordingSummarised DEF RecordGrows, Obs!Record
<1>3. ASSUME UNCHANGED <<summaries, recorded>>, now' \in {now, now + 1}, now' <= Horizon
      PROVE  RecordInv' /\ RecordGrows
  BY <1>3, RecordingKept DEF RecordGrows
<1>4. ASSUME NEW topic \in Listened, Obs!Publication(topic) PROVE RecordInv' /\ RecordGrows
  BY <1>2, <1>4, ObserverParameters DEF Obs!Publication
<1>5. CASE Obs!AggregatorTick
  BY <1>2, <1>5, ObserverParameters DEF Obs!AggregatorTick
<1>6. CASE Obs!Advance
  BY <1>1, <1>3, <1>6 DEF Obs!Advance
<1>7. CASE \/ \E topic \in Listened : \E new \in StatesOf(topic) : Obs!Change(topic, new)
           \/ Obs!Crash \/ Obs!Recover \/ UNCHANGED Obs!vars
  BY <1>1, <1>3, <1>7 DEF Obs!Change, Obs!Crash, Obs!Recover, Obs!vars
<1>8. QED
  BY <1>4, <1>5, <1>6, <1>7 DEF Obs!Next

\* Every stamp is within the window that the recording covers.
StampsInWindow == \A topic \in Obs!InBag : recorded[topic] \subseteq Obs!Window

\* The window grows with the recording, so no stamp ever falls outside.
LEMMA WindowCovers ==
  /\ RecordInv => StampsInWindow
  /\ RecordInv' => StampsInWindow'
<1>1. RecordInv => StampsInWindow
  <2> SUFFICES ASSUME RecordInv, NEW topic \in Obs!InBag, NEW stamp \in recorded[topic]
               PROVE  stamp \in Obs!Window
    BY DEF StampsInWindow
  <2>1. stamp \in 0..now
    BY DEF RecordInv, RecordTyped
  <2>2. QED
    BY <2>1 DEF Obs!Window
<1>2. QED
  BY <1>1, PTL

\* A silence stays on record, whatever is recorded afterwards: later stamps are
\* not inside it.
LEMMA SilenceStays ==
  ASSUME RecordInv, RecordInv', RecordGrows, NEW topic \in Obs!InBag, Obs!FellSilent(topic)
  PROVE  Obs!FellSilent(topic)'
<1>1. PICK from, to \in Obs!Window :
        to - from > MaxGap /\ recorded[topic] \intersect (from + 1)..(to - 1) = {}
  BY DEF Obs!FellSilent
<1>2. /\ now \in Nat /\ now' \in Nat /\ now <= now'
      /\ from \in 0..now /\ to \in 0..now
  BY <1>1, ObserverParameters DEF RecordInv, RecordTyped, RecordGrows, Obs!Window
<1>3. Obs!Window \subseteq Obs!Window'
  <2> SUFFICES ASSUME NEW time \in Obs!Window PROVE time \in Obs!Window'
    OBVIOUS
  <2>1. PICK first, last \in UNION {recorded[t] : t \in Obs!InBag} :
          time \in 0..now /\ first <= time /\ time <= last
    BY DEF Obs!Window
  <2>2. UNION {recorded[t] : t \in Obs!InBag} \subseteq UNION {recorded'[t] : t \in Obs!InBag}
    BY DEF RecordGrows
  <2>3. time \in 0..now'
    BY <1>2, <2>1
  <2>4. QED
    BY <2>1, <2>2, <2>3 DEF Obs!Window
<1>4. recorded'[topic] \intersect (from + 1)..(to - 1) = {}
  BY <1>1, <1>2 DEF RecordGrows
<1>5. QED
  BY <1>1, <1>3, <1>4 DEF Obs!FellSilent

\* A topic that is stale at a period, and no start-up case, was silent for longer
\* than the limit until that period.
LEMMA AlarmIsSilence ==
  ASSUME ObserverInv, RecordInv', Obs!AggregatorTick, NEW topic \in health'.stale,
         topic \in Obs!Agg!Seen \/ upAge > StaleTimeout
  PROVE  Obs!FellSilent(topic)'
<1>1. /\ topic \in Obs!Agg!StaleTopics /\ topic \in Listened /\ topic \in Obs!InBag
      /\ up /\ up' = up /\ now' = now
      /\ recorded' = [recorded EXCEPT !["runtime/health"] = @ \union {now}]
  BY ObserverParameters
     DEF Obs!AggregatorTick, Obs!Agg!Tick, Obs!Agg!StaleTopics, Obs!Record
<1>2. /\ recorded \in [Obs!InBag -> SUBSET (0..now)] /\ now \in Nat
      /\ "runtime/health" \in Obs!InBag /\ topic # "runtime/health"
      /\ StaleTimeout \in Nat /\ MaxGap = StaleTimeout
      /\ receivedAge[topic] \in {Never} \union 0..ShortCap /\ upAge \in 0..Obs!Bound
      /\ ShortCap \in Nat /\ Obs!Bound = StaleTimeout + 1
  BY <1>1, ObserverParameters, ObserverAges
     DEF ObserverInv, RecordInv, RecordTyped, AggregatorTyped, Obs!Agg!NodeTypeOk
<1>3. /\ recorded'[topic] = recorded[topic]
      /\ recorded'["runtime/health"] = recorded["runtime/health"] \union {now}
      /\ DOMAIN recorded' = Obs!InBag
  BY <1>1, <1>2
<1>4. now \in Obs!Window'
  BY <1>2, <1>3, WindowCovers DEF StampsInWindow
<1>5. \A stamp \in recorded[topic] :
        stamp + (IF receivedAge[topic] = Never THEN upAge ELSE receivedAge[topic]) <= now
  BY <1>1 DEF ObserverInv, HeardAsRecorded
<1>6. CASE topic \in Obs!Agg!Seen
  <2>1. receivedAge[topic] # Never /\ receivedAge[topic] > StaleTimeout
    BY <1>1, <1>2, <1>6, ObserverAges DEF Obs!Agg!Seen, Obs!Agg!StaleTopics, Obs!Agg!Within, Never
  <2>2. recorded[topic] # {}
    BY <1>1, <2>1 DEF ObserverInv, HeardAsRecorded
  <2>3. Summarised(topic)
    BY <1>1, <2>2 DEF ObserverInv, RecordInv, RecordTyped
  <2> DEFINE last == summaries[topic].last
  <2>4. last \in recorded[topic] /\ recorded[topic] \subseteq summaries[topic].first..last
        /\ last \in Nat
    BY <2>3 DEF Summarised
  <2> HIDE DEF last
  <2>5. last \in Obs!Window'
    BY <1>1, <1>3, <2>4, WindowCovers DEF StampsInWindow
  <2>6. last + receivedAge[topic] <= now
    BY <1>5, <2>1, <2>4
  <2>7. now - last > MaxGap
    BY <1>2, <2>1, <2>4, <2>6 DEF Never
  <2>8. recorded'[topic] \intersect (last + 1)..(now - 1) = {}
    BY <1>2, <1>3, <2>4
  <2>9. QED
    BY <1>4, <2>5, <2>7, <2>8 DEF Obs!FellSilent
<1>7. CASE topic \notin Obs!Agg!Seen
  <2>1. receivedAge[topic] = Never /\ upAge > StaleTimeout
    BY <1>1, <1>7, ObserverAges DEF Obs!Agg!Seen
  <2>2. upAge <= now /\ (now - upAge)..(now - 1) \subseteq recorded["runtime/health"]
    BY <1>1 DEF ObserverInv, Awake
  <2>3. now - upAge \in recorded'["runtime/health"]
    BY <1>2, <1>3, <2>1, <2>2
  <2>4. now - upAge \in Obs!Window'
    BY <1>2, <2>3, WindowCovers DEF StampsInWindow
  <2>5. now - (now - upAge) > MaxGap
    BY <1>2, <2>1
  <2>6. recorded'[topic] \intersect (now - upAge + 1)..(now - 1) = {}
    BY <1>2, <1>3, <1>5, <2>1
  <2>7. QED
    BY <1>4, <2>4, <2>5, <2>6 DEF Obs!FellSilent
<1>8. QED
  BY <1>6, <1>7

(***************************************************************************)
(* The aggregator, step by step.                                           *)
(***************************************************************************)

\* What the invariant says of one topic that this step was not about.
LEMMA TopicKept ==
  ASSUME ObserverInv, NEW topic \in Listened,
         UNCHANGED <<receivedAge[topic], message[topic], actual[topic], troubleAge[topic],
                     recorded[topic], up, upAge, now>>
  PROVE  HeardAsRecorded(topic)' /\ TroubleHeard(topic)'
<1>1. HeardAsRecorded(topic) /\ TroubleHeard(topic)
  BY DEF ObserverInv
<1>2. QED
  BY <1>1 DEF HeardAsRecorded, TroubleHeard, Obs!Trouble

\* What every step needs of the present state.
LEMMA ObserverFacts ==
  ASSUME ObserverInv
  PROVE  /\ now \in Nat /\ upAge \in 0..Obs!Bound /\ up \in BOOLEAN
         /\ Obs!Bound \in Nat /\ Obs!Bound <= ShortCap /\ ShortCap \in Nat
         /\ recorded \in [Obs!InBag -> SUBSET (0..now)]
         /\ receivedAge \in [Listened -> {Never} \union 0..ShortCap]
         /\ DOMAIN message = Listened /\ DOMAIN actual = Listened
         /\ troubleAge \in [Listened -> {Never} \union 0..Obs!Bound]
         /\ \A topic \in Listened : HeardAsRecorded(topic) /\ TroubleHeard(topic)
BY ObserverParameters, ObserverAges
   DEF ObserverInv, RecordInv, RecordTyped, AggregatorTyped, Obs!Agg!NodeTypeOk

\* A publisher's message is recorded, and a running aggregator hears it.
LEMMA PublicationStep ==
  ASSUME ObserverInv, NEW topic \in Listened, Obs!Publication(topic)
  PROVE  /\ AggregatorTyped' /\ Awake'
         /\ \A t \in Listened : HeardAsRecorded(t)' /\ TroubleHeard(t)'
<1> USE ObserverFacts
<1>1. /\ now \notin recorded[topic]
      /\ recorded' = [recorded EXCEPT ![topic] = @ \union {now}]
      /\ UNCHANGED <<actual, up, now, alarms, upAge, troubleAge, health, statuses>>
      /\ topic \in Obs!InBag /\ topic # "runtime/health"
  BY ObserverParameters
     DEF Obs!Publication, Obs!Record, Obs!Agg!OnTopic, Obs!Agg!topicVars, Obs!aggregator
<1>2. /\ \A t \in Obs!InBag \ {topic} : recorded'[t] = recorded[t]
      /\ recorded'[topic] = recorded[topic] \union {now}
  BY <1>1
<1>3. CASE up
  <2>1. /\ message' = [message EXCEPT ![topic] = actual[topic]]
        /\ receivedAge' = [receivedAge EXCEPT ![topic] = 0]
    BY <1>3 DEF Obs!Publication, Obs!Agg!OnTopic
  <2>2. AggregatorTyped'
    <3>1. actual[topic] # "none" /\ 0 # Obs!Agg!Never /\ 0 \in Obs!Agg!Ages
      BY ObserverParameters, ObserverAges DEF ObserverInv, AggregatorTyped, Never
    <3>2. Obs!Agg!NodeTypeOk'
      BY <1>1, <2>1, <3>1 DEF ObserverInv, AggregatorTyped, Obs!Agg!NodeTypeOk
    <3>3. QED
      BY <1>1, <3>2 DEF ObserverInv, AggregatorTyped
  <2>3. HeardAsRecorded(topic)'
    <3>1. receivedAge'[topic] = 0 /\ up' /\ now' = now
      BY <1>1, <1>3, <2>1
    <3>2. now \in recorded'[topic] /\ now - now <= 0
      BY <1>2
    <3>3. \A stamp \in recorded'[topic] : stamp + 0 <= now
      BY <1>1, <1>2
    <3>4. QED
      BY <3>1, <3>2, <3>3 DEF HeardAsRecorded, Never
  <2>4. TroubleHeard(topic)'
    <3>1. TroubleHeard(topic) /\ troubleAge[topic] \in {Never} \union 0..Obs!Bound
      OBVIOUS
    <3>2. /\ receivedAge'[topic] = 0 /\ message'[topic] = actual[topic]
          /\ UNCHANGED <<actual, troubleAge>>
      BY <1>1, <2>1
    <3>3. QED
      BY <3>1, <3>2 DEF TroubleHeard, Obs!Trouble, Never
  <2>5. ASSUME NEW t \in Listened \ {topic} PROVE HeardAsRecorded(t)' /\ TroubleHeard(t)'
    BY <1>1, <1>2, <2>1, <2>5, TopicKept, ObserverParameters
  <2>6. Awake'
    BY <1>1, <1>2, ObserverParameters DEF ObserverInv, Awake
  <2>7. QED
    BY <2>2, <2>3, <2>4, <2>5, <2>6
<1>4. CASE ~up
  <2>1. UNCHANGED <<message, receivedAge>>
    BY <1>4 DEF Obs!Publication, Obs!aggregator
  <2>2. AggregatorTyped'
    BY <1>1, <2>1 DEF ObserverInv, AggregatorTyped, Obs!Agg!NodeTypeOk
  <2>3. HeardAsRecorded(topic)' /\ TroubleHeard(topic)'
    BY <1>1, <1>2, <1>4, <2>1 DEF HeardAsRecorded, TroubleHeard, Obs!Trouble
  <2>4. ASSUME NEW t \in Listened \ {topic} PROVE HeardAsRecorded(t)' /\ TroubleHeard(t)'
    BY <1>1, <1>2, <2>1, <2>4, TopicKept, ObserverParameters
  <2>5. QED
    BY <1>1, <1>4, <2>2, <2>3, <2>4 DEF Awake
<1>5. QED
  BY <1>3, <1>4

\* The timer publishes what it finds stale, which nobody records against.
LEMMA AggregatorTickStep ==
  ASSUME ObserverInv, Obs!AggregatorTick
  PROVE  /\ AggregatorTyped' /\ Awake'
         /\ \A t \in Listened : HeardAsRecorded(t)' /\ TroubleHeard(t)'
<1> USE ObserverFacts
<1>1. /\ recorded' = [recorded EXCEPT !["runtime/health"] = @ \union {now}]
      /\ UNCHANGED <<actual, up, now, upAge, troubleAge, message, receivedAge>>
      /\ health' = [state |-> Obs!Agg!Health, stale |-> Obs!Agg!StaleTopics]
      /\ DOMAIN statuses' = Obs!Agg!DiagnosticTopics
      /\ alarms' \subseteq alarms \union health'.stale
  BY DEF Obs!AggregatorTick, Obs!Record, Obs!Agg!Tick, Obs!Agg!nodeVars
<1>2. AggregatorTyped'
  <2>1. Obs!Agg!StaleTopics \subseteq Obs!Agg!RequiredTopics /\ Obs!Agg!DiagnosticTopics \subseteq Listened
    BY ObserverParameters DEF Obs!Agg!StaleTopics, Obs!Agg!DiagnosticTopics, Obs!Agg!Seen
  <2>2. Obs!Agg!Health \in {"UNKNOWN", "OK", "WARN", "ERROR", "STALE"}
    BY DEF Obs!Agg!Health
  <2>3. Obs!Agg!NodeTypeOk'
    BY <1>1, <2>1, <2>2 DEF ObserverInv, AggregatorTyped, Obs!Agg!NodeTypeOk, Obs!Agg!RequiredTopics
  <2>4. alarms' \subseteq Listened
    BY <1>1, <2>1, ObserverParameters DEF ObserverInv, AggregatorTyped
  <2>5. QED
    BY <1>1, <2>3, <2>4 DEF ObserverInv, AggregatorTyped
<1>3. \A t \in Obs!InBag : recorded[t] \subseteq recorded'[t]
  BY <1>1
<1>4. Awake'
  BY <1>1, <1>3, ObserverParameters DEF ObserverInv, Awake
<1>5. ASSUME NEW t \in Listened PROVE HeardAsRecorded(t)' /\ TroubleHeard(t)'
  <2>1. recorded'[t] = recorded[t]
    BY <1>1, ObserverParameters
  <2>2. QED
    BY <1>1, <2>1, TopicKept
<1>6. QED
  BY <1>2, <1>4, <1>5

\* A publisher changes its state; the trouble it gets into is new.
LEMMA ChangeStep ==
  ASSUME ObserverInv, NEW topic \in Listened, NEW new \in StatesOf(topic),
         Obs!Change(topic, new)
  PROVE  /\ AggregatorTyped' /\ Awake'
         /\ \A t \in Listened : HeardAsRecorded(t)' /\ TroubleHeard(t)'
<1> USE ObserverFacts
<1>1. /\ actual' = [actual EXCEPT ![topic] = new]
      /\ troubleAge' = [troubleAge EXCEPT ![topic] =
           IF ~Obs!Trouble(topic, new) THEN Obs!Never
           ELSE IF @ = Obs!Never THEN 0 ELSE @]
      /\ UNCHANGED <<message, receivedAge, health, statuses, up, now, recorded, alarms, upAge>>
  BY DEF Obs!Change, Obs!aggregator
<1>2. troubleAge'[topic] \in {Never, 0, troubleAge[topic]}
      /\ (troubleAge'[topic] # Never => Obs!Trouble(topic, new))
      /\ (troubleAge'[topic] \in {Never, 0} \/ troubleAge'[topic] = troubleAge[topic])
  BY <1>1, ObserverAges
<1>3. AggregatorTyped'
  <2>1. troubleAge' \in [Listened -> {Never} \union 0..Obs!Bound]
    BY <1>1, ObserverAges
  <2>2. \A t \in Listened : actual'[t] \in StatesOf(t)
    BY <1>1 DEF ObserverInv, AggregatorTyped
  <2>3. QED
    BY <1>1, <2>1, <2>2 DEF ObserverInv, AggregatorTyped, Obs!Agg!NodeTypeOk
<1>4. HeardAsRecorded(topic)' /\ TroubleHeard(topic)'
  <2>1. HeardAsRecorded(topic)'
    BY <1>1 DEF HeardAsRecorded
  <2>2. actual'[topic] = new
    BY <1>1
  <2>3. receivedAge[topic] # Never => receivedAge[topic] >= 0
    BY DEF Never
  <2>4. TroubleHeard(topic)'
    BY <1>1, <1>2, <2>2, <2>3 DEF TroubleHeard, Obs!Trouble, Never
  <2>5. QED
    BY <2>1, <2>4
<1>5. ASSUME NEW t \in Listened \ {topic} PROVE HeardAsRecorded(t)' /\ TroubleHeard(t)'
  BY <1>1, <1>5, TopicKept
<1>6. QED
  BY <1>1, <1>3, <1>4, <1>5 DEF ObserverInv, Awake

\* The aggregator dies with what it has heard, or starts anew.
LEMMA AggregatorFaultStep ==
  ASSUME ObserverInv, Obs!Crash \/ Obs!Recover
  PROVE  /\ AggregatorTyped' /\ Awake'
         /\ \A t \in Listened : HeardAsRecorded(t)' /\ TroubleHeard(t)'
<1> USE ObserverFacts
<1>1. UNCHANGED <<health, statuses, actual, now, recorded, alarms, troubleAge>>
  BY DEF Obs!Crash, Obs!Recover, Obs!aggregator
<1>2. CASE Obs!Crash
  <2>1. /\ ~up' /\ up' \in BOOLEAN /\ upAge' = upAge
        /\ message' = [t \in Listened |-> "none"]
        /\ receivedAge' = [t \in Listened |-> Obs!Agg!Never]
    BY <1>2 DEF Obs!Crash, Obs!Agg!Restart
  <2>2. AggregatorTyped'
    BY <1>1, <2>1 DEF ObserverInv, AggregatorTyped, Obs!Agg!NodeTypeOk, Obs!Agg!Ages
  <2>3. \A t \in Listened : HeardAsRecorded(t)' /\ TroubleHeard(t)'
    BY <1>1, <2>1, ObserverAges DEF HeardAsRecorded, TroubleHeard, Obs!Trouble
  <2>4. QED
    BY <2>1, <2>2, <2>3 DEF Awake
<1>3. CASE Obs!Recover
  <2>1. ~up /\ up' = TRUE /\ upAge' = 0 /\ UNCHANGED <<message, receivedAge>>
    BY <1>3 DEF Obs!Recover, Obs!aggregator
  <2>2. AggregatorTyped'
    BY <1>1, <2>1 DEF ObserverInv, AggregatorTyped, Obs!Agg!NodeTypeOk
  <2>3. Awake'
    BY <1>1, <2>1 DEF Awake
  <2>4. ASSUME NEW t \in Listened PROVE HeardAsRecorded(t)' /\ TroubleHeard(t)'
    <3>1. receivedAge[t] = Never /\ receivedAge'[t] = Never
      BY <2>1 DEF HeardAsRecorded
    <3>2. \A stamp \in recorded[t] : stamp + 0 <= now
      BY ObserverParameters
    <3>3. HeardAsRecorded(t)'
      BY <1>1, <2>1, <3>1, <3>2 DEF HeardAsRecorded
    <3>4. TroubleHeard(t)'
      BY <1>1, <2>1 DEF TroubleHeard, Obs!Trouble
    <3>5. QED
      BY <3>3, <3>4
  <2>5. QED
    BY <2>2, <2>3, <2>4
<1>4. QED
  BY <1>2, <1>3

\* A unit passes; a running aggregator has reported in it.
LEMMA ObserverAdvanceStep ==
  ASSUME ObserverInv, Obs!Advance
  PROVE  /\ AggregatorTyped' /\ Awake'
         /\ \A t \in Listened : HeardAsRecorded(t)' /\ TroubleHeard(t)'
<1> USE ObserverFacts
<1>1. /\ up => now \in recorded["runtime/health"]
      /\ receivedAge' = [t \in Listened |-> Obs!Agg!Older(receivedAge[t])]
      /\ now' = now + 1 /\ upAge' = Obs!Longer(upAge)
      /\ troubleAge' = [t \in Listened |-> Obs!Longer(troubleAge[t])]
      /\ UNCHANGED <<message, health, statuses, actual, up, recorded, alarms>>
  BY DEF Obs!Advance, Obs!Agg!Age
<1>2. upAge' \in 0..Obs!Bound /\ upAge' <= upAge + 1
  BY <1>1, ObserverAges
<1>3. AggregatorTyped'
  <2>1. receivedAge' \in [Listened -> {Never} \union 0..ShortCap]
        /\ \A t \in Listened : receivedAge'[t] = Never <=> receivedAge[t] = Never
    BY <1>1, ObserverAges
  <2>2. troubleAge' \in [Listened -> {Never} \union 0..Obs!Bound]
    BY <1>1, ObserverAges
  <2>3. Obs!Agg!NodeTypeOk'
    BY <1>1, <2>1, ObserverAges DEF ObserverInv, AggregatorTyped, Obs!Agg!NodeTypeOk
  <2>4. QED
    BY <1>1, <1>2, <2>2, <2>3 DEF ObserverInv, AggregatorTyped
<1>4. Awake'
  <2> SUFFICES ASSUME up' PROVE upAge' <= now' /\ (now' - upAge')..(now' - 1) \subseteq recorded'["runtime/health"]
    BY DEF Awake
  <2>1. /\ upAge <= now /\ (now - upAge)..(now - 1) \subseteq recorded["runtime/health"]
        /\ now \in recorded["runtime/health"]
    BY <1>1 DEF ObserverInv, Awake
  <2>2. QED
    BY <1>1, <1>2, <2>1
<1>5. ASSUME NEW t \in Listened PROVE HeardAsRecorded(t)' /\ TroubleHeard(t)'
  <2>1. /\ receivedAge'[t] = Obs!Agg!Older(receivedAge[t])
        /\ troubleAge'[t] = Obs!Longer(troubleAge[t])
        /\ receivedAge[t] \in {Never} \union 0..ShortCap
        /\ troubleAge[t] \in {Never} \union 0..Obs!Bound
        /\ recorded[t] \subseteq 0..now
    BY <1>1, ObserverParameters
  <2>2. /\ receivedAge'[t] \in {Never} \union 0..ShortCap
        /\ receivedAge'[t] = Never <=> receivedAge[t] = Never
        /\ receivedAge[t] # Never =>
             receivedAge'[t] = ShortCap \/ receivedAge'[t] = receivedAge[t] + 1
        /\ receivedAge'[t] <= receivedAge[t] + 1
        /\ troubleAge'[t] \in {Never} \union 0..Obs!Bound
        /\ troubleAge'[t] = Never <=> troubleAge[t] = Never
        /\ troubleAge'[t] <= troubleAge[t] + 1
    BY <2>1, ObserverAges
  <2>3. HeardAsRecorded(t) /\ TroubleHeard(t)
    OBVIOUS
  <2>4. HeardAsRecorded(t)'
    <3>1. ~up' => receivedAge'[t] = Never
      BY <1>1, <2>2, <2>3 DEF HeardAsRecorded
    <3>2. receivedAge'[t] # Never =>
            \E stamp \in recorded[t] :
              receivedAge'[t] = ShortCap \/ now' - stamp <= receivedAge'[t]
      <4> SUFFICES ASSUME receivedAge'[t] # Never
                   PROVE  \E stamp \in recorded[t] :
                            receivedAge'[t] = ShortCap \/ now' - stamp <= receivedAge'[t]
        OBVIOUS
      <4>1. receivedAge[t] # Never
        BY <2>2
      <4>2. PICK stamp \in recorded[t] :
              receivedAge[t] = ShortCap \/ now - stamp <= receivedAge[t]
        BY <2>3, <4>1 DEF HeardAsRecorded
      <4>3. receivedAge'[t] = ShortCap \/ now' - stamp <= receivedAge'[t]
        BY <1>1, <2>1, <2>2, <4>1, <4>2 DEF Never
      <4>4. QED
        BY <4>3
    <3>3. ASSUME up', NEW stamp \in recorded[t]
          PROVE  stamp + (IF receivedAge'[t] = Never THEN upAge' ELSE receivedAge'[t]) <= now'
      <4>1. stamp + (IF receivedAge[t] = Never THEN upAge ELSE receivedAge[t]) <= now
        BY <1>1, <2>3, <3>3 DEF HeardAsRecorded
      <4>2. stamp \in Nat
        BY <2>1
      <4>3. CASE receivedAge[t] = Never
        BY <1>1, <1>2, <2>2, <4>1, <4>2, <4>3
      <4>4. CASE receivedAge[t] # Never
        BY <1>1, <2>1, <2>2, <4>1, <4>2, <4>4 DEF Never
      <4>5. QED
        BY <4>3, <4>4
    <3>4. QED
      BY <1>1, <3>1, <3>2, <3>3 DEF HeardAsRecorded
  <2>5. TroubleHeard(t)'
    <3>1. receivedAge'[t] # Never /\ receivedAge'[t] < troubleAge'[t] =>
            receivedAge[t] # Never /\ receivedAge[t] < troubleAge[t]
      BY <2>1, <2>2 DEF Never
    <3>2. QED
      BY <1>1, <2>2, <2>3, <3>1 DEF TroubleHeard, Obs!Trouble
  <2>6. QED
    BY <2>4, <2>5
<1>6. QED
  BY <1>3, <1>4, <1>5

(***************************************************************************)
(* The invariant and what follows from it.                                 *)
(***************************************************************************)

\* Nothing is recorded, heard or in trouble at first.
LEMMA ObserverInit == Obs!Init => ObserverInv
<1> SUFFICES ASSUME Obs!Init PROVE ObserverInv
  OBVIOUS
<1> USE ObserverParameters, ObserverAges
<1>1. /\ message = [topic \in Listened |-> "none"]
      /\ receivedAge = [topic \in Listened |-> Never]
      /\ health = [state |-> "UNKNOWN", stale |-> {}] /\ statuses = << >>
      /\ DOMAIN summaries = {} /\ up \in BOOLEAN /\ now = 0
      /\ recorded = [topic \in Obs!InBag |-> {}]
      /\ alarms = {} /\ upAge = 0
      /\ troubleAge = [topic \in Listened |-> Never]
      /\ DOMAIN actual = Listened
      /\ \A topic \in Listened : actual[topic] \in StatesOf(topic)
  BY DEF Obs!Init, Obs!Agg!NodeInit, Obs!Bag!NoSummaries
<1>2. RecordInv
  BY <1>1 DEF RecordInv, RecordTyped, Bracketed
<1>3. AggregatorTyped
  BY <1>1 DEF AggregatorTyped, Obs!Agg!NodeTypeOk
<1>4. Awake
  BY <1>1 DEF Awake
<1>5. ASSUME NEW topic \in Listened PROVE HeardAsRecorded(topic) /\ TroubleHeard(topic)
  BY <1>1 DEF HeardAsRecorded, TroubleHeard
<1>6. AlarmsSilent
  BY <1>1 DEF AlarmsSilent
<1>7. QED
  BY <1>2, <1>3, <1>4, <1>5, <1>6 DEF ObserverInv

\* Every step keeps the invariant of the recording and of the aggregator.
LEMMA ObserverStep == ObserverInv /\ [Obs!Next]_Obs!vars => ObserverInv'
<1> SUFFICES ASSUME ObserverInv, [Obs!Next]_Obs!vars PROVE ObserverInv'
  OBVIOUS
<1>1. RecordInv' /\ RecordGrows
  BY RecordStep DEF ObserverInv
<1>2. /\ AggregatorTyped' /\ Awake'
      /\ \A topic \in Listened : HeardAsRecorded(topic)' /\ TroubleHeard(topic)'
  <2>1. CASE UNCHANGED Obs!vars
    BY <2>1 DEF Obs!vars, Obs!aggregator, ObserverInv, AggregatorTyped, Obs!Agg!NodeTypeOk, Awake,
                HeardAsRecorded, TroubleHeard, Obs!Trouble
  <2>2. QED
    BY <2>1, PublicationStep, AggregatorTickStep, ChangeStep, AggregatorFaultStep,
       ObserverAdvanceStep DEF Obs!Next
<1>3. AlarmsSilent'
  <2> SUFFICES ASSUME NEW topic \in alarms' PROVE Obs!FellSilent(topic)'
    BY DEF AlarmsSilent
  <2>1. CASE topic \in alarms
    <3>1. topic \in Obs!InBag /\ Obs!FellSilent(topic) /\ RecordInv
      BY <2>1, ObserverParameters DEF ObserverInv, AggregatorTyped, AlarmsSilent
    <3>2. QED
      BY <1>1, <3>1, SilenceStays
  <2>2. CASE topic \notin alarms
    <3>1. Obs!AggregatorTick
      BY <2>2 DEF Obs!Next, Obs!Publication, Obs!Change, Obs!Crash, Obs!Recover, Obs!Advance, Obs!vars
    <3>2. topic \in health'.stale /\ (topic \in Obs!Agg!Seen \/ upAge > StaleTimeout)
      BY <2>2, <3>1 DEF Obs!AggregatorTick
    <3>3. QED
      BY <1>1, <3>1, <3>2, AlarmIsSilence
  <2>3. QED
    BY <2>1, <2>2
<1>4. QED
  BY <1>1, <1>2, <1>3 DEF ObserverInv

\* The invariant holds from the start.
LEMMA ObserverInvariant == Obs!Spec => []ObserverInv
BY ObserverInit, ObserverStep, PTL DEF Obs!Spec

\* The aggregator's samples, the recording and the reports keep their types: a
\* sample is stored with the time it arrived or not at all.
THEOREM ObserversTyped == Obs!Spec => []ObserversTypeOk
<1>1. ObserverInv => ObserversTypeOk
  BY DEF ObserverInv, RecordInv, RecordTyped, AggregatorTyped, ObserversTypeOk, Obs!TypeOk
<1>2. QED
  BY <1>1, ObserverInvariant, PTL

\* Whatever is recorded, in whatever order of topics, the evaluator's one pass with
\* four numbers per topic finds exactly the topics that were silent for longer than
\* the limit, at the edges of the recording as well as inside, and exactly the
\* required ones that are missing.
THEOREM EvaluatorExact == Obs!Spec => []EvaluationIsExact
<1>1. ObserverInv => EvaluationIsExact
  BY JudgmentExact DEF ObserverInv
<1>2. QED
  BY <1>1, ObserverInvariant, PTL

\* A dropout that the aggregator reported while the robot ran, between whatever
\* crashes of its own, is found in the recording afterwards.
THEOREM AlarmsOnRecord == Obs!Spec => []StaleOnRecord
<1>1. ObserverInv => StaleOnRecord
  <2> SUFFICES ASSUME ObserverInv,
                      NEW topic \in alarms \intersect Obs!Bag!DefaultRequiredTopics
               PROVE  topic \in Obs!Bag!StaleInBag \union Obs!Bag!MissingInBag
    BY DEF StaleOnRecord, Obs!StaleOnRecord
  <2>1. topic \in Obs!InBag /\ Obs!FellSilent(topic)
    BY ObserverParameters DEF ObserverInv, AggregatorTyped, AlarmsSilent
  <2>2. EvaluationIsExact
    BY JudgmentExact DEF ObserverInv
  <2>3. QED
    BY <2>1, <2>2 DEF EvaluationIsExact, Obs!EvaluationIsExact
<1>2. QED
  BY <1>1, ObserverInvariant, PTL

\* A required topic that has been missing from the recording for longer than the
\* timeout is named by every health report: the aggregator never holds a sample
\* to be fresher than it is, also after a restart.
THEOREM DropoutsNoticed == Obs!Spec => DropoutNoticed
<1> DEFINE Noticed == {topic \in Obs!Agg!RequiredTopics :
                         \A stamp \in recorded[topic] : now - stamp > StaleTimeout}
                        \subseteq health'.stale
<1>1. ObserverInv /\ [Obs!Next]_Obs!vars => (Obs!AggregatorTick => Noticed)
  <2> SUFFICES ASSUME ObserverInv, Obs!AggregatorTick, NEW topic \in Obs!Agg!RequiredTopics,
                      \A stamp \in recorded[topic] : now - stamp > StaleTimeout
               PROVE  topic \in health'.stale
    OBVIOUS
  <2>1. health'.stale = Obs!Agg!StaleTopics
    BY DEF Obs!AggregatorTick, Obs!Agg!Tick
  <2>2. /\ topic \in Listened /\ HeardAsRecorded(topic) /\ now \in Nat
        /\ receivedAge[topic] \in {Never} \union 0..ShortCap
        /\ recorded[topic] \subseteq 0..now
    BY ObserverFacts, ObserverParameters
  <2>3. CASE receivedAge[topic] = Never
    BY <2>1, <2>3, ObserverAges DEF Obs!Agg!StaleTopics, Obs!Agg!Within
  <2>4. CASE receivedAge[topic] # Never
    <3>1. PICK stamp \in recorded[topic] :
            receivedAge[topic] = ShortCap \/ now - stamp <= receivedAge[topic]
      BY <2>2, <2>4 DEF HeardAsRecorded
    <3>2. stamp \in Nat /\ now - stamp > StaleTimeout
      BY <2>2
    <3>3. receivedAge[topic] > StaleTimeout
      BY <2>2, <2>4, <3>1, <3>2, ObserverParameters DEF Never
    <3>4. QED
      BY <2>1, <2>2, <3>3, ObserverParameters DEF Obs!Agg!StaleTopics, Obs!Agg!Within, Never
  <2>5. QED
    BY <2>3, <2>4
<1>2. QED
  BY <1>1, ObserverInvariant, PTL DEF Obs!Spec, DropoutNoticed, Obs!DropoutNoticed

\* Blocked safety and locomotion in fault are never reported as good for longer
\* than the stale timeout: what is younger than that tells of the trouble, and
\* what is older is stale.
THEOREM TroubleReported == Obs!Spec => TroubleIsReported
<1> DEFINE InTrouble == \E topic \in Listened : troubleAge[topic] = Obs!Bound
<1>1. ObserverInv /\ [Obs!Next]_Obs!vars =>
        (Obs!AggregatorTick /\ InTrouble => health'.state \in {"ERROR", "STALE"})
  <2> SUFFICES ASSUME ObserverInv, Obs!AggregatorTick,
                      NEW topic \in Listened, troubleAge[topic] = Obs!Bound
               PROVE  health'.state \in {"ERROR", "STALE"}
    OBVIOUS
  <2>1. health'.state = Obs!Agg!Health
    BY DEF Obs!AggregatorTick, Obs!Agg!Tick
  <2>2. /\ TroubleHeard(topic) /\ Obs!Bound = StaleTimeout + 1 /\ StaleTimeout \in Nat
        /\ receivedAge[topic] \in {Never} \union 0..ShortCap
        /\ ShortCap \in Nat
    BY ObserverFacts, ObserverParameters
  <2>3. Obs!Trouble(topic, actual[topic])
    BY <2>2 DEF TroubleHeard, Never
  <2>4. topic \in {"safety/state", "locomotion/state"} /\ topic \in Obs!Agg!RequiredTopics
    BY <2>3, ObserverParameters DEF Obs!Trouble
  <2>5. CASE Obs!Agg!StaleTopics # {}
    BY <2>1, <2>5 DEF Obs!Agg!Health
  <2>6. CASE Obs!Agg!StaleTopics = {}
    <3>1. receivedAge[topic] # Never /\ receivedAge[topic] <= StaleTimeout
      BY <2>4, <2>6, ObserverAges DEF Obs!Agg!StaleTopics, Obs!Agg!Within
    <3>2. receivedAge[topic] < troubleAge[topic]
      BY <2>2, <3>1 DEF Never
    <3>3. Obs!Trouble(topic, message[topic])
      BY <2>2, <3>1, <3>2 DEF TroubleHeard
    <3>4. QED
      BY <2>1, <2>6, <3>3 DEF Obs!Trouble, Obs!Agg!Health, Obs!Agg!State, Obs!BlockingSafety,
                              Obs!Agg!BlockingSafety
  <2>7. QED
    BY <2>5, <2>6
<1>2. QED
  BY <1>1, ObserverInvariant, PTL DEF Obs!Spec, TroubleIsReported, Obs!TroubleIsReported
=============================================================================
