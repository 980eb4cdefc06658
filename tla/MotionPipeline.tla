--------------------------- MODULE MotionPipeline -------------------------
(***************************************************************************)
(* The path of a motion command and of the signals that stop it: an        *)
(* operator, the safety manager, the command arbiter and the locomotion    *)
(* adapter, each a process with its own executor.                          *)
(*                                                                         *)
(*   operator --candidate--> arbiter --approved--> locomotion adapter      *)
(*       |                      ^  |                   ^                   *)
(*       +--heartbeat--> safety-+--|--safety state-----+                   *)
(*                       manager <-+ approved                              *)
(*                                                                         *)
(* Time passes in units.  In each unit every running node's timer fires at *)
(* least once and at most TicksPerUnit times, in any order, and what was   *)
(* published in a unit is delivered before the unit ends.  Any node of     *)
(* Crashable may die at any moment and come back at any later one.  The    *)
(* mode manager's stream carries one constant mode, which each node hears  *)
(* some time after it starts.                                              *)
(***************************************************************************)
EXTENDS HumaWareMsgs, RosRuntime

CONSTANTS OperatingMode, Offered, TicksPerUnit, Crashable, Controls,
          RequireTeleop, MonitorApproved, MrmTriggers,
          TeleopTimeout, ApprovedTimeout,
          ArbiterTimeout, MaxLinear, MaxAngular, PublishStopOnBlock,
          LocomotionTimeout, SettleTime, Epsilon

VARIABLES
  \* safety manager
  smMode, teleopAge, hardwareAge, approvedAge, serviceMrm, estop, parameterMrm,
  \* command arbiter
  arbMode, arbSafety, arbSafetySeen, candidates,
  \* locomotion adapter
  locMode, locSafety, commandAge, stopAge, locState, velocity, constraints,
  \* topics
  safety, mrm, approved, arbitration, locomotion,
  \* scheduling
  up,           \* the nodes that are running
  ticks,        \* how often each has run its timer in this unit
  \* observers
  haltAge,      \* how long the safety manager has been told to halt the robot
  drivenFrom    \* command_age, when approved, of the last command delivered

SM == INSTANCE SafetyManager WITH
  RequireHardware <- FALSE, HardwareTimeout <- TeleopTimeout,
  ParameterReason <- "", activeMode <- smMode

Arb == INSTANCE CommandArbiter WITH
  CommandTimeout <- ArbiterTimeout, activeMode <- arbMode,
  safetyState <- arbSafety, safetySeen <- arbSafetySeen

Loc == INSTANCE LocomotionAdapter WITH
  CommandTimeout <- LocomotionTimeout, Offered <- Velocities, activeMode <- locMode,
  safetyState <- locSafety, state <- locState

Nodes == {"operator", "safety_manager", "arbiter", "locomotion"}

\* With monitor_approved_commands off the safety manager's subscription to the
\* approved commands has no effect, and is left out.
Listeners == {"locomotion"} \union IF MonitorApproved THEN {"safety_manager"} ELSE {}

ASSUME PipelineAssumption ==
  /\ OperatingMode \in ActiveModes
  /\ Offered \subseteq Velocities
  /\ TicksPerUnit \in Nat \ {0}
  /\ Crashable \subseteq Nodes
  /\ Controls \subseteq {"estop", "parameter", "trigger", "clear"}
  /\ {RequireTeleop, MonitorApproved, PublishStopOnBlock} \subseteq BOOLEAN
  /\ MrmTriggers \subseteq SM!Watchdogs
  /\ TeleopTimeout \in Nat /\ TeleopTimeout < AgeCap
  /\ ApprovedTimeout \in Nat /\ ApprovedTimeout < AgeCap
  /\ ArbiterTimeout \in Nat /\ ArbiterTimeout < AgeCap
  /\ LocomotionTimeout \in Nat /\ LocomotionTimeout < AgeCap
  /\ {MaxLinear, MaxAngular, SettleTime, Epsilon} \subseteq Nat

smNode == <<smMode, teleopAge, hardwareAge, approvedAge, serviceMrm, estop,
            parameterMrm>>
smVars == <<smNode, safety, mrm>>
arbNode == <<arbMode, arbSafety, arbSafetySeen, candidates>>
arbVars == <<arbNode, approved, arbitration>>
locNode == <<locMode, locSafety, commandAge, stopAge, locState, velocity,
             constraints>>
locVars == <<locNode, locomotion>>
topics == <<safety, mrm, approved, arbitration, locomotion>>
schedule == <<up, ticks>>
vars == <<smVars, arbVars, locVars, schedule, haltAge, drivenFrom>>

Halting == "safety_manager" \in up /\ (estop \/ parameterMrm \/ serviceMrm)

Init ==
  /\ SM!NodeInit /\ Arb!NodeInit /\ Loc!NodeInit
  /\ safety = Silent({"arbiter", "locomotion"})
  /\ approved = Silent(Listeners)
  /\ mrm = Silent({}) /\ arbitration = Silent({}) /\ locomotion = Silent({})
  /\ up = Nodes
  /\ ticks = [n \in Nodes |-> 0]
  /\ haltAge = Never
  /\ drivenFrom = 0

(***************************************************************************)
(* Timers.                                                                 *)
(***************************************************************************)
CountTick(n) ==
  /\ n \in up
  /\ ticks[n] < TicksPerUnit
  /\ ticks' = [ticks EXCEPT ![n] = @ + 1]
  /\ UNCHANGED <<up, drivenFrom>>

SafetyTick ==
  /\ CountTick("safety_manager")
  /\ SM!Tick
  /\ UNCHANGED <<arbVars, locVars>>

ArbiterTick ==
  /\ CountTick("arbiter")
  /\ Arb!Tick
  /\ UNCHANGED <<smVars, locVars>>

LocomotionTick ==
  /\ CountTick("locomotion")
  /\ Loc!Tick
  /\ UNCHANGED <<smVars, arbVars>>

\* A command source sends a candidate; the teleop node sends a heartbeat with it.
OperatorTick(vel) ==
  /\ CountTick("operator")
  /\ IF "arbiter" \in up THEN Arb!OnCandidate(OperatingMode, vel)
                         ELSE UNCHANGED arbVars
  /\ IF "safety_manager" \in up /\ OperatingMode = "TELEOP"
     THEN SM!OnTeleopHeartbeat ELSE UNCHANGED smVars
  /\ UNCHANGED locVars

(***************************************************************************)
(* Deliveries.                                                             *)
(***************************************************************************)
Awaits(topic, n) == n \in DOMAIN topic /\ topic[n] # << >>

SafetyToArbiter ==
  /\ Awaits(safety, "arbiter")
  /\ Arb!OnSafetyState(Head(safety["arbiter"]).state)
  /\ safety' = Take(safety, "arbiter")
  /\ UNCHANGED <<smNode, mrm, locVars, schedule, drivenFrom>>

SafetyToLocomotion ==
  /\ Awaits(safety, "locomotion")
  /\ Loc!OnSafetyState(Head(safety["locomotion"]).state)
  /\ safety' = Take(safety, "locomotion")
  /\ UNCHANGED <<smNode, mrm, arbVars, schedule, drivenFrom>>

ApprovedToLocomotion ==
  /\ Awaits(approved, "locomotion")
  /\ Loc!OnApprovedCommand(Head(approved["locomotion"]).vel)
  /\ drivenFrom' = IF velocity' = Zero THEN 0 ELSE Head(approved["locomotion"]).age
  /\ approved' = Take(approved, "locomotion")
  /\ UNCHANGED <<arbNode, arbitration, smVars, schedule>>

ApprovedToSafety ==
  /\ Awaits(approved, "safety_manager")
  /\ SM!OnApprovedCommand
  /\ approved' = Take(approved, "safety_manager")
  /\ UNCHANGED <<arbNode, arbitration, locVars, schedule, drivenFrom>>

HearMode(n) ==
  /\ n \in up
  /\ \/ /\ n = "safety_manager" /\ smMode # OperatingMode
        /\ SM!OnModeState(OperatingMode)
        /\ UNCHANGED <<arbVars, locVars>>
     \/ /\ n = "arbiter" /\ arbMode # OperatingMode
        /\ Arb!OnModeState(OperatingMode)
        /\ UNCHANGED <<smVars, locVars>>
     \/ /\ n = "locomotion" /\ locMode # OperatingMode
        /\ Loc!OnModeState(OperatingMode)
        /\ UNCHANGED <<smVars, arbVars>>
  /\ UNCHANGED <<schedule, drivenFrom>>

(***************************************************************************)
(* The operator's console: the safety manager's parameters and services.   *)
(***************************************************************************)
Console ==
  /\ "safety_manager" \in up
  /\ \/ "estop" \in Controls /\ SM!SetEstop(~estop)
     \/ "parameter" \in Controls /\ SM!SetParameterMrm(~parameterMrm)
     \/ "trigger" \in Controls /\ SM!TriggerMrm
     \/ "clear" \in Controls /\ SM!ClearMrm
  /\ UNCHANGED <<arbVars, locVars, schedule, drivenFrom>>

(***************************************************************************)
(* Faults: a process dies, with its queues and its state.                  *)
(***************************************************************************)
Crash(n) ==
  /\ n \in up \intersect Crashable
  /\ IF n = "safety_manager" THEN SM!Restart ELSE UNCHANGED smNode
  /\ IF n = "arbiter" THEN Arb!Restart ELSE UNCHANGED arbNode
  /\ IF n = "locomotion" THEN Loc!Restart /\ drivenFrom' = 0
                         ELSE UNCHANGED <<locNode, drivenFrom>>
  /\ safety' = Leave(safety, n)
  /\ approved' = Leave(approved, n)
  /\ up' = up \ {n}
  /\ UNCHANGED <<mrm, arbitration, locomotion, ticks>>

Subscribe(topic, subscribers, n) ==
  IF n \in subscribers THEN Join(topic, n) ELSE topic

Recover(n) ==
  /\ n \in Nodes \ up
  /\ safety' = Subscribe(safety, {"arbiter", "locomotion"}, n)
  /\ approved' = Subscribe(approved, Listeners, n)
  /\ up' = up \union {n}
  /\ UNCHANGED <<smNode, arbNode, locVars, mrm, arbitration, ticks, drivenFrom>>

(***************************************************************************)
(* Time.                                                                   *)
(***************************************************************************)
Delivered(topic) == \A n \in DOMAIN topic : topic[n] = << >>

Advance ==
  /\ \A n \in up : ticks[n] > 0
  /\ Delivered(safety) /\ Delivered(approved)
  /\ SM!Age /\ Arb!Age /\ Loc!Age
  /\ ticks' = [n \in Nodes |-> 0]
  /\ haltAge' = Older(haltAge)
  /\ UNCHANGED <<topics, up, drivenFrom>>

Observe ==
  haltAge' = IF ~Halting' THEN Never ELSE IF ~Halting THEN 0 ELSE haltAge

Step ==
  \/ SafetyTick \/ ArbiterTick \/ LocomotionTick
  \/ \E vel \in Offered : OperatorTick(vel)
  \/ SafetyToArbiter \/ SafetyToLocomotion
  \/ ApprovedToLocomotion \/ ApprovedToSafety
  \/ \E n \in Nodes : HearMode(n)
  \/ Console
  \/ \E n \in Nodes : Crash(n) \/ Recover(n)

Next == (Step /\ Observe) \/ Advance

Spec == Init /\ [][Next]_vars

(***************************************************************************)
(* Executors keep firing timers and delivering messages, and time keeps    *)
(* passing.  Nothing forces the console, a crash or a restart.             *)
(***************************************************************************)
Fairness ==
  /\ WF_vars(SafetyTick /\ Observe)
  /\ WF_vars(ArbiterTick /\ Observe)
  /\ WF_vars(LocomotionTick /\ Observe)
  /\ WF_vars((\E vel \in Offered : OperatorTick(vel)) /\ Observe)
  /\ WF_vars(SafetyToArbiter /\ Observe)
  /\ WF_vars(SafetyToLocomotion /\ Observe)
  /\ WF_vars(ApprovedToLocomotion /\ Observe)
  /\ WF_vars(ApprovedToSafety /\ Observe)
  /\ \A n \in Nodes : WF_vars(HearMode(n) /\ Observe)
  /\ WF_vars(Advance)

FairSpec == Spec /\ Fairness

-----------------------------------------------------------------------------
TypeOk ==
  /\ SM!NodeTypeOk /\ Arb!NodeTypeOk /\ Loc!NodeTypeOk
  /\ safety \in Topics({"arbiter", "locomotion"} \intersect up, SM!SafetyMsgs)
  /\ approved \in Topics(Listeners \intersect up, Arb!Commands)
  /\ up \subseteq Nodes
  /\ ticks \in [Nodes -> 0..TicksPerUnit]
  /\ {haltAge, drivenFrom} \subseteq Ages

\* How long the safety manager may be told to halt the robot before it stands:
\* one timer period each of the safety manager and of a gate that obeys it, and
\* the unit in which the order is given.
HaltBound == 3

\* An E-stop, a configured MRM or a triggered MRM that the safety manager keeps
\* hearing brings the robot to rest within HaltBound units and keeps it there,
\* whatever was in flight, whichever other nodes die and come back, and even
\* when the arbiter is not there to publish a stop.
StopBound == haltAge >= HaltBound => velocity = Zero

(***************************************************************************)
(* The path keeps the promise of a halt, with the age of the operator's    *)
(* order counted up to the bound: whoever the order comes from and however *)
(* it is set and cleared, no command gets through once it has been heard,  *)
(* and no unit beyond the bound passes with the robot in motion.           *)
(***************************************************************************)
Promise == INSTANCE Interlock WITH
  Still <- Zero, Grace <- HaltBound, motion <- velocity,
  asked <- IF haltAge > HaltBound THEN HaltBound ELSE haltAge

InterlockRefined == Promise!Spec

\* The robot never executes a command for longer than the arbiter's and the
\* adapter's timeouts together (and the unit until the adapter's next timer)
\* after its source issued it, however many nodes fall silent.
FreshnessBound ==
  velocity # Zero => /\ commandAge <= LocomotionTimeout + 1
                     /\ drivenFrom + commandAge <= ArbiterTimeout + LocomotionTimeout + 1

\* Nothing is wrong: every node runs and nobody asks for a halt.
Healthy == up = Nodes /\ ~estop /\ ~parameterMrm /\ ~serviceMrm

\* A watchdog MRM is a live function of the health of the runtime: when all
\* nodes run again and nobody asks for a halt, the robot moves again without a
\* clear_mrm, and keeps moving.
WatchdogRecovers == <>[]Healthy => <>[](velocity # Zero)
=============================================================================
