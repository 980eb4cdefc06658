---------------------------- MODULE HardwarePath --------------------------
(***************************************************************************)
(* The loop between the safety manager and the hardware adapter.           *)
(*                                                                         *)
(*   safety manager --safety state, MRM state--> hardware adapter          *)
(*         ^--------------------heartbeat------------------+               *)
(*                                                                         *)
(* The arbiter is taken at its worst, one that hears of no halt: at any    *)
(* moment it may approve anything of Offered and report output as enabled. *)
(* Time passes in units as in MotionPipeline: in each unit every running   *)
(* timer fires at least once and at most TicksPerUnit times, and what was  *)
(* published in a unit is delivered before the unit ends.                  *)
(***************************************************************************)
EXTENDS HumaWareMsgs, RosRuntime

CONSTANTS OperatingMode, Offered, TicksPerUnit, Crashable, MrmTriggers,
          HardwareTimeout,     \* of the safety manager's hardware watchdog
          ApprovedTimeout, ArbitrationTimeout

VARIABLES
  \* safety manager
  smMode, teleopAge, hardwareAge, approvedAge, serviceMrm, estop, parameterMrm,
  \* hardware adapter
  hwMode, safetyState, mrmState, lastApproved, commandHeldAge, outputEnabled,
  arbitrationAge, applied,
  \* topics
  safety, mrm, heartbeat,
  \* scheduling
  up,           \* the nodes that are running
  ticks,        \* how often each timer has fired in this unit
  \* observers, in whole units
  haltedFor,    \* the running safety manager has evaluated to a blocking state
  downFor,      \* the hardware adapter has been down
  steadyFor     \* both nodes have been up

SM == INSTANCE SafetyManager WITH
  RequireTeleop <- FALSE, RequireHardware <- TRUE, MonitorApproved <- FALSE,
  TeleopTimeout <- HardwareTimeout, ParameterReason <- "", activeMode <- smMode

HW == INSTANCE HardwareAdapter WITH
  activeMode <- hwMode, approvedAge <- commandHeldAge

Nodes == {"safety_manager", "hardware"}

\* The adapter's command gate and its heartbeat have a timer each.
Timers == {"safety_manager", "gate", "heartbeat"}

NodeOf(timer) == IF timer = "safety_manager" THEN "safety_manager" ELSE "hardware"

ASSUME HardwarePathAssumption ==
  /\ OperatingMode \in ActiveModes
  /\ Offered \subseteq Velocities
  /\ TicksPerUnit \in Nat \ {0}
  /\ Crashable \subseteq Nodes
  /\ MrmTriggers \subseteq SM!Watchdogs
  /\ HardwareTimeout \in Nat \ {0} /\ HardwareTimeout < AgeCap
  /\ ApprovedTimeout \in Nat /\ ApprovedTimeout < AgeCap
  /\ ArbitrationTimeout \in Nat /\ ArbitrationTimeout < AgeCap

smNode == <<smMode, teleopAge, hardwareAge, approvedAge, serviceMrm, estop,
            parameterMrm>>
smVars == <<smNode, safety, mrm>>
hwNode == <<hwMode, safetyState, mrmState, lastApproved, commandHeldAge,
            outputEnabled, arbitrationAge, applied>>
hwVars == <<hwNode, heartbeat>>
observers == <<haltedFor, downFor, steadyFor>>
vars == <<smVars, hwVars, up, ticks, observers>>

AdapterInit ==
  /\ HW!NodeInit
  /\ haltedFor = 0 /\ downFor = 0 /\ steadyFor = 0

Init ==
  /\ SM!NodeInit
  /\ AdapterInit
  /\ safety = Silent({"hardware"}) /\ mrm = Silent({"hardware"})
  /\ heartbeat = Silent({"safety_manager"})
  /\ up = Nodes
  /\ ticks = [t \in Timers |-> 0]

(***************************************************************************)
(* Timers.                                                                 *)
(***************************************************************************)
CountTick(t) ==
  /\ NodeOf(t) \in up
  /\ ticks[t] < TicksPerUnit
  /\ ticks' = [ticks EXCEPT ![t] = @ + 1]
  /\ UNCHANGED up

SafetyTick == CountTick("safety_manager") /\ SM!Tick /\ UNCHANGED hwVars

GateTick == CountTick("gate") /\ HW!Tick /\ UNCHANGED smVars

HeartbeatTick == CountTick("heartbeat") /\ HW!PublishHeartbeat /\ UNCHANGED smVars

(***************************************************************************)
(* Deliveries.                                                             *)
(***************************************************************************)
Awaits(topic, n) == n \in DOMAIN topic /\ topic[n] # << >>

SafetyToHardware ==
  /\ Awaits(safety, "hardware")
  /\ HW!OnSafetyState(Head(safety["hardware"]).state)
  /\ safety' = Take(safety, "hardware")
  /\ UNCHANGED <<smNode, mrm, up, ticks>>

MrmToHardware ==
  /\ Awaits(mrm, "hardware")
  /\ HW!OnMrmState(Head(mrm["hardware"]).state)
  /\ mrm' = Take(mrm, "hardware")
  /\ UNCHANGED <<smNode, safety, up, ticks>>

HeartbeatToSafety ==
  /\ Awaits(heartbeat, "safety_manager")
  /\ SM!OnHardwareHeartbeat
  /\ heartbeat' = Take(heartbeat, "safety_manager")
  /\ UNCHANGED <<hwNode, up, ticks>>

ArbiterToHardware ==
  /\ "hardware" \in up
  /\ \/ \E vel \in Offered : HW!OnApprovedCommand(vel)
     \/ HW!OnArbitrationState(TRUE)
  /\ UNCHANGED <<smVars, up, ticks>>

HearMode ==
  /\ \/ /\ "safety_manager" \in up /\ smMode # OperatingMode
        /\ SM!OnModeState(OperatingMode) /\ UNCHANGED hwVars
     \/ /\ "hardware" \in up /\ hwMode # OperatingMode
        /\ HW!OnModeState(OperatingMode) /\ UNCHANGED smVars
  /\ UNCHANGED <<up, ticks>>

\* The operator's halts.  The parameter mrm_active works as the service does,
\* without the announcement; MotionPipeline has it.
Console ==
  /\ "safety_manager" \in up
  /\ \/ SM!SetEstop(~estop)
     \/ SM!TriggerMrm
     \/ SM!ClearMrm
  /\ UNCHANGED <<hwVars, up, ticks>>

(***************************************************************************)
(* Faults: a process dies, with its queues and its state.                  *)
(***************************************************************************)
Crash(n) ==
  /\ n \in up \intersect Crashable
  /\ IF n = "safety_manager" THEN SM!Restart /\ UNCHANGED hwNode
                             ELSE HW!Restart /\ UNCHANGED smNode
  /\ safety' = Leave(safety, n)
  /\ mrm' = Leave(mrm, n)
  /\ heartbeat' = Leave(heartbeat, n)
  /\ up' = up \ {n}
  /\ UNCHANGED ticks

Subscribe(topic, subscriber, n) == IF n = subscriber THEN Join(topic, n) ELSE topic

Recover(n) ==
  /\ n \in Nodes \ up
  /\ safety' = Subscribe(safety, "hardware", n)
  /\ mrm' = Subscribe(mrm, "hardware", n)
  /\ heartbeat' = Subscribe(heartbeat, "safety_manager", n)
  /\ up' = up \union {n}
  /\ UNCHANGED <<smNode, hwNode, ticks>>

(***************************************************************************)
(* Time.                                                                   *)
(***************************************************************************)
Delivered(topic) == \A n \in DOMAIN topic : topic[n] = << >>

Advance ==
  /\ \A t \in Timers : NodeOf(t) \in up => ticks[t] > 0
  /\ Delivered(safety) /\ Delivered(mrm) /\ Delivered(heartbeat)
  /\ SM!Age /\ HW!Age
  /\ ticks' = [t \in Timers |-> 0]
  /\ UNCHANGED <<safety, mrm, heartbeat, up>>

Step ==
  \/ SafetyTick \/ GateTick \/ HeartbeatTick
  \/ SafetyToHardware \/ MrmToHardware \/ HeartbeatToSafety
  \/ ArbiterToHardware
  \/ HearMode
  \/ Console
  \/ \E n \in Nodes : Crash(n) \/ Recover(n)

(***************************************************************************)
(* The observers.                                                          *)
(***************************************************************************)
\* How long the safety manager may ask for a halt before the motors stand: the
\* unit in which it begins to, one in which its timer tells the adapter, and
\* one in which the adapter's timer acts on it.
HaltBound == 3

\* How long the watchdog takes to notice that the adapter is gone.
AlarmBound == HardwareTimeout + 1

\* How long both nodes have to run for a heartbeat to have been sent and heard:
\* the rest of the unit in which the later one started, and a whole one.
SteadyBound == 2

Halting == "safety_manager" \in up /\ SM!Evaluated \in BlockingSafety

\* The units a condition has held for, given whether it holds before and after
\* a step and whether the step is the passing of a unit.
Lasting(units, bound, before, after, aged) ==
  IF ~before \/ ~after THEN 0
  ELSE IF aged /\ units < bound THEN units + 1 ELSE units

Observe(aged) ==
  /\ haltedFor' = Lasting(haltedFor, HaltBound, Halting, Halting', aged)
  /\ downFor' = Lasting(downFor, AlarmBound, "hardware" \notin up,
                        "hardware" \notin up', aged)
  /\ steadyFor' = Lasting(steadyFor, SteadyBound, up = Nodes, up' = Nodes, aged)

Next == (Step /\ Observe(FALSE)) \/ (Advance /\ Observe(TRUE))

Spec == Init /\ [][Next]_vars

-----------------------------------------------------------------------------
TypeOk ==
  /\ SM!NodeTypeOk /\ HW!NodeTypeOk
  /\ safety \in Topics({"hardware"} \intersect up, SM!SafetyMsgs)
  /\ mrm \in Topics({"hardware"} \intersect up, SM!MrmMsgs)
  /\ heartbeat \in Topics({"safety_manager"} \intersect up, {"beat"})
  /\ up \subseteq Nodes
  /\ ticks \in [Timers -> 0..TicksPerUnit]
  /\ haltedFor \in 0..HaltBound /\ downFor \in 0..AlarmBound /\ steadyFor \in 0..SteadyBound

\* Whatever makes the safety manager ask for a halt - an E-stop, an MRM of the
\* operator's or one of the hardware watchdog's - the motors stand within
\* HaltBound units and stay so, whatever the arbiter goes on approving and
\* however often the adapter is restarted.
HaltReachesMotors == haltedFor >= HaltBound => applied = HW!Halt

\* In an active mode the hardware watchdog tells the truth, whenever either
\* side was restarted: an adapter that is gone is noticed, and one that has run
\* beside the safety manager for a whole unit is trusted - also while its gate
\* is closed, so that an alarm about the adapter ends with its cause.
AlarmIsTrue ==
  smMode \in ActiveModes =>
    /\ downFor >= AlarmBound => "hardware_heartbeat" \in SM!Fired
    /\ steadyFor >= SteadyBound => "hardware_heartbeat" \notin SM!Fired
=============================================================================
