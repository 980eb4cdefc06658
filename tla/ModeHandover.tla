---------------------------- MODULE ModeHandover --------------------------
(***************************************************************************)
(* A change of mode on its way to the motors: the mode manager, the        *)
(* command arbiter and the hardware adapter, fed by a teleop and an        *)
(* autonomy source that offer commands whatever the mode is.               *)
(*                                                                         *)
(*   mode/set, mode/takeover --> mode manager --mode--> arbiter            *)
(*   teleop, autonomy --candidates--> arbiter --approved, report-->        *)
(*   hardware adapter (which hears the mode as well)                       *)
(*                                                                         *)
(* Time is as in MotionPipeline.  The safety manager's streams carry OK    *)
(* and NONE throughout; the three nodes hear them some time after they     *)
(* start.                                                                  *)
(***************************************************************************)
EXTENDS HumaWareMsgs, RosRuntime

CONSTANTS TicksPerUnit, CommandSources, Crashable, Requested,
          InitialMode, TeleopVelocity, AutonomyVelocity,
          ArbiterTimeout, MaxLinear, MaxAngular, PublishStopOnBlock,
          ApprovedTimeout, ArbitrationTimeout

VARIABLES
  \* mode manager
  requestedMode, activeMode, owner, mmSafety, mmSafetySeen,
  \* command arbiter
  arbMode, arbSafety, arbSafetySeen, candidates,
  \* hardware adapter
  hwMode, hwSafety, hwMrm, lastApproved, approvedAge, outputEnabled,
  arbitrationAge, applied,
  \* topics
  mode, transition, approved, arbitration, heartbeat,
  \* scheduling
  up, ticks,
  \* observers
  modeAge,       \* how long the mode manager has been in its mode
  approvedFrom,  \* command_age, when approved, of the adapter's last command
  appliedAge     \* how long ago the source issued what the vendor now executes

MM == INSTANCE ModeManager WITH
  Requesters <- {"operator"}, safetyState <- mmSafety, safetySeen <- mmSafetySeen

Arb == INSTANCE CommandArbiter WITH
  CommandTimeout <- ArbiterTimeout, Offered <- {TeleopVelocity, AutonomyVelocity},
  activeMode <- arbMode, safetyState <- arbSafety, safetySeen <- arbSafetySeen

HW == INSTANCE HardwareAdapter WITH
  Offered <- Velocities, activeMode <- hwMode, safetyState <- hwSafety,
  mrmState <- hwMrm

mmNode == <<requestedMode, activeMode, owner, mmSafety, mmSafetySeen>>
mmVars == <<mmNode, mode, transition>>
arbNode == <<arbMode, arbSafety, arbSafetySeen, candidates>>
arbVars == <<arbNode, approved, arbitration>>
hwNode == <<hwMode, hwSafety, hwMrm, lastApproved, approvedAge, outputEnabled,
            arbitrationAge, applied>>
hwVars == <<hwNode, heartbeat>>
schedule == <<up, ticks>>
commandObservers == <<approvedFrom, appliedAge>>
vars == <<mmVars, arbVars, hwVars, schedule, modeAge, commandObservers>>

Nodes == CommandSources \union {"mode_manager", "arbiter", "hardware"}

ASSUME HandoverAssumption ==
  /\ TicksPerUnit \in Nat \ {0}
  /\ CommandSources \subseteq {"teleop", "autonomy"}
  /\ Crashable \subseteq Nodes
  /\ Requested \subseteq Modes
  /\ {TeleopVelocity, AutonomyVelocity} \subseteq Velocities
  /\ InitialMode \in MM!ModeValues
  /\ {MaxLinear, MaxAngular} \subseteq Nat
  /\ PublishStopOnBlock \in BOOLEAN
  /\ ArbiterTimeout \in Nat /\ ArbiterTimeout < AgeCap
  /\ ApprovedTimeout \in Nat /\ ApprovedTimeout < AgeCap
  /\ ArbitrationTimeout \in Nat /\ ArbitrationTimeout < AgeCap
  /\ ArbiterTimeout + ApprovedTimeout < AgeCap    \* appliedAge adds two ages up

\* What the vendor executes tells whose command it is: neither source asks for
\* the other's velocity or for a stop, and the arbiter's limits alter neither.
ASSUME TellApart ==
  /\ TeleopVelocity # AutonomyVelocity
  /\ Zero \notin {TeleopVelocity, AutonomyVelocity}
  /\ \A vel \in {TeleopVelocity, AutonomyVelocity} : Arb!ClampVelocity(vel) = vel

Init ==
  /\ MM!NodeInit /\ Arb!NodeInit /\ HW!NodeInit
  /\ mode = Silent({"arbiter", "hardware"})
  /\ approved = Silent({"hardware"})
  /\ arbitration = Silent({"hardware"})
  /\ transition = Silent({}) /\ heartbeat = Silent({})
  /\ up = Nodes
  /\ ticks = [n \in Nodes |-> 0]
  /\ modeAge = 0
  /\ approvedFrom = 0 /\ appliedAge = Never

(***************************************************************************)
(* Timers and sources.                                                     *)
(***************************************************************************)
CountTick(n) ==
  /\ n \in up
  /\ ticks[n] < TicksPerUnit
  /\ ticks' = [ticks EXCEPT ![n] = @ + 1]
  /\ UNCHANGED up

ModeTick ==
  /\ CountTick("mode_manager")
  /\ MM!Tick
  /\ UNCHANGED <<arbVars, hwVars, commandObservers>>

ArbiterTick ==
  /\ CountTick("arbiter")
  /\ Arb!Tick
  /\ UNCHANGED <<mmVars, hwVars, commandObservers>>

HardwareTick ==
  /\ CountTick("hardware")
  /\ HW!Tick
  /\ appliedAge' = IF HW!ReleaseOutput THEN approvedFrom + approvedAge ELSE Never
  /\ UNCHANGED <<mmVars, arbVars, approvedFrom>>

SourceTick(n, source, vel) ==
  /\ n \in CommandSources
  /\ CountTick(n)
  /\ IF "arbiter" \in up THEN Arb!OnCandidate(source, vel) ELSE UNCHANGED arbVars
  /\ UNCHANGED <<mmVars, hwVars, commandObservers>>

(***************************************************************************)
(* The operator's requests.                                                *)
(***************************************************************************)
Request ==
  /\ "mode_manager" \in up
  /\ \/ \E m \in Requested : MM!SetMode(m, "operator")
     \/ MM!Takeover("operator")
  /\ UNCHANGED <<arbVars, hwVars, schedule, commandObservers>>

(***************************************************************************)
(* Deliveries.                                                             *)
(***************************************************************************)
Awaits(topic, n) == n \in DOMAIN topic /\ topic[n] # << >>

ModeToArbiter ==
  /\ Awaits(mode, "arbiter")
  /\ Arb!OnModeState(Head(mode["arbiter"]).active)
  /\ mode' = Take(mode, "arbiter")
  /\ UNCHANGED <<mmNode, transition, hwVars, schedule, commandObservers>>

ModeToHardware ==
  /\ Awaits(mode, "hardware")
  /\ HW!OnModeState(Head(mode["hardware"]).active)
  /\ mode' = Take(mode, "hardware")
  /\ UNCHANGED <<mmNode, transition, arbVars, schedule, commandObservers>>

ApprovedToHardware ==
  /\ Awaits(approved, "hardware")
  /\ HW!OnApprovedCommand(Head(approved["hardware"]).vel)
  /\ approvedFrom' = Head(approved["hardware"]).age
  /\ approved' = Take(approved, "hardware")
  /\ UNCHANGED <<mmVars, arbNode, arbitration, schedule, appliedAge>>

ReportToHardware ==
  /\ Awaits(arbitration, "hardware")
  /\ HW!OnArbitrationState(Head(arbitration["hardware"]).enabled)
  /\ arbitration' = Take(arbitration, "hardware")
  /\ UNCHANGED <<mmVars, arbNode, approved, schedule, commandObservers>>

HearSafety(n) ==
  /\ n \in up
  /\ \/ /\ n = "mode_manager" /\ mmSafety # "OK"
        /\ MM!OnSafetyState("OK")
        /\ UNCHANGED <<arbVars, hwVars>>
     \/ /\ n = "arbiter" /\ arbSafety # "OK"
        /\ Arb!OnSafetyState("OK")
        /\ UNCHANGED <<mmVars, hwVars>>
     \/ /\ n = "hardware" /\ hwSafety # "OK"
        /\ HW!OnSafetyState("OK")
        /\ UNCHANGED <<mmVars, arbVars>>
  /\ UNCHANGED <<schedule, commandObservers>>

(***************************************************************************)
(* Faults and time.                                                        *)
(***************************************************************************)
Crash(n) ==
  /\ n \in up \intersect Crashable
  /\ IF n = "mode_manager" THEN MM!Restart ELSE UNCHANGED mmNode
  /\ IF n = "arbiter" THEN Arb!Restart ELSE UNCHANGED arbNode
  /\ IF n = "hardware" THEN HW!Restart /\ approvedFrom' = 0 /\ appliedAge' = Never
                       ELSE UNCHANGED <<hwNode, commandObservers>>
  /\ mode' = Leave(mode, n)
  /\ approved' = Leave(approved, n)
  /\ arbitration' = Leave(arbitration, n)
  /\ up' = up \ {n}
  /\ UNCHANGED <<transition, heartbeat, ticks>>

Subscribe(topic, subscribers, n) ==
  IF n \in subscribers THEN Join(topic, n) ELSE topic

Recover(n) ==
  /\ n \in Nodes \ up
  /\ mode' = Subscribe(mode, {"arbiter", "hardware"}, n)
  /\ approved' = Subscribe(approved, {"hardware"}, n)
  /\ arbitration' = Subscribe(arbitration, {"hardware"}, n)
  /\ up' = up \union {n}
  /\ UNCHANGED <<mmNode, transition, arbNode, hwVars, ticks, commandObservers>>

Delivered(topic) == \A n \in DOMAIN topic : topic[n] = << >>

Advance ==
  /\ \A n \in up : ticks[n] > 0
  /\ Delivered(mode) /\ Delivered(approved) /\ Delivered(arbitration)
  /\ Arb!Age /\ HW!Age
  /\ ticks' = [n \in Nodes |-> 0]
  /\ modeAge' = Older(modeAge)
  /\ appliedAge' = Older(appliedAge)
  /\ UNCHANGED <<mmVars, approved, arbitration, heartbeat, up, approvedFrom>>

\* The clock of the current mode starts with the mode or with the manager.
Observe ==
  modeAge' = IF "mode_manager" \notin up' THEN Never
             ELSE IF activeMode' # activeMode \/ modeAge = Never THEN 0 ELSE modeAge

Step ==
  \/ ModeTick \/ ArbiterTick \/ HardwareTick
  \/ SourceTick("teleop", "TELEOP", TeleopVelocity)
  \/ SourceTick("autonomy", "AUTONOMY", AutonomyVelocity)
  \/ Request
  \/ ModeToArbiter \/ ModeToHardware \/ ApprovedToHardware \/ ReportToHardware
  \/ \E n \in Nodes : HearSafety(n) \/ Crash(n) \/ Recover(n)

Next == (Step /\ Observe) \/ Advance

Spec == Init /\ [][Next]_vars

-----------------------------------------------------------------------------
TypeOk ==
  /\ MM!NodeTypeOk /\ Arb!NodeTypeOk /\ HW!NodeTypeOk
  /\ mode \in Topics({"arbiter", "hardware"} \intersect up, MM!ModeMsgs)
  /\ approved \in Topics({"hardware"} \intersect up, Arb!Commands)
  /\ arbitration \in Topics({"hardware"} \intersect up, Arb!Reports)
  /\ up \subseteq Nodes
  /\ ticks \in [Nodes -> 0..TicksPerUnit]
  /\ {modeAge, approvedFrom, appliedAge} \subseteq Ages

\* The mode whose source has issued what the vendor executes.
DrivenBy ==
  IF applied = HW!Apply(TeleopVelocity) THEN {"TELEOP"}
  ELSE IF applied = HW!Apply(AutonomyVelocity) THEN {"AUTONOMY"} ELSE {}

\* How long a mode change takes to reach the motors: three units, unless the
\* last command of the old mode has to age out in the hardware adapter, because
\* the arbiter may die or publishes no stops: then its first enabled report of
\* the new mode may overtake the command and open the gate on the old one.
HandoverBound ==
  IF ApprovedTimeout > 1 /\ ("arbiter" \in Crashable \/ ~PublishStopOnBlock)
  THEN ApprovedTimeout + 2 ELSE 3

\* So long after a mode change or a takeover the vendor no longer executes a
\* command of a source of another mode, although that source keeps sending.
ModeReachesMotors ==
  modeAge >= HandoverBound => DrivenBy \subseteq {activeMode}

\* What the vendor executes was issued by its source at most the arbiter's and
\* the adapter's timeouts ago, plus the unit until the adapter's next timer.
AppliedCommandFresh == appliedAge <= ArbiterTimeout + ApprovedTimeout + 1

\* README of the hardware adapter: output is stopped on a mode change.
StopsBetweenModes ==
  [][DrivenBy # {} /\ DrivenBy' # {} => DrivenBy' = DrivenBy]_vars
=============================================================================
