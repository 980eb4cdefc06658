------------------------ MODULE ModeHandover_proofs -----------------------
(***************************************************************************)
(* The two bounds of the handover, for every timeout, queue depth, number  *)
(* of timer runs in a unit and every set of modes that are asked for: how  *)
(* old a command the motors execute may be, whatever crashes, and how long *)
(* a change of mode takes to reach them.                                   *)
(***************************************************************************)
EXTENDS ModeHandover, Foundations_proofs

\* The components use the runtime's operators under their own names.
LEMMA SameRuntime ==
  /\ \A topic, msg : MM!Publish(topic, msg) = Publish(topic, msg)
  /\ \A topic, msg : Arb!Publish(topic, msg) = Publish(topic, msg)
  /\ \A age : Arb!Older(age) = Older(age)
  /\ \A age : HW!Older(age) = Older(age)
BY DEF MM!Publish, Arb!Publish, Publish, MM!Enqueue, Arb!Enqueue, Enqueue,
       Arb!Older, HW!Older, Older, Arb!Never, HW!Never, Never

(***************************************************************************)
(* The invariant of types.  The topic of approved commands is held to what *)
(* the arbiter lets onto it, since the adapter adds its own age to theirs. *)
(***************************************************************************)
Contract == [vel : Velocities, age : 0..ArbiterTimeout]

Typed ==
  /\ MM!NodeTypeOk /\ Arb!NodeTypeOk /\ HW!NodeTypeOk
  /\ mode \in Topics({"arbiter", "hardware"} \intersect up, MM!ModeMsgs)
  /\ approved \in Topics({"hardware"} \intersect up, Contract)
  /\ arbitration \in Topics({"hardware"} \intersect up, Arb!Reports)
  /\ up \subseteq Nodes
  /\ ticks \in [Nodes -> 0..TicksPerUnit]
  /\ approvedFrom \in 0..ArbiterTimeout
  /\ {modeAge, appliedAge} \subseteq Ages

\* The actions that leave a group of nodes alone.
Crashes == \E n \in Nodes : Crash(n) \/ Recover(n)

Sending == \/ SourceTick("teleop", "TELEOP", TeleopVelocity)
           \/ SourceTick("autonomy", "AUTONOMY", AutonomyVelocity)

Hearing == \E n \in Nodes : HearSafety(n)

LEMMA StepCases ==
  ASSUME Step
  PROVE  \/ ModeTick \/ ArbiterTick \/ HardwareTick \/ Sending \/ Request
         \/ ModeToArbiter \/ ModeToHardware \/ ApprovedToHardware \/ ReportToHardware
         \/ Hearing \/ Crashes
BY DEF Step, Sending, Hearing, Crashes

(***************************************************************************)
(* The nodes.                                                              *)
(***************************************************************************)
LEMMA ManagerTyped ==
  ASSUME Typed, Step
  PROVE  MM!NodeTypeOk'
<1>1. MM!NodeTypeOk
  BY DEF Typed
<1>2. CASE ModeTick
  BY <1>1, <1>2 DEF ModeTick, MM!Tick, MM!nodeVars, MM!NodeTypeOk
<1>3. CASE Request
  <2>1. CASE \E m \in Requested : MM!SetMode(m, "operator")
    BY <1>1, <2>1 DEF MM!SetMode, MM!ApplyMode, MM!NodeTypeOk
  <2>2. CASE MM!Takeover("operator")
    <3>1. "TELEOP" \in MM!ModeValues
      BY DEF MM!ModeValues, MM!Modes
    <3>2. QED
      BY <1>1, <2>2, <3>1 DEF MM!Takeover, MM!ApplyMode, MM!NodeTypeOk
  <2>3. QED
    BY <1>3, <2>1, <2>2 DEF Request
<1>4. CASE Hearing
  <2>1. "OK" \in MM!SafetyStates
    BY DEF MM!SafetyStates
  <2>2. QED
    BY <1>1, <1>4, <2>1 DEF Hearing, HearSafety, MM!OnSafetyState, MM!NodeTypeOk, mmVars, mmNode
<1>5. CASE Crashes
  <2>1. "UNKNOWN" \in MM!SafetyStates /\ InitialMode \in MM!ModeValues
    BY HandoverAssumption DEF MM!SafetyStates
  <2>2. QED
    BY <1>1, <1>5, <2>1 DEF Crashes, Crash, Recover, MM!Restart, MM!NodeTypeOk, mmNode
<1>6. CASE \/ ArbiterTick \/ HardwareTick \/ Sending
           \/ ModeToArbiter \/ ModeToHardware \/ ApprovedToHardware \/ ReportToHardware
  BY <1>1, <1>6 DEF ArbiterTick, HardwareTick, Sending, SourceTick, ModeToArbiter,
     ModeToHardware, ApprovedToHardware, ReportToHardware, MM!NodeTypeOk, mmVars, mmNode
<1>7. QED
  BY <1>2, <1>3, <1>4, <1>5, <1>6, StepCases

\* A mode that is delivered is one that the manager may be in.
LEMMA DeliveredMode ==
  ASSUME Typed, NEW n \in {"arbiter", "hardware"}, Awaits(mode, n)
  PROVE  Head(mode[n]).active \in Modes /\ n \in up
<1>1. mode \in Topics({"arbiter", "hardware"} \intersect up, MM!ModeMsgs)
  BY DEF Typed
<1>2. n \in {"arbiter", "hardware"} \intersect up /\ mode[n] # << >>
  BY <1>1 DEF Awaits, Topics
<1>3. Head(mode[n]) \in MM!ModeMsgs
  BY <1>1, <1>2, TakeType
<1>4. QED
  BY <1>2, <1>3 DEF MM!ModeMsgs, MM!ModeValues, MM!Modes, Modes

LEMMA ArbiterTyped ==
  ASSUME Typed, Step
  PROVE  Arb!NodeTypeOk'
<1> DEFINE Candidates == [vel : {TeleopVelocity, AutonomyVelocity} \union {Arb!Zero},
                          age : Arb!Ages]
<1>1. Arb!NodeTypeOk
  BY DEF Typed
<1>2. 0 \in Arb!Ages /\ Arb!Never \in Arb!Ages
  BY AgeCapAssumption DEF Arb!Ages
<1>3. {"OK", "UNKNOWN"} \subseteq Arb!SafetyStates
      /\ Arb!Modes = Modes /\ "INACTIVE" \in Arb!Modes
  BY DEF Arb!SafetyStates, Arb!Modes, Modes
<1>4. CASE ArbiterTick \/ Hearing
  BY <1>1, <1>3, <1>4 DEF ArbiterTick, Arb!Tick, Arb!nodeVars, Hearing, HearSafety,
     Arb!OnSafetyState, Arb!NodeTypeOk, arbVars, arbNode
<1>5. CASE ModeToArbiter
  BY <1>1, <1>3, <1>5, DeliveredMode DEF ModeToArbiter, Arb!OnModeState, Arb!NodeTypeOk
<1>6. CASE Sending
  <2>1. /\ [vel |-> TeleopVelocity, age |-> 0] \in Candidates
        /\ [vel |-> AutonomyVelocity, age |-> 0] \in Candidates
    BY <1>2
  <2>2. candidates' \in [Arb!Sources -> Candidates]
    BY <1>1, <1>6, <2>1 DEF Sending, SourceTick, Arb!OnCandidate, Arb!NodeTypeOk, arbVars, arbNode
  <2>3. UNCHANGED <<arbMode, arbSafety, arbSafetySeen>>
    BY <1>6 DEF Sending, SourceTick, Arb!OnCandidate, arbVars, arbNode
  <2>4. QED
    BY <1>1, <2>2, <2>3 DEF Arb!NodeTypeOk
<1>7. CASE Crashes
  <2>1. CASE UNCHANGED arbNode
    BY <1>1, <2>1 DEF Arb!NodeTypeOk, arbNode
  <2>2. CASE Arb!Restart
    <3>1. Arb!NoCandidate \in Candidates
      BY <1>2 DEF Arb!NoCandidate
    <3>2. QED
      BY <1>3, <2>2, <3>1 DEF Arb!Restart, Arb!NodeTypeOk
  <2>3. QED
    BY <1>7, <2>1, <2>2 DEF Crashes, Crash, Recover
<1>8. CASE \/ ModeTick \/ HardwareTick \/ Request
           \/ ModeToHardware \/ ApprovedToHardware \/ ReportToHardware
  BY <1>1, <1>8 DEF ModeTick, HardwareTick, Request, ModeToHardware, ApprovedToHardware,
     ReportToHardware, Arb!NodeTypeOk, arbVars, arbNode
<1>9. QED
  BY <1>4, <1>5, <1>6, <1>7, <1>8, StepCases

\* What the adapter is handed is a command within the contract.
LEMMA DeliveredCommand ==
  ASSUME Typed, Awaits(approved, "hardware")
  PROVE  Head(approved["hardware"]) \in Contract /\ "hardware" \in up
<1>1. approved \in Topics({"hardware"} \intersect up, Contract)
  BY DEF Typed
<1>2. "hardware" \in {"hardware"} \intersect up /\ approved["hardware"] # << >>
  BY <1>1 DEF Awaits, Topics
<1>3. QED
  BY <1>1, <1>2, TakeType

LEMMA DeliveredReport ==
  ASSUME Typed, Awaits(arbitration, "hardware")
  PROVE  /\ Head(arbitration["hardware"]) \in Arb!Reports
         /\ Take(arbitration, "hardware") \in Topics({"hardware"} \intersect up, Arb!Reports)
<1>1. arbitration \in Topics({"hardware"} \intersect up, Arb!Reports)
  BY DEF Typed
<1>2. "hardware" \in {"hardware"} \intersect up /\ arbitration["hardware"] # << >>
  BY <1>1 DEF Awaits, Topics
<1>3. QED
  BY <1>1, <1>2, TakeType

LEMMA HardwareTyped ==
  ASSUME Typed, Step
  PROVE  HW!NodeTypeOk'
<1>1. HW!NodeTypeOk
  BY DEF Typed
<1>2. /\ 0 \in HW!Ages /\ HW!Never \in HW!Ages /\ HW!Zero \in Velocities
      /\ {"OK", "UNKNOWN"} \subseteq HW!SafetyStates /\ "NONE" \in HW!MrmStates
      /\ HW!Modes = Modes /\ "INACTIVE" \in HW!Modes /\ HW!Halt \in HW!Outputs
  BY AgeCapAssumption DEF HW!Ages, HW!Zero, Velocities, HW!SafetyStates, HW!MrmStates,
     HW!Modes, Modes, HW!Halt, HW!Outputs
<1>3. CASE HardwareTick
  <2>1. lastApproved \in Velocities
    BY <1>1, <1>2 DEF HW!NodeTypeOk
  <2>2. HW!Apply(lastApproved) \in HW!Outputs
    BY <2>1 DEF HW!Apply, HW!Outputs, Velocities
  <2>3. QED
    BY <1>1, <1>2, <1>3, <2>2 DEF HardwareTick, HW!Tick, HW!NodeTypeOk
<1>4. CASE Hearing
  BY <1>1, <1>2, <1>4 DEF Hearing, HearSafety, HW!OnSafetyState, HW!NodeTypeOk, hwVars, hwNode
<1>5. CASE ModeToHardware
  BY <1>1, <1>2, <1>5, DeliveredMode DEF ModeToHardware, HW!OnModeState, HW!NodeTypeOk
<1>6. CASE ApprovedToHardware
  <2>1. Head(approved["hardware"]).vel \in Velocities
    BY <1>6, DeliveredCommand DEF ApprovedToHardware, Contract
  <2>2. QED
    BY <1>1, <1>2, <1>6, <2>1 DEF ApprovedToHardware, HW!OnApprovedCommand, HW!NodeTypeOk
<1>7. CASE ReportToHardware
  <2>1. Head(arbitration["hardware"]).enabled \in BOOLEAN
    BY <1>7, DeliveredReport DEF ReportToHardware, Arb!Reports
  <2>2. QED
    BY <1>1, <1>2, <1>7, <2>1 DEF ReportToHardware, HW!OnArbitrationState, HW!NodeTypeOk
<1>8. CASE Crashes
  BY <1>1, <1>2, <1>8 DEF Crashes, Crash, Recover, HW!Restart, HW!NodeTypeOk, hwVars, hwNode
<1>9. CASE ModeTick \/ ArbiterTick \/ Sending \/ Request \/ ModeToArbiter
  BY <1>1, <1>9 DEF ModeTick, ArbiterTick, Sending, SourceTick, Request, ModeToArbiter,
     HW!NodeTypeOk, hwVars, hwNode
<1>10. QED
  BY <1>3, <1>4, <1>5, <1>6, <1>7, <1>8, <1>9, StepCases

(***************************************************************************)
(* The topics.                                                             *)
(***************************************************************************)
\* A subscriber that dies takes its queue along, one that starts has an empty
\* one: the other topics of a node that is no subscriber stay as they are.
LEMMA TopicCrash ==
  ASSUME NEW Subs, NEW Msgs, NEW topic \in Topics(Subs \intersect up, Msgs), NEW n, Crash(n)
  PROVE  Leave(topic, n) \in Topics(Subs \intersect up', Msgs)
<1>1. (Subs \intersect up) \ {n} = Subs \intersect up'
  BY DEF Crash
<1>2. Leave(topic, n) \in Topics((Subs \intersect up) \ {n}, Msgs)
  BY LeaveType
<1>3. QED
  BY <1>1, <1>2

LEMMA TopicRecover ==
  ASSUME NEW Subs, NEW Msgs, NEW topic \in Topics(Subs \intersect up, Msgs), NEW n, Recover(n)
  PROVE  Subscribe(topic, Subs, n) \in Topics(Subs \intersect up', Msgs)
<1>1. /\ n \in Subs => (Subs \intersect up) \union {n} = Subs \intersect up'
      /\ n \notin Subs => Subs \intersect up = Subs \intersect up'
  BY DEF Recover
<1>2. Join(topic, n) \in Topics((Subs \intersect up) \union {n}, Msgs)
  BY JoinType
<1>3. Subscribe(topic, Subs, n) = IF n \in Subs THEN Join(topic, n) ELSE topic
  BY DEF Subscribe
<1>4. QED
  BY <1>1, <1>2, <1>3

\* Only a node's death and its start change who is up.
LEMMA SameUp ==
  ASSUME Step
  PROVE  Crashes \/ up' = up
BY StepCases DEF ModeTick, ArbiterTick, HardwareTick, Sending, SourceTick, CountTick, Request,
   ModeToArbiter, ModeToHardware, ApprovedToHardware, ReportToHardware, Hearing, HearSafety,
   schedule

\* A topic of modes goes on holding what it holds and what is published.
LEMMA ModeTopic ==
  ASSUME Step, NEW Msgs, mode \in Topics({"arbiter", "hardware"} \intersect up, Msgs),
         MM!ModeMsg' \in Msgs
  PROVE  mode' \in Topics({"arbiter", "hardware"} \intersect up', Msgs)
<1>1. CASE ModeTick \/ Request
  <2>1. up' = up
    BY <1>1 DEF ModeTick, CountTick, Request, schedule
  <2>2. mode' = Publish(mode, MM!ModeMsg') \/ mode' = mode
    BY <1>1, SameRuntime DEF ModeTick, MM!Tick, Request, MM!SetMode, MM!Takeover, MM!PublishState
  <2>3. QED
    BY <2>1, <2>2, PublishType
<1>2. ASSUME NEW n \in {"arbiter", "hardware"}, Awaits(mode, n), mode' = Take(mode, n), up' = up
      PROVE  mode' \in Topics({"arbiter", "hardware"} \intersect up', Msgs)
  <2>1. n \in {"arbiter", "hardware"} \intersect up /\ mode[n] # << >>
    BY <1>2 DEF Awaits, Topics
  <2>2. QED
    BY <1>2, <2>1, TakeType
<1>3. CASE ModeToArbiter \/ ModeToHardware
  BY <1>2, <1>3 DEF ModeToArbiter, ModeToHardware, schedule
<1>4. CASE Crashes
  <2>1. PICK n \in Nodes : Crash(n) \/ Recover(n)
    BY <1>4 DEF Crashes
  <2>2. CASE Crash(n)
    <3>1. mode' = Leave(mode, n)
      BY <2>2 DEF Crash
    <3>2. QED
      BY <2>2, <3>1, TopicCrash
  <2>3. CASE Recover(n)
    <3>1. mode' = Subscribe(mode, {"arbiter", "hardware"}, n)
      BY <2>3 DEF Recover
    <3>2. QED
      BY <2>3, <3>1, TopicRecover
  <2>4. QED
    BY <2>1, <2>2, <2>3
<1>5. CASE ArbiterTick \/ HardwareTick \/ Sending \/ ApprovedToHardware \/ ReportToHardware
           \/ Hearing
  <2>1. up' = up /\ mode' = mode
    BY <1>5 DEF ArbiterTick, HardwareTick, Sending, SourceTick, CountTick, ApprovedToHardware,
       ReportToHardware, Hearing, HearSafety, mmVars, schedule, MM!OnSafetyState, MM!topicVars
  <2>2. QED
    BY <2>1
<1>6. QED
  BY <1>1, <1>3, <1>4, <1>5, StepCases

LEMMA ModeTopicTyped ==
  ASSUME Typed, Step
  PROVE  mode' \in Topics({"arbiter", "hardware"} \intersect up', MM!ModeMsgs)
<1>1. MM!ModeMsg' \in MM!ModeMsgs
  BY ManagerTyped DEF MM!NodeTypeOk, MM!ModeMsg, MM!ModeMsgs
<1>2. QED
  BY <1>1, ModeTopic DEF Typed

\* The loop over the priorities finds an eligible source if there is one.
LEMMA SelectedIsEligible ==
  ASSUME \E s \in Arb!Sources : Arb!Eligible(s)
  PROVE  Arb!Selected \in Arb!Sources /\ Arb!Eligible(Arb!Selected)
<1> DEFINE Priority == Arb!SourcePriority
           First(i) == /\ Arb!Eligible(Priority[i])
                       /\ \A j \in 1..(i - 1) : ~Arb!Eligible(Priority[j])
<1>1. Priority[1] = "TELEOP" /\ Priority[2] = "AUTONOMY" /\ Priority[3] = "AI_POLICY"
  BY DEF Arb!SourcePriority
<1>2. \A i \in 1..3 : Priority[i] \in Arb!Sources
  BY <1>1 DEF Arb!Sources
<1>3. \E i \in 1..3 : First(i)
  <2>1. CASE Arb!Eligible("TELEOP")
    <3>1. First(1)
      BY <1>1, <2>1
    <3>2. QED
      BY <3>1
  <2>2. CASE ~Arb!Eligible("TELEOP") /\ Arb!Eligible("AUTONOMY")
    <3>1. First(2)
      BY <1>1, <2>2
    <3>2. QED
      BY <3>1
  <2>3. CASE /\ ~Arb!Eligible("TELEOP") /\ ~Arb!Eligible("AUTONOMY")
             /\ Arb!Eligible("AI_POLICY")
    <3>1. \A j \in 1..2 : j = 1 \/ j = 2
      OBVIOUS
    <3>2. First(3)
      BY <1>1, <2>3, <3>1
    <3>3. QED
      BY <3>2
  <2>4. QED
    BY <2>1, <2>2, <2>3 DEF Arb!Sources
<1>4. PICK i \in 1..3 : i = (CHOOSE k \in 1..3 : First(k)) /\ First(i)
  BY <1>3
<1>5. Arb!Selected = Priority[i]
  BY <1>4 DEF Arb!Selected
<1>6. QED
  BY <1>2, <1>4, <1>5

\* The command of a chosen candidate is the candidate's velocity within the
\* limits, and the candidate is one of the active mode within the timeout.
LEMMA ChosenCommand ==
  ASSUME Arb!NodeTypeOk, Arb!Reason = "approved"
  PROVE  /\ Arb!ApprovedCommand \in Contract
         /\ arbMode \in Arb!Sources
         /\ Arb!ApprovedCommand.vel = Arb!ClampVelocity(candidates[arbMode].vel)
         /\ Arb!Within(candidates[arbMode].age, ArbiterTimeout)
<1>1. Arb!Selected \in Arb!Sources /\ Arb!Eligible(Arb!Selected)
  BY SelectedIsEligible DEF Arb!Reason
<1>2. Arb!Selected = arbMode /\ Arb!Within(candidates[arbMode].age, ArbiterTimeout)
  BY <1>1 DEF Arb!Eligible, Arb!RequiredMode
<1> DEFINE chosen == candidates[arbMode]
<1>3. chosen \in [vel : {TeleopVelocity, AutonomyVelocity} \union {Arb!Zero}, age : Arb!Ages]
  BY <1>1, <1>2 DEF Arb!NodeTypeOk
<1>4. chosen.age \in 0..ArbiterTimeout
  BY <1>2, <1>3, HandoverAssumption, AgeCapAssumption DEF Arb!Within, Arb!Ages, Arb!Never
<1>5. chosen.vel \in Velocities
  <2>1. Arb!Zero \in Velocities
    BY DEF Arb!Zero, Velocities
  <2>2. QED
    BY <1>3, <2>1, HandoverAssumption
<1>6. Arb!ApprovedCommand = [vel |-> Arb!ClampVelocity(chosen.vel), age |-> chosen.age]
  BY <1>2 DEF Arb!ApprovedCommand
<1> HIDE DEF chosen
<1>7. chosen.vel.lin \in Int /\ chosen.vel.ang \in Int
  BY <1>5 DEF Velocities
<1>8. Arb!ClampVelocity(chosen.vel) \in Velocities
  BY <1>7, HandoverAssumption DEF Arb!ClampVelocity, Arb!Clamp, Velocities
<1>9. Arb!ApprovedCommand \in Contract
  BY <1>4, <1>6, <1>8 DEF Contract
<1>10. QED
  BY <1>1, <1>2, <1>6, <1>9 DEF chosen

LEMMA StopInContract == Arb!Stop \in Contract /\ Arb!Stop.vel = Zero
<1>1. Arb!Zero \in Velocities /\ Arb!Zero = Zero
  BY DEF Arb!Zero, Velocities, Zero
<1>2. QED
  BY <1>1, HandoverAssumption DEF Arb!Stop, Contract

LEMMA ReportTyped ==
  ASSUME Arb!NodeTypeOk
  PROVE  Arb!Report \in Arb!Reports
<1>1. Arb!Reason \in Arb!Reasons
  BY DEF Arb!Reason, Arb!Reasons, Arb!StopReasons
<1>2. Arb!ShouldPublishStop(Arb!Reason) \in BOOLEAN
  BY HandoverAssumption DEF Arb!ShouldPublishStop
<1>3. Arb!Reason = "approved" => Arb!Selected \in Arb!Sources
  BY SelectedIsEligible DEF Arb!Reason
<1>4. QED
  BY <1>1, <1>2, <1>3 DEF Arb!Report, Arb!Reports

\* A topic of commands goes on holding what it holds and what is published,
\* which is the chosen command or a stop.
LEMMA ApprovedTopic ==
  ASSUME Step, NEW Msgs, approved \in Topics({"hardware"} \intersect up, Msgs),
         Arb!Reason = "approved" => Arb!ApprovedCommand \in Msgs,
         Arb!ShouldPublishStop(Arb!Reason) => Arb!Stop \in Msgs
  PROVE  approved' \in Topics({"hardware"} \intersect up', Msgs)
<1>1. CASE ArbiterTick
  <2>1. up' = up
    BY <1>1 DEF ArbiterTick, CountTick
  <2>2. \/ Arb!Reason = "approved" /\ approved' = Publish(approved, Arb!ApprovedCommand)
        \/ Arb!ShouldPublishStop(Arb!Reason) /\ approved' = Publish(approved, Arb!Stop)
        \/ approved' = approved
    BY <1>1, SameRuntime DEF ArbiterTick, Arb!Tick
  <2>3. QED
    BY <2>1, <2>2, PublishType
<1>2. CASE ApprovedToHardware
  <2>1. up' = up /\ approved' = Take(approved, "hardware")
    BY <1>2 DEF ApprovedToHardware, schedule
  <2>2. "hardware" \in {"hardware"} \intersect up /\ approved["hardware"] # << >>
    BY <1>2 DEF ApprovedToHardware, Awaits, Topics
  <2>3. QED
    BY <2>1, <2>2, TakeType
<1>3. CASE Crashes
  <2>1. PICK n \in Nodes : Crash(n) \/ Recover(n)
    BY <1>3 DEF Crashes
  <2>2. CASE Crash(n)
    <3>1. approved' = Leave(approved, n)
      BY <2>2 DEF Crash
    <3>2. QED
      BY <2>2, <3>1, TopicCrash
  <2>3. CASE Recover(n)
    <3>1. approved' = Subscribe(approved, {"hardware"}, n)
      BY <2>3 DEF Recover
    <3>2. QED
      BY <2>3, <3>1, TopicRecover
  <2>4. QED
    BY <2>1, <2>2, <2>3
<1>4. CASE ModeTick \/ HardwareTick \/ Sending \/ Request \/ ModeToArbiter \/ ModeToHardware
           \/ ReportToHardware \/ Hearing
  <2>1. up' = up /\ approved' = approved
    BY <1>4 DEF ModeTick, HardwareTick, Sending, SourceTick, CountTick, Request, ModeToArbiter,
       ModeToHardware, ReportToHardware, Hearing, HearSafety, arbVars, schedule,
       Arb!OnCandidate, Arb!OnModeState, Arb!OnSafetyState, Arb!topicVars
  <2>2. QED
    BY <2>1
<1>5. QED
  BY <1>1, <1>2, <1>3, <1>4, StepCases

LEMMA CommandTopicTyped ==
  ASSUME Typed, Step
  PROVE  approved' \in Topics({"hardware"} \intersect up', Contract)
<1>1. Arb!Reason = "approved" => Arb!ApprovedCommand \in Contract
  BY ChosenCommand DEF Typed
<1>2. QED
  BY <1>1, ApprovedTopic, StopInContract DEF Typed

LEMMA ReportTopicTyped ==
  ASSUME Typed, Step
  PROVE  arbitration' \in Topics({"hardware"} \intersect up', Arb!Reports)
<1>1. /\ arbitration \in Topics({"hardware"} \intersect up, Arb!Reports)
      /\ Arb!NodeTypeOk
  BY DEF Typed
<1>2. CASE ArbiterTick
  <2>1. up' = up /\ arbitration' = Publish(arbitration, Arb!Report)
    BY <1>2, SameRuntime DEF ArbiterTick, CountTick, Arb!Tick
  <2>2. QED
    BY <1>1, <2>1, PublishType, ReportTyped
<1>3. CASE ReportToHardware
  <2>1. up' = up /\ arbitration' = Take(arbitration, "hardware")
    BY <1>3 DEF ReportToHardware, schedule
  <2>2. QED
    BY <1>1, <1>3, <2>1, DeliveredReport DEF ReportToHardware
<1>4. CASE Crashes
  <2>1. PICK n \in Nodes : Crash(n) \/ Recover(n)
    BY <1>4 DEF Crashes
  <2>2. CASE Crash(n)
    <3>1. arbitration' = Leave(arbitration, n)
      BY <2>2 DEF Crash
    <3>2. QED
      BY <1>1, <2>2, <3>1, TopicCrash
  <2>3. CASE Recover(n)
    <3>1. arbitration' = Subscribe(arbitration, {"hardware"}, n)
      BY <2>3 DEF Recover
    <3>2. QED
      BY <1>1, <2>3, <3>1, TopicRecover
  <2>4. QED
    BY <2>1, <2>2, <2>3
<1>5. CASE ModeTick \/ HardwareTick \/ Sending \/ Request \/ ModeToArbiter \/ ModeToHardware
           \/ ApprovedToHardware \/ Hearing
  <2>1. up' = up /\ arbitration' = arbitration
    BY <1>5 DEF ModeTick, HardwareTick, Sending, SourceTick, CountTick, Request, ModeToArbiter,
       ModeToHardware, ApprovedToHardware, Hearing, HearSafety, arbVars, schedule,
       Arb!OnCandidate, Arb!OnModeState, Arb!OnSafetyState, Arb!topicVars
  <2>2. QED
    BY <1>1, <2>1
<1>6. QED
  BY <1>2, <1>3, <1>4, <1>5, StepCases

LEMMA ScheduleTyped ==
  ASSUME Typed, Step
  PROVE  up' \subseteq Nodes /\ ticks' \in [Nodes -> 0..TicksPerUnit]
<1>1. up \subseteq Nodes /\ ticks \in [Nodes -> 0..TicksPerUnit]
  BY DEF Typed
<1>2. \A n \in Nodes : CountTick(n) => up' = up /\ ticks' \in [Nodes -> 0..TicksPerUnit]
  BY <1>1, HandoverAssumption DEF CountTick
<1>3. CASE ModeTick \/ ArbiterTick \/ HardwareTick \/ Sending
  BY <1>1, <1>2, <1>3 DEF ModeTick, ArbiterTick, HardwareTick, Sending, SourceTick, Nodes
<1>4. CASE Request \/ ModeToArbiter \/ ModeToHardware \/ ApprovedToHardware
           \/ ReportToHardware \/ Hearing
  BY <1>1, <1>4 DEF Request, ModeToArbiter, ModeToHardware, ApprovedToHardware,
     ReportToHardware, Hearing, HearSafety, schedule
<1>5. CASE Crashes
  BY <1>1, <1>5 DEF Crashes, Crash, Recover
<1>6. QED
  BY <1>3, <1>4, <1>5, StepCases

(***************************************************************************)
(* The age of what the motors execute.  The adapter passes on a command no *)
(* older than both timeouts together and executes it until its next timer: *)
(* once it has run in a unit, and while it is down, one unit remains.      *)
(***************************************************************************)
Fresh ==
  /\ AppliedCommandFresh
  /\ ticks["hardware"] > 0 => appliedAge <= ArbiterTimeout + ApprovedTimeout
  /\ "hardware" \notin up => appliedAge = Never

LEMMA StepFresh ==
  ASSUME Typed, Fresh, Step
  PROVE  Fresh' /\ appliedAge' \in Ages /\ approvedFrom' \in 0..ArbiterTimeout
<1>1. /\ ticks \in [Nodes -> 0..TicksPerUnit] /\ "hardware" \in Nodes
      /\ appliedAge \in Ages /\ approvedFrom \in 0..ArbiterTimeout
      /\ HW!NodeTypeOk
  BY DEF Typed, Nodes
<1>2. CASE HardwareTick
  <2>1. /\ "hardware" \in up /\ up' = up
        /\ appliedAge' = IF HW!ReleaseOutput THEN approvedFrom + approvedAge ELSE Never
        /\ approvedFrom' = approvedFrom
    BY <1>2 DEF HardwareTick, CountTick
  <2>2. HW!ReleaseOutput => approvedAge \in 0..ApprovedTimeout
    <3>1. HW!ReleaseOutput => approvedAge # HW!Never /\ ~HW!Expired(approvedAge, ApprovedTimeout)
      BY DEF HW!ReleaseOutput, HW!GateReason
    <3>2. QED
      BY <1>1, <3>1, HandoverAssumption, AgeCapAssumption
         DEF HW!NodeTypeOk, HW!Expired, HW!Ages, HW!Never
  <2>3. appliedAge' \in Ages /\ appliedAge' <= ArbiterTimeout + ApprovedTimeout
    BY <1>1, <2>1, <2>2, HandoverAssumption, AgeCapAssumption DEF Ages, Never
  <2>4. QED
    BY <1>1, <2>1, <2>3, HandoverAssumption, AgeCapAssumption DEF Fresh, AppliedCommandFresh, Ages, Never
<1>3. CASE ApprovedToHardware
  <2>1. approvedFrom' = Head(approved["hardware"]).age /\ UNCHANGED <<appliedAge, schedule>>
    BY <1>3 DEF ApprovedToHardware
  <2>2. Head(approved["hardware"]).age \in 0..ArbiterTimeout
    BY <1>3, DeliveredCommand DEF ApprovedToHardware, Contract
  <2>3. QED
    BY <1>1, <2>1, <2>2 DEF Fresh, AppliedCommandFresh, schedule
<1>4. CASE Crashes
  <2>1. PICK n \in Nodes : Crash(n) \/ Recover(n)
    BY <1>4 DEF Crashes
  <2>2. CASE Crash(n) /\ n = "hardware"
    <3>1. appliedAge' = Never /\ approvedFrom' = 0
      BY <2>2 DEF Crash
    <3>2. QED
      BY <3>1, HandoverAssumption, AgeCapAssumption DEF Fresh, AppliedCommandFresh, Ages, Never
  <2>3. CASE Crash(n) /\ n # "hardware"
    <3>1. UNCHANGED <<appliedAge, approvedFrom, ticks>> /\ up' = up \ {n}
      BY <2>3 DEF Crash, commandObservers
    <3>2. QED
      BY <1>1, <2>3, <3>1 DEF Fresh, AppliedCommandFresh
  <2>4. CASE Recover(n)
    <3>1. UNCHANGED <<appliedAge, approvedFrom, ticks>> /\ up' = up \union {n}
      BY <2>4 DEF Recover, commandObservers
    <3>2. QED
      BY <1>1, <3>1 DEF Fresh, AppliedCommandFresh
  <2>5. QED
    BY <2>1, <2>2, <2>3, <2>4
<1>5. CASE ModeTick \/ ArbiterTick \/ Sending
  <2>1. UNCHANGED <<appliedAge, approvedFrom, up>>
    BY <1>5 DEF ModeTick, ArbiterTick, Sending, SourceTick, CountTick, commandObservers
  <2>2. ticks'["hardware"] = ticks["hardware"]
    BY <1>1, <1>5, HandoverAssumption DEF ModeTick, ArbiterTick, Sending, SourceTick, CountTick
  <2>3. QED
    BY <1>1, <2>1, <2>2 DEF Fresh, AppliedCommandFresh
<1>6. CASE Request \/ ModeToArbiter \/ ModeToHardware \/ ReportToHardware \/ Hearing
  <2>1. UNCHANGED <<appliedAge, approvedFrom, up, ticks>>
    BY <1>6 DEF Request, ModeToArbiter, ModeToHardware, ReportToHardware, Hearing, HearSafety,
       commandObservers, schedule
  <2>2. QED
    BY <1>1, <2>1 DEF Fresh, AppliedCommandFresh
<1>7. QED
  BY <1>2, <1>3, <1>4, <1>5, <1>6, StepCases

\* A unit passes only when the adapter has run, unless it is down.
LEMMA AdvanceFresh ==
  ASSUME Typed, Fresh, Advance
  PROVE  Fresh' /\ appliedAge' \in Ages
<1>1. appliedAge \in Ages /\ "hardware" \in Nodes /\ ticks \in [Nodes -> 0..TicksPerUnit]
  BY DEF Typed, Nodes
<1>2. /\ appliedAge' = Older(appliedAge) /\ up' = up /\ ticks' = [n \in Nodes |-> 0]
      /\ "hardware" \in up => ticks["hardware"] > 0
  BY DEF Advance
<1>3. appliedAge <= ArbiterTimeout + ApprovedTimeout
  BY <1>2, HandoverAssumption DEF Fresh, Never
<1>4. /\ appliedAge' \in Ages /\ appliedAge' <= appliedAge + 1
      /\ appliedAge' = Never <=> appliedAge = Never
  BY <1>1, <1>2, OlderType
<1>5. AppliedCommandFresh'
  BY <1>1, <1>3, <1>4, HandoverAssumption, AgeCapAssumption DEF AppliedCommandFresh, Ages, Never
<1>6. ticks'["hardware"] = 0
  BY <1>1, <1>2
<1>7. QED
  BY <1>2, <1>4, <1>5, <1>6 DEF Fresh

\* Time leaves the nodes and what is left of the topics well-typed.
LEMMA AdvanceTyped ==
  ASSUME Typed, Fresh, Advance
  PROVE  Typed'
<1>1. /\ MM!NodeTypeOk /\ Arb!NodeTypeOk /\ HW!NodeTypeOk /\ modeAge \in Ages
  BY DEF Typed
<1>2. MM!NodeTypeOk'
  BY <1>1 DEF Advance, MM!NodeTypeOk, mmVars, mmNode
<1>3. Arb!NodeTypeOk'
  <2> DEFINE Candidates == [vel : {TeleopVelocity, AutonomyVelocity} \union {Arb!Zero},
                            age : Arb!Ages]
  <2>1. \A age \in Arb!Ages : Arb!Older(age) \in Arb!Ages
    BY SameRuntime, OlderType DEF Arb!Ages, Ages, Arb!Never, Never
  <2>2. candidates' \in [Arb!Sources -> Candidates]
    BY <1>1, <2>1 DEF Advance, Arb!Age, Arb!NodeTypeOk
  <2>3. QED
    BY <1>1, <2>2 DEF Advance, Arb!Age, Arb!NodeTypeOk
<1>4. HW!NodeTypeOk'
  <2>1. \A age \in HW!Ages : HW!Older(age) \in HW!Ages
    BY SameRuntime, OlderType DEF HW!Ages, Ages, HW!Never, Never
  <2>2. QED
    BY <1>1, <2>1 DEF Advance, HW!Age, HW!NodeTypeOk
<1>5. UNCHANGED <<mode, approved, arbitration, up, approvedFrom>>
  BY DEF Advance, mmVars
<1>6. ticks' \in [Nodes -> 0..TicksPerUnit]
  BY HandoverAssumption DEF Advance
<1>7. modeAge' \in Ages
  BY <1>1, OlderType DEF Advance
<1>8. QED
  BY <1>2, <1>3, <1>4, <1>5, <1>6, <1>7, AdvanceFresh DEF Typed

LEMMA StepTyped ==
  ASSUME Typed, Fresh, Step, Observe
  PROVE  Typed'
<1>1. modeAge' \in Ages
  BY AgeCapAssumption DEF Typed, Observe, Ages, Never
<1>2. QED
  BY <1>1, ManagerTyped, ArbiterTyped, HardwareTyped, ModeTopicTyped, CommandTopicTyped,
     ReportTopicTyped, ScheduleTyped, StepFresh DEF Typed

LEMMA InitTyped == Init => Typed /\ Fresh
<1> SUFFICES ASSUME Init PROVE Typed /\ Fresh
  OBVIOUS
<1>1. MM!NodeTypeOk
  BY HandoverAssumption DEF Init, MM!NodeInit, MM!NodeTypeOk, MM!SafetyStates
<1>2. Arb!NodeTypeOk
  <2>1. Arb!NoCandidate \in [vel : {TeleopVelocity, AutonomyVelocity} \union {Arb!Zero},
                             age : Arb!Ages]
    BY DEF Arb!NoCandidate, Arb!Ages
  <2>2. QED
    BY <2>1 DEF Init, Arb!NodeInit, Arb!NodeTypeOk, Arb!Modes, Arb!SafetyStates
<1>3. HW!NodeTypeOk
  <2>1. HW!Halt \in HW!Outputs /\ HW!Never \in HW!Ages
    BY DEF HW!Halt, HW!Outputs, HW!Ages
  <2>2. QED
    BY <2>1 DEF Init, HW!NodeInit, HW!NodeTypeOk, HW!Modes, HW!SafetyStates, HW!MrmStates
<1>4. {"arbiter", "hardware"} \intersect up = {"arbiter", "hardware"}
      /\ {"hardware"} \intersect up = {"hardware"}
  BY DEF Init, Nodes
<1>5. /\ mode \in Topics({"arbiter", "hardware"} \intersect up, MM!ModeMsgs)
      /\ approved \in Topics({"hardware"} \intersect up, Contract)
      /\ arbitration \in Topics({"hardware"} \intersect up, Arb!Reports)
  BY <1>4, SilentType DEF Init
<1>6. /\ up \subseteq Nodes /\ ticks \in [Nodes -> 0..TicksPerUnit]
      /\ approvedFrom \in 0..ArbiterTimeout /\ {modeAge, appliedAge} \subseteq Ages
  BY HandoverAssumption, AgeCapAssumption DEF Init, Ages
<1>7. Fresh
  BY HandoverAssumption DEF Init, Fresh, AppliedCommandFresh, Never, Nodes
<1>8. QED
  BY <1>1, <1>2, <1>3, <1>5, <1>6, <1>7 DEF Typed

LEMMA NextTyped == Typed /\ Fresh /\ [Next]_vars => Typed' /\ Fresh'
<1> SUFFICES ASSUME Typed, Fresh, [Next]_vars PROVE Typed' /\ Fresh'
  OBVIOUS
<1>1. CASE Step /\ Observe
  BY <1>1, StepTyped, StepFresh
<1>2. CASE Advance
  BY <1>2, AdvanceTyped, AdvanceFresh
<1>3. CASE UNCHANGED vars
  BY <1>3 DEF vars, mmVars, mmNode, arbVars, arbNode, hwVars, hwNode, schedule, commandObservers,
     Typed, Fresh, AppliedCommandFresh, MM!NodeTypeOk, Arb!NodeTypeOk, HW!NodeTypeOk
<1>4. QED
  BY <1>1, <1>2, <1>3 DEF Next

LEMMA AlwaysTyped == Spec => [](Typed /\ Fresh)
BY InitTyped, NextTyped, PTL DEF Spec

\* A command within the contract is a command.
LEMMA ContractTopic ==
  ASSUME NEW Subs, NEW topic \in Topics(Subs, Contract)
  PROVE  topic \in Topics(Subs, Arb!Commands)
<1>1. Contract \subseteq Arb!Commands
  BY HandoverAssumption, AgeCapAssumption
     DEF Contract, Arb!Commands, Arb!Ages, Arb!Velocities, Velocities
<1>2. Seq(Contract) \subseteq Seq(Arb!Commands)
  BY <1>1
<1>3. QED
  BY <1>2 DEF Topics

\* Nodes, topics, schedule and observers keep their types, whatever crashes.
THEOREM HandoverTyped == Spec => []TypeOk
<1>1. Typed => TypeOk
  <2> SUFFICES ASSUME Typed PROVE TypeOk
    OBVIOUS
  <2>1. approved \in Topics({"hardware"} \intersect up, Arb!Commands)
    BY ContractTopic DEF Typed
  <2>2. approvedFrom \in Ages
    BY HandoverAssumption, AgeCapAssumption DEF Typed, Ages
  <2>3. QED
    BY <2>1, <2>2 DEF Typed, TypeOk
<1>2. QED
  BY <1>1, AlwaysTyped, PTL

\* The motors never execute a command older than the two timeouts and the unit
\* until the adapter's next timer run, whatever crashes and however modes change.
THEOREM CommandsStayFresh == Spec => []AppliedCommandFresh
<1>1. Fresh => AppliedCommandFresh
  BY DEF Fresh
<1>2. QED
  BY <1>1, AlwaysTyped, PTL

(***************************************************************************)
(* How long a mode change takes to reach the motors, when the mode manager *)
(* does not die.  modeAge is the clock of the current mode.                *)
(***************************************************************************)
ManagerLives == "mode_manager" \in up /\ modeAge \in 0..AgeCap

\* A change of mode restarts the clock, and nothing else touches it but time.
LEMMA ModeClock ==
  ASSUME Typed, "mode_manager" \notin Crashable, ManagerLives, Step, Observe
  PROVE  /\ ManagerLives'
         /\ modeAge' # 0 => modeAge' = modeAge /\ activeMode' = activeMode
         /\ activeMode' = activeMode => modeAge' = modeAge
<1>1. "mode_manager" \in up'
  BY SameUp DEF ManagerLives, Crashes, Crash, Recover
<1>2. modeAge # Never
  BY DEF ManagerLives, Never
<1>3. QED
  BY <1>1, <1>2, AgeCapAssumption DEF ManagerLives, Observe

\* Only a request changes the mode.
LEMMA ModeStays ==
  ASSUME Typed, "mode_manager" \notin Crashable, Step
  PROVE  Request \/ UNCHANGED <<requestedMode, activeMode, owner>>
<1>1. CASE Crashes
  BY <1>1 DEF Crashes, Crash, Recover, mmNode
<1>2. CASE \/ ModeTick \/ ArbiterTick \/ HardwareTick \/ Sending \/ ModeToArbiter
           \/ ModeToHardware \/ ApprovedToHardware \/ ReportToHardware \/ Hearing
  BY <1>2 DEF ModeTick, MM!Tick, MM!nodeVars, ArbiterTick, HardwareTick, Sending, SourceTick,
     ModeToArbiter, ModeToHardware, ApprovedToHardware, ReportToHardware, Hearing, HearSafety,
     MM!OnSafetyState, mmVars, mmNode
<1>3. QED
  BY <1>1, <1>2, StepCases

(***************************************************************************)
(* Every source offers its own velocity only.                              *)
(***************************************************************************)
Offers(source) ==
  CASE source = "TELEOP" -> {Zero, TeleopVelocity}
    [] source = "AUTONOMY" -> {Zero, AutonomyVelocity}
    [] OTHER -> {Zero}

Owned == \A source \in Arb!Sources : candidates[source].vel \in Offers(source)

\* The mode is one in which a source may ask for the velocity.
Meant(vel) == /\ vel = TeleopVelocity => activeMode = "TELEOP"
              /\ vel = AutonomyVelocity => activeMode = "AUTONOMY"

\* What is approved is meant when the arbiter knows the mode.
LEMMA ApprovedIsMeant ==
  ASSUME Typed, Owned, arbMode \in {activeMode, "INACTIVE"}, Arb!Reason = "approved"
  PROVE  Meant(Arb!ApprovedCommand.vel)
<1>1. /\ arbMode \in Arb!Sources
      /\ Arb!ApprovedCommand.vel = Arb!ClampVelocity(candidates[arbMode].vel)
  BY ChosenCommand DEF Typed
<1>2. arbMode = activeMode
  BY <1>1 DEF Arb!Sources
<1>3. Arb!ClampVelocity(Zero) = Zero
  BY HandoverAssumption DEF Arb!ClampVelocity, Arb!Clamp, Zero
<1>4. candidates[arbMode].vel \in Offers(arbMode)
  BY <1>1 DEF Owned
<1>5. Arb!ApprovedCommand.vel = candidates[arbMode].vel
  BY <1>1, <1>3, <1>4, TellApart DEF Offers, Arb!Sources
<1>6. QED
  BY <1>1, <1>2, <1>4, <1>5, TellApart DEF Offers, Arb!Sources, Meant

LEMMA StepOwned ==
  ASSUME Typed, Owned, Step
  PROVE  Owned'
<1>1. CASE Sending
  <2>1. \/ UNCHANGED candidates
        \/ candidates' = [candidates EXCEPT !["TELEOP"] = [vel |-> TeleopVelocity, age |-> 0]]
        \/ candidates' = [candidates EXCEPT !["AUTONOMY"] = [vel |-> AutonomyVelocity, age |-> 0]]
    BY <1>1 DEF Sending, SourceTick, Arb!OnCandidate, arbVars, arbNode
  <2>2. DOMAIN candidates = Arb!Sources
    BY DEF Typed, Arb!NodeTypeOk
  <2>3. QED
    BY <2>1, <2>2 DEF Owned, Offers, Arb!Sources
<1>2. CASE Crashes
  <2>1. UNCHANGED candidates \/ candidates' = [source \in Arb!Sources |-> Arb!NoCandidate]
    BY <1>2 DEF Crashes, Crash, Recover, Arb!Restart, arbNode
  <2>2. Arb!NoCandidate.vel = Zero
    BY DEF Arb!NoCandidate, Arb!Zero, Zero
  <2>3. QED
    BY <2>1, <2>2 DEF Owned, Offers
<1>3. CASE \/ ModeTick \/ ArbiterTick \/ HardwareTick \/ Request \/ ModeToArbiter
           \/ ModeToHardware \/ ApprovedToHardware \/ ReportToHardware \/ Hearing
  <2>1. UNCHANGED candidates
    BY <1>3 DEF ModeTick, ArbiterTick, Arb!Tick, Arb!nodeVars, HardwareTick, Request,
       ModeToArbiter, Arb!OnModeState, ModeToHardware, ApprovedToHardware, ReportToHardware,
       Hearing, HearSafety, Arb!OnSafetyState, arbVars, arbNode
  <2>2. QED
    BY <2>1 DEF Owned
<1>4. QED
  BY <1>1, <1>2, <1>3, StepCases

(***************************************************************************)
(* What the arbiter has heard: the newest mode in its queue is the active  *)
(* one, and with an empty queue it acts on that mode or, after a start, on *)
(* none at all.                                                            *)
(***************************************************************************)
Waiting == "arbiter" \in up /\ mode["arbiter"] # << >>

Heard ==
  /\ Waiting => Latest(mode["arbiter"]).active = activeMode
  /\ ~Waiting => arbMode \in {activeMode, "INACTIVE"}
  /\ "arbiter" \notin up => arbMode = "INACTIVE"

\* The newest sample stays the newest until it is taken itself.
LEMMA LatestIsLast ==
  ASSUME NEW S, NEW queue \in Seq(S), queue # << >>
  PROVE  /\ Tail(queue) = << >> => Head(queue) = Latest(queue)
         /\ Tail(queue) # << >> => Latest(Tail(queue)) = Latest(queue)
<1>1. /\ Len(queue) \in Nat \ {0} /\ Tail(queue) \in Seq(S)
      /\ Len(Tail(queue)) = Len(queue) - 1 /\ Head(queue) = queue[1]
      /\ \A i \in 1..(Len(queue) - 1) : Tail(queue)[i] = queue[i + 1]
  OBVIOUS
<1>2. Tail(queue) = << >> => Len(queue) = 1
  BY <1>1
<1>3. Tail(queue) # << >> => Len(queue) > 1
  <2>1. ASSUME NEW rest \in Seq(S), Len(rest) = 0 PROVE rest = << >>
    BY <2>1
  <2>2. QED
    BY <1>1, <2>1
<1>4. Len(queue) > 1 => Tail(queue)[Len(queue) - 1] = queue[Len(queue)]
  BY <1>1
<1>5. QED
  BY <1>1, <1>2, <1>3, <1>4 DEF Latest

LEMMA StepHeard ==
  ASSUME Typed, "mode_manager" \notin Crashable, Heard, Step
  PROVE  Heard'
<1>1. mode \in Topics({"arbiter", "hardware"} \intersect up, MM!ModeMsgs)
  BY DEF Typed
<1>2. CASE ModeTick \/ Request
  <2>1. UNCHANGED <<up, arbMode>>
    BY <1>2 DEF ModeTick, CountTick, Request, schedule, arbVars, arbNode
  <2>2. CASE UNCHANGED <<mode, activeMode>>
    BY <2>1, <2>2 DEF Heard, Waiting
  <2>3. CASE mode' = Publish(mode, MM!ModeMsg')
    <3>1. MM!ModeMsg' \in MM!ModeMsgs /\ MM!ModeMsg'.active = activeMode'
      BY ManagerTyped DEF MM!NodeTypeOk, MM!ModeMsg, MM!ModeMsgs
    <3>2. "arbiter" \in up => mode'["arbiter"] # << >>
                              /\ Latest(mode'["arbiter"]) = MM!ModeMsg'
      BY <1>1, <2>3, <3>1, PublishType
    <3>3. QED
      BY <2>1, <3>1, <3>2 DEF Heard, Waiting
  <2>4. QED
    BY <1>2, <2>2, <2>3, SameRuntime
       DEF ModeTick, MM!Tick, MM!nodeVars, Request, MM!SetMode, MM!Takeover, MM!PublishState
<1>3. CASE ModeToArbiter
  <2>1. /\ Awaits(mode, "arbiter") /\ arbMode' = Head(mode["arbiter"]).active
        /\ mode' = Take(mode, "arbiter") /\ UNCHANGED <<up, activeMode>>
    BY <1>3 DEF ModeToArbiter, Arb!OnModeState, mmNode, schedule
  <2>2. "arbiter" \in up /\ mode["arbiter"] \in Seq(MM!ModeMsgs) /\ mode["arbiter"] # << >>
        /\ mode'["arbiter"] = Tail(mode["arbiter"])
    BY <1>1, <2>1 DEF Awaits, Topics, Take
  <2>3. Latest(mode["arbiter"]).active = activeMode
    BY <2>2 DEF Heard, Waiting
  <2>4. /\ Tail(mode["arbiter"]) = << >> => Head(mode["arbiter"]) = Latest(mode["arbiter"])
        /\ Tail(mode["arbiter"]) # << >> =>
             Latest(Tail(mode["arbiter"])) = Latest(mode["arbiter"])
    BY <2>2, LatestIsLast
  <2>5. QED
    BY <2>1, <2>2, <2>3, <2>4 DEF Heard, Waiting
<1>4. CASE ModeToHardware
  <2>1. /\ Awaits(mode, "hardware") /\ mode' = Take(mode, "hardware")
        /\ UNCHANGED <<up, activeMode, arbMode>>
    BY <1>4 DEF ModeToHardware, mmNode, arbVars, arbNode, schedule
  <2>2. mode'["arbiter"] = mode["arbiter"]
    BY <1>1, <2>1 DEF Topics, Take
  <2>3. QED
    BY <2>1, <2>2 DEF Heard, Waiting
<1>5. CASE Crashes
  <2>1. PICK n \in Nodes : Crash(n) \/ Recover(n)
    BY <1>5 DEF Crashes
  <2>2. activeMode' = activeMode
    BY <2>1 DEF Crash, Recover, mmNode
  <2>3. CASE Crash(n) /\ n = "arbiter"
    <3>1. "arbiter" \notin up' /\ arbMode' = "INACTIVE"
      BY <2>3 DEF Crash, Arb!Restart
    <3>2. QED
      BY <3>1 DEF Heard, Waiting
  <2>4. CASE Crash(n) /\ n # "arbiter"
    <3>1. ("arbiter" \in up' <=> "arbiter" \in up) /\ arbMode' = arbMode
      BY <2>4 DEF Crash, arbNode
    <3>2. "arbiter" \in up => mode'["arbiter"] = mode["arbiter"]
      BY <1>1, <2>4 DEF Crash, Leave, Topics
    <3>3. QED
      BY <2>2, <3>1, <3>2 DEF Heard, Waiting
  <2>5. CASE Recover(n) /\ n = "arbiter"
    <3>1. "arbiter" \notin up /\ mode' = Join(mode, "arbiter") /\ arbMode' = arbMode
      BY <2>5 DEF Recover, Subscribe, arbNode
    <3>2. mode'["arbiter"] = << >>
      BY <3>1 DEF Join
    <3>3. QED
      BY <3>1, <3>2 DEF Heard, Waiting
  <2>6. CASE Recover(n) /\ n # "arbiter"
    <3>1. ("arbiter" \in up' <=> "arbiter" \in up) /\ arbMode' = arbMode
          /\ (mode' = mode \/ mode' = Join(mode, n))
      BY <2>6 DEF Recover, Subscribe, arbNode
    <3>2. "arbiter" \in up => mode'["arbiter"] = mode["arbiter"]
      BY <1>1, <2>6, <3>1 DEF Join, Topics
    <3>3. QED
      BY <2>2, <3>1, <3>2 DEF Heard, Waiting
  <2>7. QED
    BY <2>1, <2>3, <2>4, <2>5, <2>6
<1>6. CASE ArbiterTick \/ HardwareTick \/ Sending \/ ApprovedToHardware \/ ReportToHardware
           \/ Hearing
  <2>1. UNCHANGED <<up, mode, activeMode, arbMode>>
    BY <1>6 DEF ArbiterTick, Arb!Tick, Arb!nodeVars, HardwareTick, Sending, SourceTick, CountTick,
       Arb!OnCandidate, ApprovedToHardware, ReportToHardware, Hearing, HearSafety, schedule,
       MM!OnSafetyState, MM!topicVars, Arb!OnSafetyState, mmVars, mmNode, arbVars, arbNode
  <2>2. QED
    BY <2>1 DEF Heard, Waiting
<1>7. QED
  BY <1>2, <1>3, <1>4, <1>5, <1>6, StepCases

(***************************************************************************)
(* Once the mode has lasted a unit, no older mode and no command of an     *)
(* older mode is left on its way.                                          *)
(***************************************************************************)
CurrentModes == {msg \in MM!ModeMsgs : msg.active = activeMode}
MeantCommands == {command \in Contract : Meant(command.vel)}

Settled ==
  modeAge >= 1 =>
    /\ arbMode \in {activeMode, "INACTIVE"}
    /\ mode \in Topics({"arbiter", "hardware"} \intersect up, CurrentModes)
    /\ approved \in Topics({"hardware"} \intersect up, MeantCommands)

LEMMA StepSettled ==
  ASSUME Typed, "mode_manager" \notin Crashable, ManagerLives, Owned, Settled, Step, Observe
  PROVE  Settled'
<1> SUFFICES ASSUME modeAge' >= 1 PROVE Settled'
  BY DEF Settled
<1>1. modeAge >= 1 /\ activeMode' = activeMode
  BY ModeClock
<1>2. /\ arbMode \in {activeMode, "INACTIVE"}
      /\ mode \in Topics({"arbiter", "hardware"} \intersect up, CurrentModes)
      /\ approved \in Topics({"hardware"} \intersect up, MeantCommands)
  BY <1>1 DEF Settled
<1>3. CurrentModes' = CurrentModes /\ MeantCommands' = MeantCommands
  BY <1>1 DEF CurrentModes, MeantCommands, Meant
<1>4. arbMode' \in {activeMode, "INACTIVE"}
  <2>1. CASE ModeToArbiter
    <3>1. Awaits(mode, "arbiter") /\ arbMode' = Head(mode["arbiter"]).active
      BY <2>1 DEF ModeToArbiter, Arb!OnModeState
    <3>2. "arbiter" \in {"arbiter", "hardware"} \intersect up /\ mode["arbiter"] # << >>
      BY <1>2, <3>1 DEF Awaits, Topics
    <3>3. Head(mode["arbiter"]) \in CurrentModes
      BY <1>2, <3>2, TakeType
    <3>4. QED
      BY <3>1, <3>3 DEF CurrentModes
  <2>2. CASE Crashes
    BY <1>2, <2>2 DEF Crashes, Crash, Recover, Arb!Restart, arbNode
  <2>3. CASE \/ ModeTick \/ ArbiterTick \/ HardwareTick \/ Sending \/ Request
             \/ ModeToHardware \/ ApprovedToHardware \/ ReportToHardware \/ Hearing
    BY <1>2, <2>3 DEF ModeTick, ArbiterTick, Arb!Tick, Arb!nodeVars, HardwareTick, Sending,
       SourceTick, Arb!OnCandidate, Request, ModeToHardware, ApprovedToHardware,
       ReportToHardware, Hearing, HearSafety, Arb!OnSafetyState, arbVars, arbNode
  <2>4. QED
    BY <2>1, <2>2, <2>3, StepCases
<1>5. mode' \in Topics({"arbiter", "hardware"} \intersect up', CurrentModes)
  <2>1. MM!ModeMsg' \in CurrentModes
    BY <1>1, ManagerTyped DEF MM!NodeTypeOk, MM!ModeMsg, MM!ModeMsgs, CurrentModes
  <2>2. QED
    BY <1>2, <2>1, ModeTopic
<1>6. approved' \in Topics({"hardware"} \intersect up', MeantCommands)
  <2>1. Arb!Reason = "approved" => Arb!ApprovedCommand \in MeantCommands
    BY <1>2, ApprovedIsMeant, ChosenCommand DEF MeantCommands, Typed
  <2>2. Arb!Stop \in MeantCommands
    BY StopInContract, TellApart DEF MeantCommands, Meant
  <2>3. QED
    BY <1>2, <2>1, <2>2, ApprovedTopic
<1>7. QED
  BY <1>1, <1>3, <1>4, <1>5, <1>6 DEF Settled

\* A topic that has been delivered holds nothing, hence only what one likes.
LEMMA DeliveredTopic ==
  ASSUME NEW Subs, NEW Msgs, NEW Wanted, NEW topic \in Topics(Subs, Msgs), Delivered(topic)
  PROVE  topic \in Topics(Subs, Wanted)
BY DEF Topics, Delivered

LEMMA AdvanceSettled ==
  ASSUME Typed, Heard, Advance
  PROVE  Settled'
<1>1. UNCHANGED <<mode, approved, up, activeMode, arbMode>>
  BY DEF Advance, mmVars, mmNode, Arb!Age
<1>2. arbMode \in {activeMode, "INACTIVE"}
  BY DEF Heard, Waiting, Advance, Delivered, Typed, Topics
<1>3. /\ mode \in Topics({"arbiter", "hardware"} \intersect up, CurrentModes)
      /\ approved \in Topics({"hardware"} \intersect up, MeantCommands)
  BY DeliveredTopic DEF Advance, Typed
<1>4. CurrentModes' = CurrentModes /\ MeantCommands' = MeantCommands
  BY <1>1 DEF CurrentModes, MeantCommands, Meant
<1>5. QED
  BY <1>1, <1>2, <1>3, <1>4 DEF Settled

(***************************************************************************)
(* An adapter that is down, or has not been told, holds no command, and a  *)
(* command of another mode is as old as the present mode or older.         *)
(***************************************************************************)
Resting ==
  /\ "hardware" \notin up => applied = HW!Halt /\ lastApproved = Zero
  /\ approvedAge = Never => lastApproved = Zero

Aging == Meant(lastApproved) \/ approvedAge >= modeAge

\* The adapter's command changes on delivery and when the adapter dies.
LEMMA CommandStays ==
  ASSUME Step
  PROVE  \/ ApprovedToHardware
         \/ Crash("hardware")
         \/ UNCHANGED <<lastApproved, approvedAge>>
<1>1. CASE Crashes
  BY <1>1 DEF Crashes, Crash, Recover, hwVars, hwNode
<1>2. CASE ModeTick \/ ArbiterTick \/ HardwareTick \/ Sending \/ Request \/ ModeToArbiter
           \/ ModeToHardware \/ ReportToHardware \/ Hearing
  BY <1>2 DEF ModeTick, ArbiterTick, HardwareTick, HW!Tick, Sending, SourceTick, Request,
     ModeToArbiter, ModeToHardware, HW!OnModeState, ReportToHardware, HW!OnArbitrationState,
     Hearing, HearSafety, HW!OnSafetyState, hwVars, hwNode
<1>3. QED
  BY <1>1, <1>2, StepCases

\* What the motors execute changes when the adapter's timer runs and when it dies.
LEMMA OutputStays ==
  ASSUME Step
  PROVE  HardwareTick \/ Crash("hardware") \/ UNCHANGED applied
<1>1. CASE Crashes
  BY <1>1 DEF Crashes, Crash, Recover, hwVars, hwNode
<1>2. CASE ModeTick \/ ArbiterTick \/ Sending \/ Request \/ ModeToArbiter \/ ModeToHardware
           \/ ApprovedToHardware \/ ReportToHardware \/ Hearing
  BY <1>2 DEF ModeTick, ArbiterTick, Sending, SourceTick, Request, ModeToArbiter,
     ModeToHardware, HW!OnModeState, ApprovedToHardware, HW!OnApprovedCommand,
     ReportToHardware, HW!OnArbitrationState, Hearing, HearSafety, HW!OnSafetyState, hwVars, hwNode
<1>3. QED
  BY <1>1, <1>2, StepCases

LEMMA DeadAdapter ==
  ASSUME Crash("hardware")
  PROVE  /\ lastApproved' = Zero /\ approvedAge' = Never /\ applied' = HW!Halt
         /\ "hardware" \notin up'
BY DEF Crash, HW!Restart, HW!Zero, Zero, HW!Never, Never

LEMMA StepResting ==
  ASSUME Typed, Resting, Step
  PROVE  Resting'
<1>1. CASE ApprovedToHardware
  <2>1. "hardware" \in up /\ up' = up /\ approvedAge' = 0
    BY <1>1, DeliveredCommand DEF ApprovedToHardware, schedule, HW!OnApprovedCommand
  <2>2. QED
    BY <2>1 DEF Resting, Never
<1>2. CASE HardwareTick
  <2>1. "hardware" \in up /\ up' = up /\ UNCHANGED <<lastApproved, approvedAge>>
    BY <1>2 DEF HardwareTick, CountTick, HW!Tick
  <2>2. QED
    BY <2>1 DEF Resting
<1>3. CASE Crash("hardware")
  BY <1>3, DeadAdapter DEF Resting
<1>4. CASE /\ UNCHANGED <<lastApproved, approvedAge, applied>>
           /\ ~Crash("hardware")
  <2>1. "hardware" \notin up' => "hardware" \notin up
    BY <1>4, SameUp DEF Crashes, Crash, Recover
  <2>2. QED
    BY <1>4, <2>1 DEF Resting
<1>5. QED
  BY <1>1, <1>2, <1>3, <1>4, CommandStays, OutputStays

\* A delivered command is meant for the mode once the mode has lasted a unit.
LEMMA DeliveredIsMeant ==
  ASSUME Settled, modeAge >= 1, ApprovedToHardware
  PROVE  Meant(lastApproved')
<1>1. approved \in Topics({"hardware"} \intersect up, MeantCommands)
  BY DEF Settled
<1>2. /\ Awaits(approved, "hardware") /\ lastApproved' = Head(approved["hardware"]).vel
  BY DEF ApprovedToHardware, HW!OnApprovedCommand
<1>3. "hardware" \in {"hardware"} \intersect up /\ approved["hardware"] # << >>
  BY <1>1, <1>2 DEF Awaits, Topics
<1>4. Head(approved["hardware"]) \in MeantCommands
  BY <1>1, <1>3, TakeType
<1>5. QED
  BY <1>2, <1>4 DEF MeantCommands

LEMMA StepAging ==
  ASSUME Typed, "mode_manager" \notin Crashable, ManagerLives, Settled, Resting, Aging,
         Step, Observe
  PROVE  Aging'
<1>1. /\ modeAge' # 0 => modeAge' = modeAge /\ activeMode' = activeMode
      /\ modeAge \in 0..AgeCap /\ modeAge' \in 0..AgeCap
  BY ModeClock DEF ManagerLives
<1>2. CASE ApprovedToHardware
  <2>1. CASE modeAge' = 0
    BY <1>2, <2>1 DEF ApprovedToHardware, HW!OnApprovedCommand, Aging
  <2>2. CASE modeAge' # 0
    <3>1. modeAge >= 1 /\ activeMode' = activeMode
      BY <1>1, <2>2, AgeCapAssumption
    <3>2. Meant(lastApproved')
      BY <1>2, <3>1, DeliveredIsMeant
    <3>3. QED
      BY <3>1, <3>2 DEF Aging, Meant
  <2>3. QED
    BY <2>1, <2>2
<1>3. CASE Crash("hardware")
  BY <1>3, DeadAdapter, TellApart DEF Aging, Meant
<1>4. CASE UNCHANGED <<lastApproved, approvedAge>>
  <2>1. CASE modeAge' = 0
    <3>1. approvedAge \in Ages
      BY DEF Typed, HW!NodeTypeOk, HW!Ages, Ages, HW!Never, Never
    <3>2. approvedAge = Never \/ approvedAge >= 0
      BY <3>1, AgeCapAssumption DEF Ages
    <3>3. QED
      BY <1>4, <2>1, <3>2, TellApart DEF Aging, Resting, Meant
  <2>2. CASE modeAge' # 0
    BY <1>1, <1>4, <2>2 DEF Aging, Meant
  <2>3. QED
    BY <2>1, <2>2
<1>5. QED
  BY <1>2, <1>3, <1>4, CommandStays

LEMMA AdvanceAging ==
  ASSUME Typed, ManagerLives, Resting, Aging, Advance
  PROVE  ManagerLives' /\ Resting' /\ Aging'
<1>1. /\ UNCHANGED <<up, activeMode, lastApproved, applied>>
      /\ approvedAge' = Older(approvedAge) /\ modeAge' = Older(modeAge)
  BY SameRuntime DEF Advance, HW!Age, mmVars, mmNode
<1>2. approvedAge \in Ages /\ modeAge \in Ages
  BY DEF Typed, HW!NodeTypeOk, HW!Ages, Ages, HW!Never, Never
<1>3. ManagerLives'
  BY <1>1, <1>2, AgeCapAssumption DEF ManagerLives, Older, Never
<1>4. Resting'
  BY <1>1, <1>2, OlderType DEF Resting
<1>5. approvedAge >= modeAge => approvedAge' >= modeAge'
  BY <1>1, <1>2, AgeCapAssumption DEF ManagerLives, Older, Ages, Never
<1>6. QED
  BY <1>1, <1>3, <1>4, <1>5 DEF Aging, Meant

(***************************************************************************)
(* An arbiter that publishes stops and does not die answers a change of    *)
(* mode within a unit: by a command of the new mode or by a stop, unless   *)
(* it has never approved anything.                                         *)
(***************************************************************************)
Prompt == PublishStopOnBlock /\ "arbiter" \notin Crashable

Answered ==
  /\ "arbiter" \in up
  /\ ~arbSafetySeen => lastApproved = Zero /\ approved \in Topics({"hardware"} \intersect up, {})
  /\ modeAge >= 1 /\ ticks["arbiter"] > 0 =>
       Meant(lastApproved) \/ Awaits(approved, "hardware")
  /\ modeAge >= 2 => Meant(lastApproved)

LEMMA ZeroIsMeant == Meant(Zero)
BY TellApart DEF Meant

\* A topic without messages has nothing to deliver.
LEMMA NothingAwaited ==
  ASSUME NEW Subs, NEW topic \in Topics(Subs, {}), NEW n
  PROVE  ~Awaits(topic, n)
<1>1. ASSUME NEW queue \in Seq({}) PROVE queue = << >>
  <2>1. queue # << >> => Head(queue) \in {}
    OBVIOUS
  <2>2. QED
    BY <2>1
<1>2. QED
  BY <1>1 DEF Awaits, Topics

\* Of the arbiter's and the adapter's timers each counts its own runs only.
LEMMA TicksStay ==
  ASSUME Typed, Step
  PROVE  /\ ArbiterTick \/ ticks'["arbiter"] = ticks["arbiter"]
         /\ HardwareTick \/ ticks'["hardware"] = ticks["hardware"]
<1>1. DOMAIN ticks = Nodes /\ {"arbiter", "hardware", "mode_manager"} \subseteq Nodes
  BY DEF Typed, Nodes
<1>2. CASE ModeTick \/ ArbiterTick \/ HardwareTick \/ Sending
  BY <1>1, <1>2, HandoverAssumption
     DEF ModeTick, ArbiterTick, HardwareTick, Sending, SourceTick, CountTick
<1>3. CASE Request \/ ModeToArbiter \/ ModeToHardware \/ ApprovedToHardware
           \/ ReportToHardware \/ Hearing \/ Crashes
  BY <1>3 DEF Request, ModeToArbiter, ModeToHardware, ApprovedToHardware, ReportToHardware,
     Hearing, HearSafety, Crashes, Crash, Recover, schedule
<1>4. QED
  BY <1>2, <1>3, StepCases

\* What waits for the adapter waits on, unless it is taken or the adapter dies.
LEMMA CommandWaits ==
  ASSUME Typed, Step, Awaits(approved, "hardware")
  PROVE  ArbiterTick \/ ApprovedToHardware \/ Crash("hardware") \/ Awaits(approved, "hardware")'
<1>1. approved \in Topics({"hardware"} \intersect up, Contract)
  BY DEF Typed
<1>2. "hardware" \in up
  BY <1>1 DEF Awaits, Topics
<1>3. CASE Crashes
  <2>1. PICK n \in Nodes : Crash(n) \/ Recover(n)
    BY <1>3 DEF Crashes
  <2>2. CASE Crash(n) /\ n # "hardware"
    BY <1>1, <2>2 DEF Crash, Leave, Awaits, Topics
  <2>3. CASE Recover(n)
    <3>1. n # "hardware" /\ approved' = approved
      BY <1>2, <2>3 DEF Recover, Subscribe
    <3>2. QED
      BY <3>1 DEF Awaits
  <2>4. QED
    BY <2>1, <2>2, <2>3
<1>4. CASE ModeTick \/ HardwareTick \/ Sending \/ Request \/ ModeToArbiter \/ ModeToHardware
           \/ ReportToHardware \/ Hearing
  <2>1. approved' = approved
    BY <1>4 DEF ModeTick, HardwareTick, Sending, SourceTick, Request, ModeToArbiter,
       ModeToHardware, ReportToHardware, Hearing, HearSafety, arbVars, Arb!OnCandidate,
       Arb!OnModeState, Arb!OnSafetyState, Arb!topicVars
  <2>2. QED
    BY <2>1 DEF Awaits
<1>5. QED
  BY <1>3, <1>4, StepCases

\* A run of the arbiter's timer leaves a command or a stop for the adapter,
\* unless the adapter is down or the arbiter still waits for a safety state.
LEMMA ArbiterAnswers ==
  ASSUME Typed, Prompt, Resting, Answered, ArbiterTick
  PROVE  lastApproved = Zero \/ Awaits(approved, "hardware")'
<1>1. approved \in Topics({"hardware"} \intersect up, Contract) /\ Arb!NodeTypeOk
  BY DEF Typed
<1>2. CASE "hardware" \notin up
  BY <1>2 DEF Resting
<1>3. CASE ~arbSafetySeen
  BY <1>3 DEF Answered
<1>4. CASE "hardware" \in up /\ arbSafetySeen
  <2>1. Arb!Reason = "approved" \/ Arb!ShouldPublishStop(Arb!Reason)
    BY <1>4 DEF Arb!Reason, Arb!ShouldPublishStop, Arb!StopReasons, Prompt
  <2>2. PICK msg \in Contract : approved' = Publish(approved, msg)
    BY <2>1, <1>1, ChosenCommand, StopInContract, SameRuntime DEF ArbiterTick, Arb!Tick
  <2>3. approved'["hardware"] # << >> /\ "hardware" \in DOMAIN approved'
    BY <1>1, <1>4, <2>2, PublishType DEF Topics
  <2>4. QED
    BY <2>3 DEF Awaits
<1>5. QED
  BY <1>2, <1>3, <1>4

LEMMA StepAnswered ==
  ASSUME Typed, "mode_manager" \notin Crashable, ManagerLives, Settled, Resting,
         Prompt, Answered, Step, Observe
  PROVE  Answered'
<1>1. /\ modeAge' # 0 => modeAge' = modeAge /\ activeMode' = activeMode
      /\ modeAge \in 0..AgeCap /\ modeAge' \in 0..AgeCap
  BY ModeClock DEF ManagerLives
<1>2. "arbiter" \in up'
  BY SameUp DEF Answered, Prompt, Crashes, Crash, Recover
<1>3. Crash("hardware") => Meant(lastApproved')
  BY DeadAdapter, ZeroIsMeant
<1>4. ASSUME ~arbSafetySeen'
      PROVE  lastApproved' = Zero /\ approved' \in Topics({"hardware"} \intersect up', {})
  <2>1. ~arbSafetySeen
    <3>1. CASE Crashes
      BY <1>4, <3>1 DEF Crashes, Crash, Recover, Prompt, arbNode
    <3>2. CASE \/ ModeTick \/ ArbiterTick \/ HardwareTick \/ Sending \/ Request \/ ModeToArbiter
               \/ ModeToHardware \/ ApprovedToHardware \/ ReportToHardware \/ Hearing
      BY <1>4, <3>2 DEF ModeTick, ArbiterTick, Arb!Tick, Arb!nodeVars, HardwareTick, Sending,
         SourceTick, Arb!OnCandidate, Request, ModeToArbiter, Arb!OnModeState, ModeToHardware,
         ApprovedToHardware, ReportToHardware, Hearing, HearSafety, Arb!OnSafetyState, arbVars,
         arbNode
    <3>3. QED
      BY <3>1, <3>2, StepCases
  <2>2. lastApproved = Zero /\ approved \in Topics({"hardware"} \intersect up, {})
    BY <2>1 DEF Answered
  <2>3. ~ApprovedToHardware
    BY <2>2, NothingAwaited DEF ApprovedToHardware
  <2>4. lastApproved' = Zero
    BY <2>2, <2>3, CommandStays, DeadAdapter
  <2>5. Arb!Reason # "approved" /\ ~Arb!ShouldPublishStop(Arb!Reason)
    BY <2>1 DEF Arb!Reason, Arb!ShouldPublishStop, Arb!StopReasons
  <2>6. QED
    BY <2>2, <2>4, <2>5, ApprovedTopic
<1>5. ASSUME modeAge' >= 1, ticks'["arbiter"] > 0
      PROVE  Meant(lastApproved)' \/ Awaits(approved, "hardware")'
  <2>1. modeAge >= 1 /\ activeMode' = activeMode
    BY <1>1, <1>5
  <2>2. CASE ArbiterTick
    <3>1. lastApproved' = lastApproved
      BY <2>2 DEF ArbiterTick, hwVars, hwNode
    <3>2. QED
      BY <2>1, <2>2, <3>1, ArbiterAnswers, ZeroIsMeant DEF Meant
  <2>3. CASE ApprovedToHardware
    BY <2>1, <2>3, DeliveredIsMeant DEF Meant
  <2>4. CASE Crash("hardware")
    BY <2>1, <2>4, <1>3 DEF Meant
  <2>5. CASE ~ArbiterTick /\ ~ApprovedToHardware /\ ~Crash("hardware")
    <3>1. ticks["arbiter"] > 0 /\ lastApproved' = lastApproved
      BY <1>5, <2>5, TicksStay, CommandStays
    <3>2. Meant(lastApproved) \/ Awaits(approved, "hardware")
      BY <2>1, <3>1 DEF Answered
    <3>3. QED
      BY <2>1, <2>5, <3>1, <3>2, CommandWaits DEF Meant
  <2>6. QED
    BY <2>2, <2>3, <2>4, <2>5
<1>6. ASSUME modeAge' >= 2 PROVE Meant(lastApproved)'
  <2>1. modeAge >= 2 /\ activeMode' = activeMode
    BY <1>1, <1>6
  <2>2. Meant(lastApproved)
    BY <2>1 DEF Answered
  <2>3. CASE ApprovedToHardware
    BY <1>1, <2>1, <2>3, DeliveredIsMeant DEF Meant
  <2>4. CASE Crash("hardware")
    BY <2>1, <2>4, <1>3 DEF Meant
  <2>5. CASE lastApproved' = lastApproved
    BY <2>1, <2>2, <2>5 DEF Meant
  <2>6. QED
    BY <2>3, <2>4, <2>5, CommandStays
<1>7. QED
  BY <1>2, <1>4, <1>5, <1>6 DEF Answered

LEMMA AdvanceAnswered ==
  ASSUME Typed, ManagerLives, Prompt, Answered, Advance
  PROVE  Answered'
<1>1. /\ UNCHANGED <<up, activeMode, lastApproved, approved, arbSafetySeen>>
      /\ modeAge' = Older(modeAge) /\ ticks' = [n \in Nodes |-> 0]
  BY DEF Advance, HW!Age, Arb!Age, mmVars, mmNode
<1>2. ticks'["arbiter"] = 0 /\ ticks["arbiter"] > 0
  BY <1>1 DEF Nodes, Answered, Advance
<1>3. ~Awaits(approved, "hardware")
  BY DEF Advance, Delivered, Awaits
<1>4. modeAge' >= 2 => Meant(lastApproved)'
  <2>1. modeAge' >= 2 => modeAge >= 1
    BY <1>1, OlderType, AgeCapAssumption DEF ManagerLives, Typed, Ages
  <2>2. QED
    BY <1>1, <1>2, <1>3, <2>1 DEF Answered, Meant
<1>5. QED
  BY <1>1, <1>2, <1>4 DEF Answered

(***************************************************************************)
(* What the motors execute: from a unit before the bound on, the adapter   *)
(* lets only commands of the active mode through.                          *)
(***************************************************************************)
MeantOutput == /\ applied = HW!Apply(TeleopVelocity) => activeMode = "TELEOP"
               /\ applied = HW!Apply(AutonomyVelocity) => activeMode = "AUTONOMY"

Moved ==
  /\ modeAge >= HandoverBound - 1 /\ ticks["hardware"] > 0 => MeantOutput
  /\ modeAge >= HandoverBound => MeantOutput

LEMMA BoundIsInt == HandoverBound \in Int /\ HandoverBound >= 3
BY HandoverAssumption DEF HandoverBound

\* The gate opens on a command of the active mode: the arbiter has answered the
\* change of mode, or a command from before it would be too old.
LEMMA ReleasedIsMeant ==
  ASSUME Typed, ManagerLives, Aging, Prompt => Answered,
         modeAge >= HandoverBound - 1, HW!ReleaseOutput
  PROVE  Meant(lastApproved)
<1>1. approvedAge \in Ages /\ modeAge \in 0..AgeCap
  BY DEF Typed, HW!NodeTypeOk, HW!Ages, Ages, HW!Never, Never, ManagerLives
<1>2. approvedAge <= ApprovedTimeout
  <2>1. approvedAge # Never /\ ~HW!Expired(approvedAge, ApprovedTimeout)
    BY DEF HW!ReleaseOutput, HW!GateReason, HW!Never, Never
  <2>2. QED
    BY <1>1, <2>1, HandoverAssumption, AgeCapAssumption DEF HW!Expired, HW!Never, Never, Ages
<1>3. CASE Prompt
  <2>1. modeAge >= 2
    BY <1>1, BoundIsInt, AgeCapAssumption
  <2>2. QED
    BY <1>3, <2>1 DEF Answered
<1>4. CASE ~Prompt
  <2>1. HandoverBound >= ApprovedTimeout + 2
    BY <1>4, HandoverAssumption DEF HandoverBound, Prompt
  <2>2. approvedAge < modeAge
    BY <1>1, <1>2, <2>1, BoundIsInt, HandoverAssumption, AgeCapAssumption DEF Ages, Never
  <2>3. QED
    BY <1>1, <2>2, AgeCapAssumption DEF Aging, Ages, Never
<1>5. QED
  BY <1>3, <1>4

\* A stop of the vendor's own is nobody's command, and a command keeps its face.
LEMMA OutputsDiffer ==
  /\ \A vel \in Velocities : HW!Halt # HW!Apply(vel)
  /\ \A vel, other \in Velocities : HW!Apply(vel) = HW!Apply(other) => vel = other
<1>1. ASSUME NEW vel \in Velocities PROVE HW!Halt # HW!Apply(vel)
  <2>1. HW!Halt.halted # HW!Apply(vel).halted
    BY DEF HW!Halt, HW!Apply
  <2>2. QED
    BY <2>1
<1>2. ASSUME NEW vel \in Velocities, NEW other \in Velocities, HW!Apply(vel) = HW!Apply(other)
      PROVE  vel = other
  <2>1. vel.lin = other.lin /\ vel.ang = other.ang
    BY <1>2 DEF HW!Apply
  <2>2. QED
    BY <2>1 DEF Velocities
<1>3. QED
  BY <1>1, <1>2

LEMMA HaltIsMeant == applied = HW!Halt => MeantOutput
BY OutputsDiffer, HandoverAssumption DEF MeantOutput

LEMMA StepMoved ==
  ASSUME Typed, "mode_manager" \notin Crashable, ManagerLives, Aging, Prompt => Answered,
         Moved, Step, Observe
  PROVE  Moved'
<1> SUFFICES ASSUME modeAge' >= HandoverBound - 1,
                    ticks'["hardware"] > 0 \/ modeAge' >= HandoverBound
             PROVE  MeantOutput'
  <2>1. modeAge' \in Int
    BY ModeClock, AgeCapAssumption DEF ManagerLives
  <2>2. HandoverBound' = HandoverBound /\ HandoverBound \in Int
    BY BoundIsInt DEF HandoverBound
  <2>3. QED
    BY <2>1, <2>2 DEF Moved
<1>1. modeAge' = modeAge /\ activeMode' = activeMode
  BY ModeClock, BoundIsInt DEF ManagerLives
<1>2. CASE HardwareTick
  <2>1. applied' = IF HW!ReleaseOutput THEN HW!Apply(lastApproved) ELSE HW!Halt
    BY <1>2 DEF HardwareTick, HW!Tick
  <2>2. CASE HW!ReleaseOutput
    <3>1. Meant(lastApproved)
      BY <1>1, <2>2, ReleasedIsMeant
    <3>2. lastApproved \in Velocities
      BY DEF Typed, HW!NodeTypeOk, HW!Zero, Velocities
    <3>3. QED
      BY <1>1, <2>1, <2>2, <3>1, <3>2, OutputsDiffer, HandoverAssumption DEF Meant, MeantOutput
  <2>3. CASE ~HW!ReleaseOutput
    BY <2>1, <2>3, OutputsDiffer, HandoverAssumption DEF MeantOutput
  <2>4. QED
    BY <2>2, <2>3
<1>3. CASE Crash("hardware")
  BY <1>3, DeadAdapter, OutputsDiffer, HandoverAssumption DEF MeantOutput
<1>4. CASE ~HardwareTick /\ applied' = applied
  <2>1. MeantOutput
    BY <1>1, <1>4, TicksStay DEF Moved
  <2>2. QED
    BY <1>1, <1>4, <2>1 DEF MeantOutput
<1>5. QED
  BY <1>2, <1>3, <1>4, OutputStays

LEMMA AdvanceMoved ==
  ASSUME Typed, ManagerLives, Resting, Moved, Advance
  PROVE  Moved'
<1>1. /\ UNCHANGED <<up, activeMode, applied>>
      /\ modeAge' = Older(modeAge) /\ ticks' = [n \in Nodes |-> 0]
      /\ "hardware" \in up => ticks["hardware"] > 0
  BY DEF Advance, HW!Age, mmVars, mmNode
<1>2. ~(ticks'["hardware"] > 0)
  BY <1>1 DEF Nodes
<1>3. modeAge' <= modeAge + 1 /\ modeAge \in Int /\ modeAge' \in Int
  BY <1>1, OlderType, AgeCapAssumption DEF ManagerLives, Typed, Ages, Older
<1>4. modeAge' >= HandoverBound => MeantOutput
  <2>1. modeAge' >= HandoverBound => modeAge >= HandoverBound - 1
    BY <1>3, BoundIsInt
  <2>2. QED
    BY <1>1, <2>1, HaltIsMeant DEF Resting, Moved
<1>5. QED
  BY <1>1, <1>2, <1>4 DEF Moved, MeantOutput, HandoverBound

(***************************************************************************)
(* The bound on a change of mode.                                          *)
(***************************************************************************)
HandedOver ==
  /\ ManagerLives /\ Owned /\ Heard /\ Settled /\ Resting /\ Aging
  /\ Prompt => Answered
  /\ Moved

LEMMA InitHandedOver == Init => HandedOver
<1> SUFFICES ASSUME Init PROVE HandedOver
  OBVIOUS
<1>1. ManagerLives
  BY AgeCapAssumption DEF Init, Nodes, ManagerLives
<1>2. Owned
  <2>1. Arb!NoCandidate.vel = Zero
    BY DEF Arb!NoCandidate, Arb!Zero, Zero
  <2>2. QED
    BY <2>1 DEF Init, Arb!NodeInit, Owned, Offers
<1>3. Heard
  BY DEF Init, Arb!NodeInit, Heard, Waiting, Silent, Nodes
<1>4. Settled /\ Moved
  BY BoundIsInt DEF Init, Settled, Moved
<1>5. Resting /\ lastApproved = Zero
  BY DEF Init, HW!NodeInit, Resting, HW!Zero, Zero, Nodes
<1>6. Aging
  BY <1>5, ZeroIsMeant DEF Aging
<1>7. Answered
  <2>1. approved \in Topics({"hardware"} \intersect up, {})
    BY SilentType DEF Init, Nodes
  <2>2. QED
    BY <1>5, <2>1 DEF Init, Nodes, Answered
<1>8. QED
  BY <1>1, <1>2, <1>3, <1>4, <1>5, <1>6, <1>7 DEF HandedOver

LEMMA NextHandedOver ==
  ASSUME "mode_manager" \notin Crashable
  PROVE  Typed /\ HandedOver /\ [Next]_vars => HandedOver'
<1> SUFFICES ASSUME Typed, HandedOver, [Next]_vars PROVE HandedOver'
  OBVIOUS
<1>1. CASE Step /\ Observe
  <2>1. (Prompt => Answered)'
    BY <1>1, StepAnswered DEF HandedOver, Prompt
  <2>2. QED
    BY <1>1, <2>1, ModeClock, StepOwned, StepHeard, StepSettled, StepResting, StepAging, StepMoved
       DEF HandedOver
<1>2. CASE Advance
  <2>1. (Prompt => Answered)'
    BY <1>2, AdvanceAnswered DEF HandedOver, Prompt
  <2>2. Owned'
    <3>1. \A source \in Arb!Sources : candidates'[source].vel = candidates[source].vel
      BY <1>2 DEF Advance, Arb!Age, Typed, Arb!NodeTypeOk
    <3>2. QED
      BY <3>1 DEF HandedOver, Owned
  <2>3. Heard'
    BY <1>2 DEF HandedOver, Heard, Waiting, Advance, mmVars, mmNode, Arb!Age
  <2>4. QED
    BY <1>2, <2>1, <2>2, <2>3, AdvanceAging, AdvanceSettled, AdvanceMoved DEF HandedOver
<1>3. CASE UNCHANGED vars
  BY <1>3 DEF vars, mmVars, mmNode, arbVars, arbNode, hwVars, hwNode, schedule, commandObservers,
     HandedOver, ManagerLives, Owned, Heard, Waiting, Settled, CurrentModes, MeantCommands, Meant,
     Resting, Aging, Prompt, Answered, Awaits, Moved, MeantOutput, HandoverBound
<1>4. QED
  BY <1>1, <1>2, <1>3 DEF Next

\* A change of mode or a takeover reaches the motors within HandoverBound, for
\* every timeout and whichever nodes but the mode manager crash.
THEOREM ModesReachMotors ==
  ASSUME "mode_manager" \notin Crashable
  PROVE  Spec => []ModeReachesMotors
<1>1. HandedOver => ModeReachesMotors
  BY DEF HandedOver, Moved, MeantOutput, ModeReachesMotors, DrivenBy
<1>2. Typed /\ HandedOver /\ [Next]_vars => HandedOver'
  BY NextHandedOver
<1>3. QED
  BY <1>1, <1>2, InitHandedOver, AlwaysTyped, PTL DEF Spec
=============================================================================
