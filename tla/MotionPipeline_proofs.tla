----------------------- MODULE MotionPipeline_proofs ----------------------
(***************************************************************************)
(* The two bounds and the interlock of the motion path, for every          *)
(* operating mode, every set of offered velocities, every timeout, every   *)
(* queue depth, every number of timer runs in a unit and every set of      *)
(* nodes that may crash.                                                   *)
(***************************************************************************)
EXTENDS MotionPipeline, Foundations_proofs

(***************************************************************************)
(* The components use the runtime's operators under their own names.       *)
(***************************************************************************)
LEMMA SameRuntime ==
  /\ \A topic, msg : SM!Publish(topic, msg) = Publish(topic, msg)
  /\ \A topic, msg : Arb!Publish(topic, msg) = Publish(topic, msg)
  /\ \A topic, msg : Loc!Publish(topic, msg) = Publish(topic, msg)
  /\ \A age : SM!Older(age) = Older(age)
  /\ \A age : Arb!Older(age) = Older(age)
  /\ \A age : Loc!Older(age) = Older(age)
BY DEF SM!Publish, Arb!Publish, Loc!Publish, Publish, SM!Enqueue, Arb!Enqueue,
       Loc!Enqueue, Enqueue, SM!Older, Arb!Older, Loc!Older, Older, SM!Never,
       Arb!Never, Loc!Never, Never

(***************************************************************************)
(* The nodes, each on its own: none of their callbacks breaks their types, *)
(* whatever the arguments a delivery brings.                               *)
(***************************************************************************)
LEMMA SafetyNodeTyped ==
  ASSUME SM!NodeTypeOk,
         \/ SM!Tick \/ SM!TriggerMrm \/ SM!ClearMrm \/ SM!Restart \/ SM!Age
         \/ SM!OnTeleopHeartbeat \/ SM!OnApprovedCommand
         \/ SM!OnModeState(OperatingMode)
         \/ SM!SetEstop(~estop) \/ SM!SetParameterMrm(~parameterMrm)
  PROVE  SM!NodeTypeOk'
<1>1. 0 \in SM!Ages /\ SM!Never \in SM!Ages
  BY AgeCapAssumption DEF SM!Ages
<1>2. OperatingMode \in SM!Modes /\ "INACTIVE" \in SM!Modes
  BY PipelineAssumption DEF SM!Modes, ActiveModes
<1>3. \A age \in SM!Ages : SM!Older(age) \in SM!Ages
  BY SameRuntime, OlderType DEF SM!Ages, Ages, SM!Never, Never
<1>4. QED
  BY <1>1, <1>2, <1>3
     DEF SM!NodeTypeOk, SM!Tick, SM!nodeVars, SM!TriggerMrm, SM!ClearMrm, SM!Restart,
         SM!Age, SM!OnTeleopHeartbeat, SM!OnApprovedCommand, SM!OnModeState, SM!SetEstop,
         SM!SetParameterMrm

LEMMA ArbiterNodeTyped ==
  ASSUME Arb!NodeTypeOk,
         \/ Arb!Tick \/ Arb!Restart \/ Arb!Age
         \/ Arb!OnModeState(OperatingMode)
         \/ \E state \in SafetyStates : Arb!OnSafetyState(state)
         \/ \E vel \in Offered : Arb!OnCandidate(OperatingMode, vel)
  PROVE  Arb!NodeTypeOk'
<1> DEFINE Candidates == [vel : Offered \union {Arb!Zero}, age : Arb!Ages]
<1>1. 0 \in Arb!Ages /\ Arb!Never \in Arb!Ages
  BY AgeCapAssumption DEF Arb!Ages
<1>2. /\ OperatingMode \in Arb!Modes /\ "INACTIVE" \in Arb!Modes
      /\ OperatingMode \in Arb!Sources
      /\ SafetyStates \subseteq Arb!SafetyStates /\ "UNKNOWN" \in Arb!SafetyStates
  BY PipelineAssumption
     DEF Arb!Modes, ActiveModes, Arb!Sources, SafetyStates, Arb!SafetyStates
<1>3. \A age \in Arb!Ages : Arb!Older(age) \in Arb!Ages
  BY SameRuntime, OlderType DEF Arb!Ages, Ages, Arb!Never, Never
<1>4. CASE Arb!Tick \/ Arb!OnModeState(OperatingMode)
             \/ \E state \in SafetyStates : Arb!OnSafetyState(state)
  BY <1>2, <1>4 DEF Arb!NodeTypeOk, Arb!Tick, Arb!nodeVars, Arb!OnModeState,
                    Arb!OnSafetyState
<1>5. CASE Arb!Restart
  <2>1. Arb!NoCandidate \in Candidates
    BY <1>1 DEF Arb!NoCandidate
  <2>2. QED
    BY <1>2, <1>5, <2>1 DEF Arb!NodeTypeOk, Arb!Restart
<1>6. CASE Arb!Age
  <2>1. candidates' \in [Arb!Sources -> Candidates]
    BY <1>3, <1>6 DEF Arb!Age, Arb!NodeTypeOk
  <2>2. QED
    BY <1>6, <2>1 DEF Arb!NodeTypeOk, Arb!Age
<1>7. CASE \E vel \in Offered : Arb!OnCandidate(OperatingMode, vel)
  <2>1. \A vel \in Offered : [vel |-> vel, age |-> 0] \in Candidates
    BY <1>1
  <2>2. candidates' \in [Arb!Sources -> Candidates]
    BY <1>2, <1>7, <2>1 DEF Arb!OnCandidate, Arb!NodeTypeOk
  <2>3. QED
    BY <1>7, <2>2 DEF Arb!NodeTypeOk, Arb!OnCandidate
<1>8. QED
  BY <1>4, <1>5, <1>6, <1>7

\* A stop leaves the adapter without a velocity, in one of its resting states.
LEMMA StopTyped ==
  ASSUME NEW reason \in Loc!Constraints, Loc!NodeTypeOk, Loc!BeginStop(reason)
  PROVE  /\ velocity' = Zero
         /\ locState' \in Loc!LocomotionStates
         /\ constraints' \subseteq Loc!Constraints
         /\ stopAge' \in Loc!Ages
<1>1. 0 \in Loc!Ages /\ Loc!Never \in Loc!Ages
  BY AgeCapAssumption DEF Loc!Ages
<1>2. Loc!StopSince \in Loc!Ages
  BY <1>1 DEF Loc!StopSince, Loc!NodeTypeOk
<1>3. "mode_inactive" \in Loc!Constraints
  BY DEF Loc!Constraints
<1>4. /\ "INACTIVE" \in Loc!LocomotionStates /\ "STANDING" \in Loc!LocomotionStates
      /\ "STOPPING" \in Loc!LocomotionStates
  BY DEF Loc!LocomotionStates
<1>5. velocity' = Zero
  BY DEF Loc!BeginStop, Loc!Zero, Zero
<1>6. QED
  BY <1>1, <1>2, <1>3, <1>4, <1>5 DEF Loc!BeginStop, Loc!Settle

LEMMA LocomotionNodeTyped ==
  ASSUME Loc!NodeTypeOk,
         \/ Loc!Tick \/ Loc!Restart \/ Loc!Age
         \/ Loc!OnModeState(OperatingMode)
         \/ \E state \in SafetyStates : Loc!OnSafetyState(state)
         \/ \E vel \in Velocities : Loc!OnApprovedCommand(vel)
  PROVE  Loc!NodeTypeOk'
<1>1. 0 \in Loc!Ages /\ Loc!Never \in Loc!Ages
  BY AgeCapAssumption DEF Loc!Ages
<1>2. /\ OperatingMode \in Loc!Modes /\ "INACTIVE" \in Loc!Modes
      /\ SafetyStates \subseteq Loc!SafetyStates /\ "UNKNOWN" \in Loc!SafetyStates
  BY PipelineAssumption DEF Loc!Modes, ActiveModes, SafetyStates, Loc!SafetyStates
<1>3. \A age \in Loc!Ages : Loc!Older(age) \in Loc!Ages
  BY SameRuntime, OlderType DEF Loc!Ages, Ages, Loc!Never, Never
<1>4. {"INACTIVE", "STANDING", "STOPPING", "WALKING", "TURNING"} \subseteq Loc!LocomotionStates
  BY DEF Loc!LocomotionStates
<1>5. Zero = Loc!Zero
  BY DEF Zero, Loc!Zero
<1>6. CASE Loc!Restart
  <2>1. {"waiting_for_mode", "waiting_for_safety_state"} \subseteq Loc!Constraints
    BY DEF Loc!Constraints
  <2>2. QED
    BY <1>1, <1>2, <1>4, <1>6, <2>1 DEF Loc!NodeTypeOk, Loc!Restart
<1>7. CASE Loc!Age \/ Loc!OnModeState(OperatingMode)
             \/ \E state \in SafetyStates : Loc!OnSafetyState(state)
  BY <1>2, <1>3, <1>7 DEF Loc!NodeTypeOk, Loc!Age, Loc!OnModeState, Loc!OnSafetyState
<1>8. CASE \E vel \in Velocities : Loc!OnApprovedCommand(vel)
  <2>1. PICK vel \in Velocities : Loc!OnApprovedCommand(vel)
    BY <1>8
  <2>2. CASE Loc!StartMoving(vel)
    BY <1>1, <1>4, <2>1, <2>2
       DEF Loc!NodeTypeOk, Loc!OnApprovedCommand, Loc!StartMoving
  <2>3. CASE Loc!BeginStop("approved_stop_command") \/ Loc!BeginStop("runtime_blocks_output")
    <3>1. {"approved_stop_command", "runtime_blocks_output"} \subseteq Loc!Constraints
      BY DEF Loc!Constraints
    <3>2. QED
      BY <1>1, <1>5, <2>1, <2>3, <3>1, StopTyped DEF Loc!NodeTypeOk, Loc!OnApprovedCommand
  <2>4. QED
    BY <2>1, <2>2, <2>3 DEF Loc!OnApprovedCommand
<1>9. CASE Loc!Tick
  <2>1. UNCHANGED <<locMode, locSafety, commandAge>>
    BY <1>9 DEF Loc!Tick
  <2>2. CASE \E reason \in Loc!Constraints : Loc!BeginStop(reason)
    BY <1>5, <2>1, <2>2, StopTyped DEF Loc!NodeTypeOk
  <2>3. CASE /\ locState' = "STANDING"
             /\ constraints' = {"waiting_for_command"}
             /\ UNCHANGED <<stopAge, velocity>>
    BY <1>4, <2>1, <2>3 DEF Loc!NodeTypeOk, Loc!Constraints
  <2>4. CASE /\ IF locState = "STOPPING" THEN Loc!Settle(stopAge, constraints)
                                         ELSE UNCHANGED <<locState, constraints>>
             /\ UNCHANGED <<stopAge, velocity>>
    BY <1>4, <2>1, <2>4 DEF Loc!NodeTypeOk, Loc!Settle
  <2>5. QED
    BY <1>9, <2>2, <2>3, <2>4 DEF Loc!Tick, Loc!UpdateStateForRuntime, Loc!Constraints
<1>10. QED
  BY <1>6, <1>7, <1>8, <1>9

(***************************************************************************)
(* The messages.                                                           *)
(***************************************************************************)

\* What the arbiter lets onto cmd_vel/approved: no candidate older than its
\* timeout.
Contract == [vel : Velocities, age : 0..ArbiterTimeout]

LEMMA ContractIsCommand == Contract \subseteq Arb!Commands
BY PipelineAssumption, AgeCapAssumption
   DEF Contract, Arb!Commands, Arb!Ages, Arb!Velocities, Velocities

\* The loop over the priorities finds an eligible source if there is one.
LEMMA SelectedIsEligible ==
  ASSUME \E s \in Arb!Sources : Arb!Eligible(s)
  PROVE  Arb!Selected \in Arb!Sources /\ Arb!Eligible(Arb!Selected)
<1> DEFINE Priority == Arb!SourcePriority
           First(i) == /\ Arb!Eligible(Priority[i])
                       /\ \A j \in 1..(i - 1) : ~Arb!Eligible(Priority[j])
<1>1. Priority[1] = "TELEOP" /\ Priority[2] = "AUTONOMY" /\ Priority[3] = "AI_POLICY"
  BY DEF Arb!SourcePriority
<1>2. \A i \in 1..3 : Priority[i] \in Arb!Sources
  BY <1>1 DEF Arb!Sources
<1>3. \E i \in 1..3 : First(i)
  <2>1. CASE Arb!Eligible("TELEOP")
    <3>1. First(1)
      BY <1>1, <2>1
    <3>2. QED
      BY <3>1
  <2>2. CASE ~Arb!Eligible("TELEOP") /\ Arb!Eligible("AUTONOMY")
    <3>1. First(2)
      BY <1>1, <2>2
    <3>2. QED
      BY <3>1
  <2>3. CASE /\ ~Arb!Eligible("TELEOP") /\ ~Arb!Eligible("AUTONOMY")
             /\ Arb!Eligible("AI_POLICY")
    <3>1. \A j \in 1..2 : j = 1 \/ j = 2
      OBVIOUS
    <3>2. First(3)
      BY <1>1, <2>3, <3>1
    <3>3. QED
      BY <3>2
  <2>4. QED
    BY <2>1, <2>2, <2>3 DEF Arb!Sources
<1>4. PICK i \in 1..3 : i = (CHOOSE k \in 1..3 : First(k)) /\ First(i)
  BY <1>3
<1>5. Arb!Selected = Priority[i]
  BY <1>4 DEF Arb!Selected
<1>6. QED
  BY <1>2, <1>4, <1>5

\* A run of the arbiter's timer keeps the topic within the contract.
LEMMA ArbiterSpeaks ==
  ASSUME NEW Subs, approved \in Topics(Subs, Contract), Arb!NodeTypeOk, Arb!Tick
  PROVE  approved' \in Topics(Subs, Contract)
<1>1. Arb!Stop \in Contract
  <2>1. Arb!Zero \in Velocities
    BY DEF Arb!Zero, Velocities
  <2>2. QED
    BY <2>1, PipelineAssumption DEF Arb!Stop, Contract
<1>2. Arb!Reason = "approved" => Arb!ApprovedCommand \in Contract
  <2> SUFFICES ASSUME Arb!Reason = "approved" PROVE Arb!ApprovedCommand \in Contract
    OBVIOUS
  <2>1. Arb!Selected \in Arb!Sources /\ Arb!Eligible(Arb!Selected)
    BY SelectedIsEligible DEF Arb!Reason
  <2> DEFINE chosen == candidates[Arb!Selected]
  <2>2. chosen \in [vel : Offered \union {Arb!Zero}, age : Arb!Ages]
    BY <2>1 DEF Arb!NodeTypeOk
  <2>3. chosen.age \in 0..ArbiterTimeout
    BY <2>1, <2>2, PipelineAssumption, AgeCapAssumption
       DEF Arb!Eligible, Arb!Within, Arb!Ages, Arb!Never
  <2>4. chosen.vel \in Velocities
    <3>1. Arb!Zero \in Velocities
      BY DEF Arb!Zero, Velocities
    <3>2. QED
      BY <2>2, <3>1, PipelineAssumption
  <2> HIDE DEF chosen
  <2>5. chosen.vel.lin \in Int /\ chosen.vel.ang \in Int
    BY <2>4 DEF Velocities
  <2>6. Arb!ClampVelocity(chosen.vel) \in Velocities
    BY <2>5, PipelineAssumption DEF Arb!ClampVelocity, Arb!Clamp, Velocities
  <2>7. Arb!ApprovedCommand = [vel |-> Arb!ClampVelocity(chosen.vel), age |-> chosen.age]
    BY DEF Arb!ApprovedCommand, chosen
  <2>8. QED
    BY <2>3, <2>6, <2>7 DEF Contract
<1>3. QED
  BY <1>1, <1>2, PublishType, SameRuntime DEF Arb!Tick

\* Every publication of the safety manager is a sample of its topic, for each
\* of its listeners.
LEMMA SafetySpeaks ==
  ASSUME NEW Subs, NEW Msgs, safety \in Topics(Subs, Msgs), SM!SafetyMsg' \in Msgs,
         SM!PublishState
  PROVE  /\ safety' \in Topics(Subs, Msgs)
         /\ \A sub \in Subs : safety'[sub] # << >>
BY PublishType, SameRuntime DEF SM!PublishState

LEMMA SafetyMsgTyped ==
  ASSUME SM!NodeTypeOk'
  PROVE  SM!SafetyMsg' \in SM!SafetyMsgs
<1>1. estop' \in BOOLEAN
  BY DEF SM!NodeTypeOk
<1>2. SM!MrmActive' \in BOOLEAN
  BY DEF SM!MrmActive
<1>3. SM!Evaluated' \in {"OK", "WARN", "MRM", "ESTOP"}
  BY DEF SM!Evaluated
<1>4. QED
  BY <1>1, <1>2, <1>3 DEF SM!SafetyMsg, SM!SafetyMsgs

(***************************************************************************)
(* The types.                                                              *)
(***************************************************************************)
Typed == TypeOk /\ approved \in Topics(Listeners \intersect up, Contract)

LEMMA InitTyped == Init => Typed
<1> SUFFICES ASSUME Init PROVE Typed
  OBVIOUS
<1>1. SM!NodeTypeOk
  BY AgeCapAssumption DEF Init, SM!NodeInit, SM!NodeTypeOk, SM!Modes, SM!Ages, SM!Never
<1>2. Arb!NodeTypeOk
  <2>1. Arb!NoCandidate \in [vel : Offered \union {Arb!Zero}, age : Arb!Ages]
    BY DEF Arb!NoCandidate, Arb!Ages
  <2>2. QED
    BY <2>1 DEF Init, Arb!NodeInit, Arb!NodeTypeOk, Arb!Modes, Arb!SafetyStates
<1>3. Loc!NodeTypeOk
  BY DEF Init, Loc!NodeInit, Loc!NodeTypeOk, Loc!Modes, Loc!SafetyStates, Loc!Ages,
         Loc!LocomotionStates, Loc!Constraints
<1>4. {"arbiter", "locomotion"} \intersect up = {"arbiter", "locomotion"}
      /\ Listeners \intersect up = Listeners
  BY DEF Init, Nodes, Listeners
<1>5. safety \in Topics({"arbiter", "locomotion"} \intersect up, SM!SafetyMsgs)
  BY <1>4, SilentType DEF Init
<1>6. /\ approved \in Topics(Listeners \intersect up, Contract)
      /\ approved \in Topics(Listeners \intersect up, Arb!Commands)
  BY <1>4, SilentType DEF Init
<1>7. ticks \in [Nodes -> 0..TicksPerUnit] /\ up \subseteq Nodes
  BY PipelineAssumption DEF Init
<1>8. {haltAge, drivenFrom} \subseteq Ages
  BY AgeCapAssumption DEF Init, Ages
<1>9. QED
  BY <1>1, <1>2, <1>3, <1>5, <1>6, <1>7, <1>8 DEF Typed, TypeOk

\* What a step leaves alone keeps its type.
LEMMA UntouchedTyped ==
  ASSUME Typed
  PROVE  /\ UNCHANGED smNode => SM!NodeTypeOk'
         /\ UNCHANGED arbNode => Arb!NodeTypeOk'
         /\ UNCHANGED locNode => Loc!NodeTypeOk'
         /\ UNCHANGED <<safety, up>> =>
              safety' \in Topics({"arbiter", "locomotion"} \intersect up', SM!SafetyMsgs)
         /\ UNCHANGED <<approved, up>> =>
              approved' \in Topics(Listeners \intersect up', Contract)
BY DEF Typed, TypeOk, SM!NodeTypeOk, Arb!NodeTypeOk, Loc!NodeTypeOk, smNode, arbNode,
       locNode

\* A topic that holds the arbiter's contract holds commands.
LEMMA ContractTopic ==
  ASSUME NEW Subs, NEW topic \in Topics(Subs, Contract)
  PROVE  topic \in Topics(Subs, Arb!Commands)
<1>1. Seq(Contract) \subseteq Seq(Arb!Commands)
  BY ContractIsCommand
<1>2. QED
  BY <1>1 DEF Topics

\* The conjuncts that are left to show of a step.
LEMMA StepTyped ==
  ASSUME Typed, Observe,
         SM!NodeTypeOk', Arb!NodeTypeOk', Loc!NodeTypeOk',
         safety' \in Topics({"arbiter", "locomotion"} \intersect up', SM!SafetyMsgs),
         approved' \in Topics(Listeners \intersect up', Contract),
         up' \subseteq Nodes,
         ticks' \in [Nodes -> 0..TicksPerUnit],
         drivenFrom' \in Ages
  PROVE  Typed'
<1>1. haltAge' \in Ages
  BY AgeCapAssumption DEF Typed, TypeOk, Observe, Ages
<1>2. QED
  BY <1>1, ContractTopic DEF Typed, TypeOk

LEMMA CountTickTyped ==
  ASSUME Typed, NEW n \in Nodes, CountTick(n)
  PROVE  /\ up' = up /\ up' \subseteq Nodes
         /\ ticks' \in [Nodes -> 0..TicksPerUnit]
         /\ drivenFrom' = drivenFrom /\ drivenFrom' \in Ages
BY PipelineAssumption DEF Typed, TypeOk, CountTick

LEMMA ScheduleTyped ==
  ASSUME Typed, UNCHANGED schedule
  PROVE  up' = up /\ up' \subseteq Nodes /\ ticks' \in [Nodes -> 0..TicksPerUnit]
BY DEF Typed, TypeOk, schedule

LEMMA NextTyped == Typed /\ [Next]_vars => Typed'
<1> SUFFICES ASSUME Typed, [Next]_vars PROVE Typed'
  OBVIOUS
<1>a. /\ SM!NodeTypeOk /\ Arb!NodeTypeOk /\ Loc!NodeTypeOk
      /\ drivenFrom \in Ages
      /\ safety \in Topics({"arbiter", "locomotion"} \intersect up, SM!SafetyMsgs)
      /\ approved \in Topics(Listeners \intersect up, Contract)
  BY DEF Typed, TypeOk
<1>b. \A sample \in SM!SafetyMsgs : sample.state \in SafetyStates
  BY DEF SM!SafetyMsgs, SafetyStates
<1>1. ASSUME SafetyTick, Observe PROVE Typed'
  <2>1. SM!NodeTypeOk'
    BY <1>a, <1>1, SafetyNodeTyped DEF SafetyTick
  <2>2. /\ up' = up /\ up' \subseteq Nodes /\ ticks' \in [Nodes -> 0..TicksPerUnit]
        /\ drivenFrom' \in Ages
    BY <1>1, CountTickTyped DEF SafetyTick, Nodes
  <2>3. safety' \in Topics({"arbiter", "locomotion"} \intersect up', SM!SafetyMsgs)
    BY <1>a, <1>1, <2>1, <2>2, SafetySpeaks, SafetyMsgTyped DEF SafetyTick, SM!Tick
  <2>4. QED
    BY <1>1, <2>1, <2>2, <2>3, StepTyped, UntouchedTyped
       DEF SafetyTick, arbVars, locVars
<1>2. ASSUME ArbiterTick, Observe PROVE Typed'
  <2>1. Arb!NodeTypeOk'
    BY <1>a, <1>2, ArbiterNodeTyped DEF ArbiterTick
  <2>2. /\ up' = up /\ up' \subseteq Nodes /\ ticks' \in [Nodes -> 0..TicksPerUnit]
        /\ drivenFrom' \in Ages
    BY <1>2, CountTickTyped DEF ArbiterTick, Nodes
  <2>3. approved' \in Topics(Listeners \intersect up', Contract)
    BY <1>a, <1>2, <2>2, ArbiterSpeaks DEF ArbiterTick
  <2>4. QED
    BY <1>2, <2>1, <2>2, <2>3, StepTyped, UntouchedTyped
       DEF ArbiterTick, smVars, locVars
<1>3. ASSUME LocomotionTick, Observe PROVE Typed'
  <2>1. Loc!NodeTypeOk'
    BY <1>a, <1>3, LocomotionNodeTyped DEF LocomotionTick
  <2>2. /\ up' = up /\ up' \subseteq Nodes /\ ticks' \in [Nodes -> 0..TicksPerUnit]
        /\ drivenFrom' \in Ages
    BY <1>3, CountTickTyped DEF LocomotionTick, Nodes
  <2>3. QED
    BY <1>3, <2>1, <2>2, StepTyped, UntouchedTyped DEF LocomotionTick, smVars, arbVars
<1>4. ASSUME NEW vel \in Offered, OperatorTick(vel), Observe PROVE Typed'
  <2>1. Arb!NodeTypeOk'
    BY <1>a, <1>4, ArbiterNodeTyped, UntouchedTyped DEF OperatorTick, arbVars
  <2>2. SM!NodeTypeOk'
    BY <1>a, <1>4, SafetyNodeTyped, UntouchedTyped DEF OperatorTick, smVars
  <2>3. UNCHANGED <<safety, approved>>
    BY <1>4 DEF OperatorTick, arbVars, smVars, Arb!OnCandidate, Arb!topicVars,
                SM!OnTeleopHeartbeat, SM!topicVars
  <2>4. /\ up' = up /\ up' \subseteq Nodes /\ ticks' \in [Nodes -> 0..TicksPerUnit]
        /\ drivenFrom' \in Ages
    BY <1>4, CountTickTyped DEF OperatorTick, Nodes
  <2>5. QED
    BY <1>4, <2>1, <2>2, <2>3, <2>4, StepTyped, UntouchedTyped DEF OperatorTick, locVars
<1>5. ASSUME SafetyToArbiter, Observe PROVE Typed'
  <2>1. "arbiter" \in {"arbiter", "locomotion"} \intersect up /\ safety["arbiter"] # << >>
    BY <1>a, <1>5 DEF SafetyToArbiter, Awaits, Topics
  <2>2. /\ Head(safety["arbiter"]).state \in SafetyStates
        /\ Take(safety, "arbiter") \in
             Topics({"arbiter", "locomotion"} \intersect up, SM!SafetyMsgs)
    BY <1>a, <1>b, <2>1, TakeType
  <2>3. Arb!NodeTypeOk'
    BY <1>a, <1>5, <2>2, ArbiterNodeTyped DEF SafetyToArbiter
  <2>4. UNCHANGED <<smNode, locNode, schedule, drivenFrom, approved>>
    BY <1>5 DEF SafetyToArbiter, locVars, Arb!OnSafetyState, Arb!topicVars
  <2>5. safety' = Take(safety, "arbiter")
    BY <1>5 DEF SafetyToArbiter
  <2>6. QED
    BY <1>a, <1>5, <2>2, <2>3, <2>4, <2>5, StepTyped, UntouchedTyped, ScheduleTyped
<1>6. ASSUME SafetyToLocomotion, Observe PROVE Typed'
  <2>1. /\ "locomotion" \in {"arbiter", "locomotion"} \intersect up
        /\ safety["locomotion"] # << >>
    BY <1>a, <1>6 DEF SafetyToLocomotion, Awaits, Topics
  <2>2. /\ Head(safety["locomotion"]).state \in SafetyStates
        /\ Take(safety, "locomotion") \in
             Topics({"arbiter", "locomotion"} \intersect up, SM!SafetyMsgs)
    BY <1>a, <1>b, <2>1, TakeType
  <2>3. Loc!NodeTypeOk'
    BY <1>a, <1>6, <2>2, LocomotionNodeTyped DEF SafetyToLocomotion
  <2>4. UNCHANGED <<smNode, arbNode, schedule, drivenFrom, approved>>
    BY <1>6 DEF SafetyToLocomotion, arbVars
  <2>5. safety' = Take(safety, "locomotion")
    BY <1>6 DEF SafetyToLocomotion
  <2>6. QED
    BY <1>a, <1>6, <2>2, <2>3, <2>4, <2>5, StepTyped, UntouchedTyped, ScheduleTyped
<1>7. ASSUME ApprovedToLocomotion, Observe PROVE Typed'
  <2>1. "locomotion" \in Listeners \intersect up /\ approved["locomotion"] # << >>
    BY <1>a, <1>7 DEF ApprovedToLocomotion, Awaits, Topics
  <2>2. /\ Head(approved["locomotion"]) \in Contract
        /\ Take(approved, "locomotion") \in Topics(Listeners \intersect up, Contract)
    BY <1>a, <2>1, TakeType
  <2>3. Loc!NodeTypeOk'
    BY <1>a, <1>7, <2>2, LocomotionNodeTyped DEF ApprovedToLocomotion, Contract
  <2>4. UNCHANGED <<smNode, arbNode, schedule, safety>>
    BY <1>7 DEF ApprovedToLocomotion, smVars
  <2>5. approved' = Take(approved, "locomotion")
    BY <1>7 DEF ApprovedToLocomotion
  <2>6. drivenFrom' \in Ages
    <3>1. Head(approved["locomotion"]).age \in 0..ArbiterTimeout
      BY <2>2 DEF Contract
    <3>2. QED
      BY <1>7, <3>1, PipelineAssumption, AgeCapAssumption DEF ApprovedToLocomotion, Ages
  <2>7. QED
    BY <1>a, <1>7, <2>2, <2>3, <2>4, <2>5, <2>6, StepTyped, UntouchedTyped, ScheduleTyped
<1>8. ASSUME ApprovedToSafety, Observe PROVE Typed'
  <2>1. "safety_manager" \in Listeners \intersect up /\ approved["safety_manager"] # << >>
    BY <1>a, <1>8 DEF ApprovedToSafety, Awaits, Topics
  <2>2. Take(approved, "safety_manager") \in Topics(Listeners \intersect up, Contract)
    BY <1>a, <2>1, TakeType
  <2>3. SM!NodeTypeOk'
    BY <1>a, <1>8, SafetyNodeTyped DEF ApprovedToSafety
  <2>4. UNCHANGED <<arbNode, locNode, schedule, drivenFrom, safety>>
    BY <1>8 DEF ApprovedToSafety, locVars, SM!OnApprovedCommand, SM!topicVars
  <2>5. approved' = Take(approved, "safety_manager")
    BY <1>8 DEF ApprovedToSafety
  <2>6. QED
    BY <1>a, <1>8, <2>2, <2>3, <2>4, <2>5, StepTyped, UntouchedTyped, ScheduleTyped
<1>9. ASSUME NEW n \in Nodes, HearMode(n), Observe PROVE Typed'
  <2>1. SM!NodeTypeOk'
    BY <1>a, <1>9, SafetyNodeTyped, UntouchedTyped DEF HearMode, smVars
  <2>2. Arb!NodeTypeOk'
    BY <1>a, <1>9, ArbiterNodeTyped, UntouchedTyped DEF HearMode, arbVars
  <2>3. Loc!NodeTypeOk'
    BY <1>a, <1>9, LocomotionNodeTyped, UntouchedTyped DEF HearMode, locVars
  <2>4. UNCHANGED <<schedule, drivenFrom, safety, approved>>
    BY <1>9 DEF HearMode, arbVars, smVars, SM!OnModeState, SM!topicVars, Arb!OnModeState,
                Arb!topicVars
  <2>5. QED
    BY <1>a, <1>9, <2>1, <2>2, <2>3, <2>4, StepTyped, UntouchedTyped, ScheduleTyped
<1>10. ASSUME Console, Observe PROVE Typed'
  <2>1. SM!NodeTypeOk'
    BY <1>a, <1>10, SafetyNodeTyped DEF Console
  <2>2. UNCHANGED <<arbNode, locNode, schedule, drivenFrom, approved>>
    BY <1>10 DEF Console, arbVars, locVars
  <2>3. safety' \in Topics({"arbiter", "locomotion"} \intersect up, SM!SafetyMsgs)
    <3>1. UNCHANGED safety \/ SM!PublishState
      BY <1>10 DEF Console, SM!SetEstop, SM!SetParameterMrm, SM!TriggerMrm, SM!ClearMrm,
                   SM!topicVars
    <3>2. QED
      BY <1>a, <2>1, <3>1, SafetySpeaks, SafetyMsgTyped
  <2>4. QED
    BY <1>a, <1>10, <2>1, <2>2, <2>3, StepTyped, UntouchedTyped, ScheduleTyped
<1>11. ASSUME NEW n \in Nodes, Crash(n), Observe PROVE Typed'
  <2>1. SM!NodeTypeOk' /\ Arb!NodeTypeOk' /\ Loc!NodeTypeOk'
    BY <1>a, <1>11, SafetyNodeTyped, ArbiterNodeTyped, LocomotionNodeTyped, UntouchedTyped
       DEF Crash
  <2>2. up' = up \ {n} /\ up' \subseteq Nodes /\ ticks' \in [Nodes -> 0..TicksPerUnit]
    BY <1>11 DEF Crash, Typed, TypeOk
  <2>3. drivenFrom' \in Ages
    BY <1>a, <1>11, AgeCapAssumption DEF Crash, Ages
  <2>4. \A Subs : (Subs \intersect up) \ {n} = Subs \intersect up'
    BY <2>2
  <2>5. safety' \in Topics({"arbiter", "locomotion"} \intersect up', SM!SafetyMsgs)
    BY <1>a, <1>11, <2>4, LeaveType DEF Crash
  <2>6. approved' \in Topics(Listeners \intersect up', Contract)
    BY <1>a, <1>11, <2>4, LeaveType DEF Crash
  <2>7. QED
    BY <1>11, <2>1, <2>2, <2>3, <2>5, <2>6, StepTyped
<1>12. ASSUME NEW n \in Nodes, Recover(n), Observe PROVE Typed'
  <2>1. UNCHANGED <<smNode, arbNode, locNode, drivenFrom>>
    BY <1>12 DEF Recover, locVars
  <2>2. up' = up \union {n} /\ up' \subseteq Nodes /\ ticks' \in [Nodes -> 0..TicksPerUnit]
    BY <1>12 DEF Recover, Typed, TypeOk
  <2>3. \A Subs : /\ n \in Subs => (Subs \intersect up) \union {n} = Subs \intersect up'
                  /\ n \notin Subs => Subs \intersect up = Subs \intersect up'
    BY <2>2
  <2>4. safety' \in Topics({"arbiter", "locomotion"} \intersect up', SM!SafetyMsgs)
    <3> DEFINE Subs == {"arbiter", "locomotion"}
    <3>1. safety' = IF n \in Subs THEN Join(safety, n) ELSE safety
      BY <1>12 DEF Recover, Subscribe
    <3>2. Join(safety, n) \in Topics((Subs \intersect up) \union {n}, SM!SafetyMsgs)
      BY <1>a, JoinType
    <3> HIDE DEF Subs
    <3>3. safety \in Topics(Subs \intersect up, SM!SafetyMsgs)
      BY <1>a DEF Subs
    <3>4. safety' \in Topics(Subs \intersect up', SM!SafetyMsgs)
      BY <2>3, <3>1, <3>2, <3>3
    <3>5. QED
      BY <3>4 DEF Subs
  <2>5. approved' \in Topics(Listeners \intersect up', Contract)
    <3>1. approved' = IF n \in Listeners THEN Join(approved, n) ELSE approved
      BY <1>12 DEF Recover, Subscribe
    <3>2. Join(approved, n) \in Topics((Listeners \intersect up) \union {n}, Contract)
      BY <1>a, JoinType
    <3>3. QED
      BY <1>a, <2>3, <3>1, <3>2
  <2>6. QED
    BY <1>a, <1>12, <2>1, <2>2, <2>4, <2>5, StepTyped, UntouchedTyped
<1>13. CASE Advance
  <2>1. SM!NodeTypeOk' /\ Arb!NodeTypeOk' /\ Loc!NodeTypeOk'
    BY <1>a, <1>13, SafetyNodeTyped, ArbiterNodeTyped, LocomotionNodeTyped DEF Advance
  <2>2. UNCHANGED <<safety, approved, up, drivenFrom>>
    BY <1>13 DEF Advance, topics
  <2>3. ticks' \in [Nodes -> 0..TicksPerUnit]
    BY <1>13, PipelineAssumption DEF Advance
  <2>4. haltAge' \in Ages
    BY <1>13, OlderType DEF Advance, Typed, TypeOk
  <2>5. QED
    BY <2>1, <2>2, <2>3, <2>4 DEF Typed, TypeOk
<1>14. CASE UNCHANGED vars
  BY <1>14, UntouchedTyped
     DEF vars, smVars, arbVars, locVars, schedule, Typed, TypeOk
<1>15. QED
  BY <1>1, <1>2, <1>3, <1>4, <1>5, <1>6, <1>7, <1>8, <1>9, <1>10, <1>11, <1>12, <1>13,
     <1>14 DEF Next, Step

LEMMA AlwaysTyped == Spec => []Typed
BY InitTyped, NextTyped, PTL DEF Spec

\* Every node, topic and clock of the motion path keeps its type, whichever
\* nodes crash and come back.
THEOREM PipelineTyped == Spec => []TypeOk
BY AlwaysTyped, PTL DEF Typed

(***************************************************************************)
(* Freshness.  A robot that moves obeys a command that was within the      *)
(* arbiter's timeout when it was approved and, once the adapter's timer    *)
(* has run in this unit, within the adapter's timeout since.               *)
(***************************************************************************)
Down == "locomotion" \notin up => locSafety = "UNKNOWN" /\ velocity = Zero

Fresh ==
  velocity # Zero =>
    /\ drivenFrom \in 0..ArbiterTimeout
    /\ commandAge \in 0..(LocomotionTimeout + 1)
    /\ ticks["locomotion"] > 0 => commandAge <= LocomotionTimeout

\* A step that neither touches the adapter nor its timer.
LEMMA Bystander ==
  ASSUME Down, Fresh, UNCHANGED <<locNode, drivenFrom>>,
         "locomotion" \in up => "locomotion" \in up',
         ticks'["locomotion"] = ticks["locomotion"]
  PROVE  Down' /\ Fresh'
BY DEF Down, Fresh, locNode

\* A timer that runs is counted for its own node only.
LEMMA CountTickOthers ==
  ASSUME Typed, NEW n \in Nodes, CountTick(n)
  PROVE  /\ ticks'[n] > 0
         /\ \A other \in Nodes \ {n} : ticks'[other] = ticks[other]
         /\ up' = up /\ n \in up /\ drivenFrom' = drivenFrom
<1>1. ticks \in [Nodes -> 0..TicksPerUnit]
  BY DEF Typed, TypeOk
<1>2. ticks[n] \in Nat
  BY <1>1, PipelineAssumption
<1>3. QED
  BY <1>1, <1>2 DEF CountTick

\* The timer of the adapter stops a robot whose command has run out, and one
\* whose safety state does not allow motion.
LEMMA TickStops ==
  ASSUME Typed, Loc!Tick
  PROVE  /\ velocity' \in {Zero, velocity}
         /\ velocity' # Zero => commandAge = Never \/ commandAge <= LocomotionTimeout
         /\ locSafety \notin AllowedSafety => velocity' = Zero
         /\ UNCHANGED <<locMode, locSafety, commandAge>>
<1>1. UNCHANGED <<locMode, locSafety, commandAge>>
  BY DEF Loc!Tick
<1>2. locSafety \notin AllowedSafety => locSafety \in Loc!BlockingSafety \union {"UNKNOWN"}
  BY DEF Typed, TypeOk, Loc!NodeTypeOk, Loc!SafetyStates, AllowedSafety,
         Loc!BlockingSafety
<1>3. \A reason : Loc!BeginStop(reason) => velocity' = Zero
  BY DEF Loc!BeginStop, Loc!Zero, Zero
<1>4. velocity' = Zero \/ UNCHANGED velocity
  BY <1>3 DEF Loc!Tick, Loc!UpdateStateForRuntime
<1>5. ASSUME velocity' # Zero
      PROVE  /\ locSafety \in AllowedSafety
             /\ commandAge = Loc!Never \/ ~Loc!Expired(commandAge, LocomotionTimeout)
  BY <1>2, <1>3, <1>5 DEF Loc!Tick, Loc!UpdateStateForRuntime
<1>6. commandAge \in Loc!Ages
  BY DEF Typed, TypeOk, Loc!NodeTypeOk
<1>7. ASSUME velocity' # Zero PROVE commandAge = Never \/ commandAge <= LocomotionTimeout
  BY <1>5, <1>6, <1>7, PipelineAssumption, AgeCapAssumption
     DEF Loc!Expired, Loc!Never, Never, Loc!Ages
<1>8. QED
  BY <1>1, <1>4, <1>5, <1>7

\* An approved command moves the robot only under an allowed safety state, and
\* makes its own age the one that counts.
LEMMA CommandMoves ==
  ASSUME NEW vel, Loc!OnApprovedCommand(vel)
  PROVE  /\ commandAge' = 0
         /\ UNCHANGED <<locMode, locSafety>>
         /\ velocity' # Zero => locSafety \in AllowedSafety
<1>1. velocity' # Zero => ~Loc!OutputBlocked
  BY DEF Loc!OnApprovedCommand, Loc!BeginStop, Loc!Zero, Zero
<1>2. QED
  BY <1>1 DEF Loc!OnApprovedCommand, Loc!OutputBlocked, Loc!AllowedSafety, AllowedSafety

LEMMA InitFresh == Init => Down /\ Fresh
BY DEF Init, Loc!NodeInit, Loc!Zero, Zero, Down, Fresh, Nodes

LEMMA NextFresh == Typed /\ Typed' /\ Down /\ Fresh /\ [Next]_vars => Down' /\ Fresh'
<1> SUFFICES ASSUME Typed, Typed', Down, Fresh, [Next]_vars PROVE Down' /\ Fresh'
  OBVIOUS
<1>a. ticks \in [Nodes -> 0..TicksPerUnit] /\ "locomotion" \in Nodes
  BY DEF Typed, TypeOk, Nodes
<1>1. CASE SafetyTick \/ ArbiterTick \/ \E vel \in Offered : OperatorTick(vel)
  <2>1. PICK n \in Nodes \ {"locomotion"} : CountTick(n)
    BY <1>1 DEF SafetyTick, ArbiterTick, OperatorTick, Nodes
  <2>2. UNCHANGED locNode
    BY <1>1 DEF SafetyTick, ArbiterTick, OperatorTick, locVars
  <2>3. QED
    BY <1>a, <2>1, <2>2, CountTickOthers, Bystander
<1>2. CASE LocomotionTick
  <2>1. Loc!Tick /\ CountTick("locomotion")
    BY <1>2 DEF LocomotionTick
  <2>2. Down'
    BY <1>a, <2>1, CountTickOthers DEF Down
  <2>3. Fresh'
    <3> SUFFICES ASSUME velocity' # Zero PROVE Fresh'
      BY DEF Fresh
    <3>1. UNCHANGED <<velocity, commandAge, drivenFrom>>
      BY <1>a, <2>1, TickStops, CountTickOthers
    <3>2. commandAge <= LocomotionTimeout
      BY <2>1, <3>1, TickStops DEF Fresh, Never
    <3>3. QED
      BY <3>1, <3>2, PipelineAssumption DEF Fresh
  <2>4. QED
    BY <2>2, <2>3
<1>3. CASE SafetyToArbiter \/ ApprovedToSafety \/ Console
  BY <1>3, Bystander
     DEF SafetyToArbiter, ApprovedToSafety, Console, schedule, locVars
<1>4. CASE SafetyToLocomotion
  <2>1. "locomotion" \in up
    BY <1>4 DEF SafetyToLocomotion, Awaits, Typed, TypeOk, Topics
  <2>2. UNCHANGED <<velocity, commandAge, drivenFrom, up, ticks>>
    BY <1>4 DEF SafetyToLocomotion, Loc!OnSafetyState, schedule
  <2>3. QED
    BY <2>1, <2>2 DEF Down, Fresh
<1>5. CASE ApprovedToLocomotion
  <2>1. "locomotion" \in Listeners \intersect up /\ approved["locomotion"] # << >>
    BY <1>5 DEF ApprovedToLocomotion, Awaits, Typed, TypeOk, Topics
  <2>2. Head(approved["locomotion"]) \in Contract
    BY <2>1, TakeType DEF Typed
  <2>3. Loc!OnApprovedCommand(Head(approved["locomotion"]).vel) /\ UNCHANGED <<up, ticks>>
    BY <1>5 DEF ApprovedToLocomotion, schedule
  <2>4. velocity' # Zero => drivenFrom' \in 0..ArbiterTimeout
    BY <1>5, <2>2 DEF ApprovedToLocomotion, Contract
  <2>5. Fresh'
    BY <2>3, <2>4, CommandMoves, PipelineAssumption DEF Fresh
  <2>6. QED
    BY <2>1, <2>3, <2>5 DEF Down
<1>6. ASSUME NEW n \in Nodes, HearMode(n)
      PROVE  Down' /\ Fresh'
  <2>1. UNCHANGED <<velocity, commandAge, locSafety, drivenFrom, up, ticks>>
    BY <1>6 DEF HearMode, Loc!OnModeState, schedule, locVars, locNode
  <2>2. QED
    BY <2>1 DEF Down, Fresh
<1>7. ASSUME NEW n \in Nodes, Crash(n)
      PROVE  Down' /\ Fresh'
  <2>1. CASE n = "locomotion"
    <3>1. velocity' = Zero /\ locSafety' = "UNKNOWN"
      BY <1>7, <2>1 DEF Crash, Loc!Restart, Loc!Zero, Zero
    <3>2. QED
      BY <3>1 DEF Down, Fresh
  <2>2. CASE n # "locomotion"
    BY <1>7, <2>2, Bystander DEF Crash
  <2>3. QED
    BY <2>1, <2>2
<1>8. ASSUME NEW n \in Nodes, Recover(n)
      PROVE  Down' /\ Fresh'
  BY <1>8, Bystander DEF Recover, locVars
<1>9. CASE Advance
  <2>1. /\ UNCHANGED <<velocity, locSafety, up, drivenFrom>>
        /\ commandAge' = Older(commandAge)
        /\ ticks'["locomotion"] = 0
    BY <1>9, <1>a, SameRuntime DEF Advance, Loc!Age
  <2>2. ASSUME velocity # Zero PROVE commandAge' \in 0..(LocomotionTimeout + 1)
    <3>1. commandAge \in 0..LocomotionTimeout
      BY <1>9, <2>2, PipelineAssumption DEF Advance, Down, Fresh
    <3>2. QED
      BY <2>1, <3>1, PipelineAssumption, AgeCapAssumption DEF Older, Never
  <2>3. QED
    BY <2>1, <2>2 DEF Down, Fresh
<1>10. CASE UNCHANGED vars
  BY <1>10, Bystander DEF vars, locVars, schedule
<1>11. QED
  BY <1>1, <1>2, <1>3, <1>4, <1>5, <1>6, <1>7, <1>8, <1>9, <1>10 DEF Next, Step

LEMMA AlwaysFresh == Spec => [](Typed /\ Down /\ Fresh)
BY InitFresh, NextFresh, AlwaysTyped, PTL DEF Spec

\* However many nodes fall silent, crash and come back, the robot never moves
\* on a command that its source issued longer ago than the arbiter's and the
\* adapter's timeouts and one unit together.
THEOREM CommandsStayFresh == Spec => []FreshnessBound
<1>1. Fresh => FreshnessBound
  BY PipelineAssumption DEF Fresh, FreshnessBound
<1>2. QED
  BY <1>1, AlwaysFresh, PTL

(***************************************************************************)
(* The halt.  An order to halt travels one hop in each unit: in the first  *)
(* whole unit after it every safety state that is published says so, in    *)
(* the second the adapter has heard it, in the third its timer has stopped *)
(* the robot.                                                              *)
(***************************************************************************)
HaltMsgs == {sample \in SM!SafetyMsgs : sample.state \in BlockingSafety}

SafetySubs == {"arbiter", "locomotion"}

Held == locSafety \notin AllowedSafety

Told == haltAge >= 0 => Halting

Announced == haltAge >= 1 => safety \in Topics(SafetySubs \intersect up, HaltMsgs)

OnItsWay ==
  haltAge >= 1 /\ ticks["safety_manager"] > 0 => Held \/ Awaits(safety, "locomotion")

Heard == haltAge >= 2 => Held

Halted == haltAge >= 3 \/ (haltAge = 2 /\ ticks["locomotion"] > 0) => velocity = Zero

HaltInv == Told /\ Announced /\ OnItsWay /\ Heard /\ Halted

\* While it is told to halt the robot, whatever the safety manager publishes
\* says so.
LEMMA HaltIsAnnounced ==
  ASSUME SM!NodeTypeOk', estop' \/ parameterMrm' \/ serviceMrm'
  PROVE  SM!SafetyMsg' \in HaltMsgs
<1>1. SM!SafetyMsg' \in SM!SafetyMsgs
  BY SafetyMsgTyped
<1>2. SM!SafetyMsg'.state = SM!Evaluated'
  BY DEF SM!SafetyMsg
<1>3. SM!Evaluated' \in {"ESTOP", "MRM"}
  BY DEF SM!Evaluated, SM!MrmActive
<1>4. QED
  BY <1>1, <1>2, <1>3 DEF HaltMsgs, BlockingSafety

\* The clock of the halt runs on during a step only if the halt is in force
\* before and after it.
LEMMA HaltClock ==
  ASSUME Typed, Told, Observe
  PROVE  /\ Told'
         /\ haltAge' >= 1 => /\ haltAge' = haltAge /\ Halting /\ Halting'
                             /\ "safety_manager" \in up /\ "safety_manager" \in up'
BY AgeCapAssumption DEF Typed, TypeOk, Ages, Observe, Told, Halting, Never

\* A step during which the clock of the halt does not run.
LEMMA NoHalt ==
  ASSUME Told', ~(haltAge' >= 1), haltAge' \in Ages
  PROVE  HaltInv'
BY AgeCapAssumption DEF HaltInv, Announced, OnItsWay, Heard, Halted, Ages, Never

LEMMA InitHalt == Init => HaltInv
BY DEF Init, HaltInv, Told, Announced, OnItsWay, Heard, Halted, Never

\* A step that touches neither what the adapter knows nor its velocity, nor the
\* two timers the order depends on, and takes no sample from the adapter.
LEMMA HaltBystander ==
  ASSUME HaltInv, Told', Announced', haltAge' = haltAge,
         UNCHANGED <<locSafety, velocity>>,
         ticks'["safety_manager"] = ticks["safety_manager"],
         ticks'["locomotion"] = ticks["locomotion"],
         Awaits(safety, "locomotion") => Awaits(safety', "locomotion")
  PROVE  HaltInv'
BY DEF HaltInv, OnItsWay, Heard, Halted, Held, Awaits

\* A step that publishes the safety state while the halt is in force.
LEMMA HaltPublished ==
  ASSUME Typed, Typed', Down, HaltInv, Told', haltAge' = haltAge, haltAge >= 1, Halting',
         SM!PublishState, UNCHANGED <<locNode, up>>,
         ticks'["locomotion"] = ticks["locomotion"]
  PROVE  HaltInv'
<1>1. SM!SafetyMsg' \in HaltMsgs
  BY HaltIsAnnounced DEF Typed, TypeOk, Halting
<1>2. safety \in Topics(SafetySubs \intersect up, HaltMsgs)
  BY DEF HaltInv, Announced
<1>3. /\ safety' \in Topics(SafetySubs \intersect up, HaltMsgs)
      /\ \A sub \in SafetySubs \intersect up : safety'[sub] # << >>
  BY <1>1, <1>2, SafetySpeaks
<1>4. UNCHANGED <<locSafety, velocity>>
  BY DEF locNode
<1>5. Announced'
  BY <1>3 DEF Announced
<1>6. OnItsWay'
  <2>1. CASE "locomotion" \in up
    <3>1. "locomotion" \in DOMAIN safety' /\ safety'["locomotion"] # << >>
      BY <1>3, <2>1 DEF Topics, SafetySubs
    <3>2. QED
      BY <3>1 DEF OnItsWay, Awaits
  <2>2. CASE "locomotion" \notin up
    BY <1>4, <2>2 DEF OnItsWay, Held, Down, AllowedSafety
  <2>3. QED
    BY <2>1, <2>2
<1>7. Heard' /\ Halted'
  BY <1>4 DEF HaltInv, Heard, Halted, Held
<1>8. QED
  BY <1>5, <1>6, <1>7 DEF HaltInv

LEMMA NextHalt ==
  Typed /\ Typed' /\ Down /\ Down' /\ HaltInv /\ [Next]_vars => HaltInv'
<1> SUFFICES ASSUME Typed, Typed', Down, Down', HaltInv, [Next]_vars PROVE HaltInv'
  OBVIOUS
<1>a. /\ ticks \in [Nodes -> 0..TicksPerUnit] /\ up \subseteq Nodes
      /\ haltAge \in Ages /\ haltAge' \in Ages
      /\ {"safety_manager", "locomotion"} \subseteq Nodes
  BY DEF Typed, TypeOk, Nodes
<1>b. Told
  BY DEF HaltInv
<1>1. ASSUME Step, Observe PROVE HaltInv'
  <2>a. Told'
    BY <1>1, <1>b, HaltClock
  <2> SUFFICES ASSUME haltAge' >= 1 PROVE HaltInv'
    BY <1>a, <2>a, NoHalt
  <2>b. /\ haltAge' = haltAge /\ haltAge >= 1 /\ Halting /\ Halting'
        /\ "safety_manager" \in up /\ "safety_manager" \in up'
    BY <1>1, <1>b, HaltClock
  <2>c. /\ safety \in Topics(SafetySubs \intersect up, HaltMsgs)
        /\ DOMAIN safety = SafetySubs \intersect up
    BY <2>b DEF HaltInv, Announced, Topics
  <2>d. UNCHANGED <<safety, up>> => Announced'
    BY <2>c DEF Announced
  <2>1. CASE SafetyTick
    BY <1>a, <2>a, <2>b, <2>1, CountTickOthers, HaltPublished
       DEF SafetyTick, SM!Tick, locVars
  <2>2. CASE ArbiterTick \/ \E vel \in Offered : OperatorTick(vel)
    <3>1. PICK n \in Nodes \ {"safety_manager", "locomotion"} : CountTick(n)
      BY <2>2 DEF ArbiterTick, OperatorTick, Nodes
    <3>2. UNCHANGED <<locSafety, velocity, safety>>
      BY <2>2 DEF ArbiterTick, OperatorTick, smVars, locVars, locNode,
                  SM!OnTeleopHeartbeat, SM!topicVars
    <3>3. QED
      BY <1>a, <2>a, <2>b, <2>d, <3>1, <3>2, CountTickOthers, HaltBystander
  <2>3. CASE LocomotionTick
    <3>1. Loc!Tick /\ CountTick("locomotion") /\ UNCHANGED safety
      BY <2>3 DEF LocomotionTick, smVars
    <3>2. UNCHANGED <<up, locSafety>> /\ ticks'["safety_manager"] = ticks["safety_manager"]
      BY <1>a, <3>1, CountTickOthers, TickStops
    <3>3. Announced'
      BY <2>d, <3>1, <3>2
    <3>4. OnItsWay' /\ Heard'
      BY <2>b, <3>1, <3>2 DEF HaltInv, OnItsWay, Heard, Held, Awaits
    <3>5. Halted'
      BY <2>b, <3>1, TickStops DEF HaltInv, Heard, Held, Halted
    <3>6. QED
      BY <2>a, <3>3, <3>4, <3>5 DEF HaltInv
  <2>4. CASE SafetyToArbiter
    <3>1. /\ "arbiter" \in SafetySubs \intersect up /\ safety["arbiter"] # << >>
          /\ safety' = Take(safety, "arbiter") /\ UNCHANGED <<locNode, schedule>>
      BY <2>4, <2>c DEF SafetyToArbiter, Awaits, locVars
    <3>2. /\ safety' \in Topics(SafetySubs \intersect up, HaltMsgs)
          /\ \A other \in (SafetySubs \intersect up) \ {"arbiter"} :
               safety'[other] = safety[other]
      BY <2>c, <3>1, TakeType
    <3>3. Announced'
      BY <3>1, <3>2 DEF Announced, schedule
    <3>4. Awaits(safety, "locomotion") => Awaits(safety', "locomotion")
      BY <2>c, <3>2 DEF Awaits, Topics
    <3>5. QED
      BY <2>a, <2>b, <3>1, <3>3, <3>4, HaltBystander DEF schedule, locNode
  <2>5. CASE SafetyToLocomotion
    <3>1. /\ "locomotion" \in SafetySubs \intersect up /\ safety["locomotion"] # << >>
          /\ safety' = Take(safety, "locomotion") /\ UNCHANGED <<velocity, schedule>>
          /\ locSafety' = Head(safety["locomotion"]).state
      BY <2>5, <2>c DEF SafetyToLocomotion, Awaits, Loc!OnSafetyState
    <3>2. /\ safety' \in Topics(SafetySubs \intersect up, HaltMsgs)
          /\ Head(safety["locomotion"]) \in HaltMsgs
      BY <2>c, <3>1, TakeType
    <3>3. Announced'
      BY <3>1, <3>2 DEF Announced, schedule
    <3>4. Held'
      BY <3>1, <3>2 DEF Held, HaltMsgs, BlockingSafety, AllowedSafety
    <3>5. Halted'
      BY <2>b, <3>1 DEF HaltInv, Halted, schedule
    <3>6. QED
      BY <2>a, <3>3, <3>4, <3>5 DEF HaltInv, OnItsWay, Heard
  <2>6. CASE ApprovedToLocomotion
    <3>1. /\ Loc!OnApprovedCommand(Head(approved["locomotion"]).vel)
          /\ UNCHANGED <<safety, up, ticks>>
      BY <2>6 DEF ApprovedToLocomotion, smVars, schedule
    <3>2. UNCHANGED locSafety /\ (Held => velocity' = Zero)
      BY <3>1, CommandMoves DEF Held
    <3>3. Announced'
      BY <2>d, <3>1
    <3>4. OnItsWay' /\ Heard'
      BY <2>b, <3>1, <3>2 DEF HaltInv, OnItsWay, Heard, Held, Awaits
    <3>5. Halted'
      <4>1. CASE haltAge >= 2
        BY <3>2, <4>1 DEF HaltInv, Heard, Halted
      <4>2. CASE ~(haltAge >= 2)
        BY <1>a, <2>b, <4>2 DEF Halted, Ages, Never
      <4>3. QED
        BY <4>1, <4>2
    <3>6. QED
      BY <2>a, <3>3, <3>4, <3>5 DEF HaltInv
  <2>7. CASE ApprovedToSafety
    <3>1. UNCHANGED <<locSafety, velocity, safety, schedule>>
      BY <2>7 DEF ApprovedToSafety, SM!OnApprovedCommand, SM!topicVars, locVars, locNode
    <3>2. QED
      BY <2>a, <2>b, <2>d, <3>1, HaltBystander DEF schedule
  <2>8. CASE \E n \in Nodes : HearMode(n)
    <3>1. UNCHANGED <<locSafety, velocity, safety, schedule>>
      BY <2>8 DEF HearMode, Loc!OnModeState, SM!OnModeState, SM!topicVars, smVars, locVars,
                  locNode
    <3>2. QED
      BY <2>a, <2>b, <2>d, <3>1, HaltBystander DEF schedule
  <2>9. CASE Console
    <3>1. UNCHANGED <<locNode, schedule>>
      BY <2>9 DEF Console, locVars
    <3>2. CASE SM!PublishState
      BY <2>a, <2>b, <3>1, <3>2, HaltPublished DEF schedule
    <3>3. CASE UNCHANGED safety
      BY <2>a, <2>b, <2>d, <3>1, <3>3, HaltBystander DEF schedule, locNode
    <3>4. QED
      BY <2>9, <3>2, <3>3
         DEF Console, SM!SetEstop, SM!SetParameterMrm, SM!TriggerMrm, SM!ClearMrm,
             SM!topicVars
  <2>10. ASSUME NEW n \in Nodes, Crash(n) PROVE HaltInv'
    <3>1. /\ up' = up \ {n} /\ UNCHANGED ticks /\ safety' = Leave(safety, n)
      BY <2>10 DEF Crash
    <3>2. /\ safety' \in Topics((SafetySubs \intersect up) \ {n}, HaltMsgs)
          /\ \A other \in (SafetySubs \intersect up) \ {n} : safety'[other] = safety[other]
      BY <2>c, <3>1, LeaveType
    <3>3. (SafetySubs \intersect up) \ {n} = SafetySubs \intersect up'
      BY <3>1
    <3>4. Announced'
      BY <3>2, <3>3 DEF Announced
    <3>5. CASE n = "locomotion"
      <4>1. locSafety' = "UNKNOWN" /\ velocity' = Zero
        BY <3>1, <3>5 DEF Down
      <4>2. QED
        BY <2>a, <3>4, <4>1
           DEF HaltInv, OnItsWay, Heard, Halted, Held, AllowedSafety
    <3>6. CASE n # "locomotion"
      <4>1. UNCHANGED <<locSafety, velocity>>
        BY <2>10, <3>6 DEF Crash, locNode
      <4>2. Awaits(safety, "locomotion") => Awaits(safety', "locomotion")
        BY <2>c, <3>2, <3>6 DEF Awaits, Topics
      <4>3. QED
        BY <2>a, <2>b, <3>1, <3>4, <4>1, <4>2, HaltBystander
    <3>7. QED
      BY <3>5, <3>6
  <2>11. ASSUME NEW n \in Nodes, Recover(n) PROVE HaltInv'
    <3>1. /\ up' = up \union {n} /\ n \notin up /\ UNCHANGED <<ticks, locSafety, velocity>>
          /\ safety' = IF n \in SafetySubs THEN Join(safety, n) ELSE safety
      BY <2>11 DEF Recover, Subscribe, SafetySubs, locVars, locNode
    <3>2. /\ Join(safety, n) \in Topics((SafetySubs \intersect up) \union {n}, HaltMsgs)
          /\ \A other \in (SafetySubs \intersect up) \ {n} :
               Join(safety, n)[other] = safety[other]
      <4>1. Join(safety, n) \in Topics((SafetySubs \intersect up) \union {n}, HaltMsgs)
        BY <2>c, JoinType
      <4>2. \A other \in (SafetySubs \intersect up) \ {n} :
              Join(safety, n)[other] = safety[other]
        BY <2>c DEF Join
      <4>3. QED
        BY <4>1, <4>2
    <3>3. Announced'
      <4>1. CASE n \in SafetySubs
        <5>1. (SafetySubs \intersect up) \union {n} = SafetySubs \intersect up'
          BY <3>1, <4>1
        <5>2. QED
          BY <3>1, <3>2, <4>1, <5>1 DEF Announced
      <4>2. CASE n \notin SafetySubs
        <5>1. SafetySubs \intersect up = SafetySubs \intersect up'
          BY <3>1, <4>2
        <5>2. QED
          BY <2>c, <3>1, <4>2, <5>1 DEF Announced
      <4>3. QED
        BY <4>1, <4>2
    <3>4. Awaits(safety, "locomotion") => Awaits(safety', "locomotion")
      BY <2>c, <3>1, <3>2 DEF Awaits, Topics
    <3>5. QED
      BY <2>a, <2>b, <3>1, <3>3, <3>4, HaltBystander
  <2>12. QED
    BY <1>1, <2>1, <2>2, <2>3, <2>4, <2>5, <2>6, <2>7, <2>8, <2>9, <2>10, <2>11 DEF Step
<1>2. CASE Advance
  <2>1. /\ UNCHANGED <<estop, parameterMrm, serviceMrm, up, safety, locSafety, velocity>>
        /\ haltAge' = Older(haltAge)
        /\ \A n \in up : ticks[n] > 0
        /\ \A n \in Nodes : ticks'[n] = 0
        /\ Delivered(safety)
    BY <1>2 DEF Advance, SM!Age, Loc!Age, topics
  <2>2. /\ haltAge' >= 0 => haltAge >= 0
        /\ haltAge' >= 2 => haltAge >= 1
        /\ haltAge' >= 3 => haltAge >= 2
    BY <1>a, <2>1, AgeCapAssumption DEF Older, Never, Ages
  <2>3. Told'
    BY <1>b, <2>1, <2>2 DEF Told, Halting
  <2>4. Announced'
    <3>1. safety = [sub \in SafetySubs \intersect up |-> << >>]
      BY <2>1 DEF Delivered, Typed, TypeOk, Topics, SafetySubs
    <3>2. << >> \in Seq(HaltMsgs)
      OBVIOUS
    <3>3. QED
      BY <2>1, <3>1, <3>2 DEF Announced, Topics
  <2>5. OnItsWay'
    BY <1>a, <2>1 DEF OnItsWay
  <2>6. Heard'
    <3> SUFFICES ASSUME haltAge >= 1 PROVE Held
      BY <2>1, <2>2 DEF Heard, Held
    <3>1. "safety_manager" \in up
      BY <1>a, <1>b DEF Told, Halting, Ages, Never
    <3>2. Held \/ Awaits(safety, "locomotion")
      BY <2>1, <3>1 DEF HaltInv, OnItsWay
    <3>3. QED
      BY <2>1, <3>2 DEF Delivered, Awaits
  <2>7. Halted'
    <3>1. ASSUME haltAge >= 2 PROVE velocity = Zero
      <4>1. haltAge = 2 \/ haltAge >= 3
        BY <1>a, <3>1 DEF Ages, Never
      <4>2. QED
        BY <2>1, <4>1 DEF HaltInv, Halted, Down
    <3>2. QED
      BY <1>a, <2>1, <2>2, <3>1 DEF Halted
  <2>8. QED
    BY <2>3, <2>4, <2>5, <2>6, <2>7 DEF HaltInv
<1>3. CASE UNCHANGED vars
  <2>1. UNCHANGED <<estop, parameterMrm, serviceMrm, up, ticks, safety, locSafety, velocity,
                    haltAge>>
    BY <1>3 DEF vars, smVars, smNode, locVars, locNode, schedule
  <2>2. QED
    BY <2>1 DEF HaltInv, Told, Halting, Announced, OnItsWay, Heard, Halted, Held, Awaits
<1>4. QED
  BY <1>1, <1>2, <1>3 DEF Next

LEMMA AlwaysHalt == Spec => []HaltInv
BY InitHalt, NextHalt, AlwaysFresh, PTL DEF Spec

\* An E-stop, a configured or a triggered MRM that the safety manager keeps
\* hearing brings the robot to rest within HaltBound units and keeps it at
\* rest, whatever was in flight and whichever other nodes die and come back.
THEOREM HaltsInTime == Spec => []StopBound
<1>1. HaltInv => StopBound
  BY DEF HaltInv, Halted, StopBound, HaltBound
<1>2. QED
  BY <1>1, AlwaysHalt, PTL

(***************************************************************************)
(* The promise of the halt path (Interlock).                               *)
(***************************************************************************)
\* A halt that is asked for has an age.
Counted == Halting => haltAge >= 0

\* The clock of the halt runs whenever a halt is asked for.
LEMMA AlwaysCounted == Spec => []Counted
<1>1. Init => Counted
  BY DEF Init, SM!NodeInit, Counted, Halting
<1>2. Typed /\ Counted /\ [Next]_vars => Counted'
  <2> SUFFICES ASSUME Typed, Counted, [Next]_vars PROVE Counted'
    OBVIOUS
  <2>1. CASE Step /\ Observe
    BY <2>1 DEF Observe, Counted
  <2>2. CASE Advance
    <3>1. /\ UNCHANGED <<estop, parameterMrm, serviceMrm, up>>
          /\ haltAge' = Older(haltAge)
      BY <2>2 DEF Advance, SM!Age
    <3>2. haltAge >= 0 => haltAge' >= 0
      BY <3>1, AgeCapAssumption DEF Typed, TypeOk, Ages, Older, Never
    <3>3. QED
      BY <3>1, <3>2 DEF Counted, Halting
  <2>3. CASE UNCHANGED vars
    BY <2>3 DEF vars, smVars, smNode, schedule, Counted, Halting
  <2>4. QED
    BY <2>1, <2>2, <2>3 DEF Next
<1>3. QED
  BY <1>1, <1>2, AlwaysTyped, PTL DEF Spec

\* A step that changes the velocity neither gives nor takes back an order, and
\* starts a motion only with a safety state that allows it.
LEMMA MotionChanges ==
  ASSUME Typed, Step, velocity' # velocity
  PROVE  /\ Halting' = Halting
         /\ velocity' # Zero => ~Held
<1>1. CASE SafetyTick \/ ArbiterTick \/ (\E vel \in Offered : OperatorTick(vel))
             \/ SafetyToArbiter \/ SafetyToLocomotion \/ ApprovedToSafety \/ Console
  BY <1>1 DEF SafetyTick, ArbiterTick, OperatorTick, SafetyToArbiter, SafetyToLocomotion,
              ApprovedToSafety, Console, Loc!OnSafetyState, locVars, locNode
<1>2. CASE LocomotionTick
  <2>1. Loc!Tick /\ UNCHANGED <<smNode, up>>
    BY <1>2 DEF LocomotionTick, CountTick, smVars
  <2>2. velocity' = Zero
    BY <2>1, TickStops
  <2>3. QED
    BY <2>1, <2>2 DEF smNode, Halting
<1>3. CASE ApprovedToLocomotion
  <2>1. /\ Loc!OnApprovedCommand(Head(approved["locomotion"]).vel)
        /\ UNCHANGED <<smNode, up>>
    BY <1>3 DEF ApprovedToLocomotion, smVars, schedule
  <2>2. QED
    BY <2>1, CommandMoves DEF smNode, Halting, Held
<1>4. CASE \E n \in Nodes : HearMode(n)
  BY <1>4 DEF HearMode, Loc!OnModeState, locVars, locNode
<1>5. ASSUME NEW n \in Nodes, Crash(n) \/ Recover(n)
      PROVE  Halting' = Halting /\ velocity' = Zero
  <2>1. Crash(n) /\ n = "locomotion"
    BY <1>5 DEF Crash, Recover, locVars, locNode
  <2>2. velocity' = Zero
    BY <2>1 DEF Crash, Loc!Restart, Loc!Zero, Zero
  <2>3. UNCHANGED smNode /\ up' = up \ {"locomotion"}
    BY <2>1 DEF Crash
  <2>4. QED
    BY <2>2, <2>3 DEF smNode, Halting
<1>6. QED
  BY <1>1, <1>2, <1>3, <1>4, <1>5 DEF Step

\* Every step is one that the promise allows, or changes neither the motion nor
\* the order.
LEMMA InterlockSteps ==
  ASSUME HaltBound <= AgeCap, Typed, Typed', HaltInv, HaltInv', Counted, [Next]_vars
  PROVE  [Promise!Next]_<<IF haltAge > HaltBound THEN HaltBound ELSE haltAge, velocity>>
<1> DEFINE asked == IF haltAge > HaltBound THEN HaltBound ELSE haltAge
<1>1. /\ AgeCap \in Nat /\ HaltBound = 3 /\ Promise!Never = -1 /\ Never = -1
      /\ haltAge \in -1..AgeCap /\ haltAge' \in -1..AgeCap
  BY AgeCapAssumption DEF HaltBound, Promise!Never, Never, Typed, TypeOk, Ages
<1>2. haltAge = Never <=> ~Halting
  BY <1>1 DEF HaltInv, Told, Counted
<1>3. CASE Step /\ Observe /\ UNCHANGED velocity
  <2>1. haltAge' = Never \/ (haltAge = Never /\ haltAge' = 0) \/ haltAge' = haltAge
    BY <1>2, <1>3 DEF Observe
  <2>2. CASE haltAge' = Never
    BY <1>1, <1>3, <2>2 DEF Promise!Next, Promise!Withdraw
  <2>3. CASE haltAge = Never /\ haltAge' = 0
    BY <1>1, <1>3, <2>3 DEF Promise!Next, Promise!Order
  <2>4. CASE haltAge' = haltAge
    BY <1>3, <2>4
  <2>5. QED
    BY <2>1, <2>2, <2>3, <2>4
<1>4. CASE Step /\ Observe /\ velocity' # velocity
  <2>1. haltAge' = haltAge
    BY <1>2, <1>4, MotionChanges DEF Observe
  <2>2. CASE velocity' = Zero
    BY <1>4, <2>1, <2>2 DEF Promise!Next, Promise!Rest
  <2>3. CASE velocity' # Zero
    <3>1. haltAge < 2
      BY <1>1, <1>4, <2>3, MotionChanges DEF HaltInv, Heard
    <3>2. QED
      BY <1>1, <2>1, <2>3, <3>1 DEF Promise!Next, Promise!Move
  <2>4. QED
    BY <2>2, <2>3
<1>5. CASE Advance
  <2>1. UNCHANGED velocity /\ haltAge' = Older(haltAge)
    BY <1>5 DEF Advance, Loc!Age
  <2>2. asked' = IF asked = -1 THEN -1 ELSE IF asked < 3 THEN asked + 1 ELSE 3
    BY <1>1, <2>1 DEF Older
  <2>3. velocity # Zero => asked' < 3
    BY <1>1, <2>1 DEF HaltInv, Halted
  <2>4. Promise!Wait
    BY <1>1, <2>1, <2>2, <2>3 DEF Promise!Wait
  <2>5. QED
    BY <2>4 DEF Promise!Next
<1>6. CASE UNCHANGED vars
  BY <1>6 DEF vars, locVars, locNode
<1>7. QED
  BY <1>3, <1>4, <1>5, <1>6 DEF Next

\* The motion path implements the interlock: an order to halt gets through in
\* HaltBound units, no command moves the robot once it has been heard, and no
\* unit passes after that with the robot in motion, whichever nodes die.  (Ages
\* that are kept up to less than the bound cannot measure it.)
THEOREM MotionInterlocked == HaltBound <= AgeCap => (Spec => InterlockRefined)
<1> SUFFICES ASSUME HaltBound <= AgeCap PROVE Spec => InterlockRefined
  OBVIOUS
<1>1. Init => Promise!Init
  BY DEF Init, Loc!NodeInit, Loc!Zero, Zero, Promise!Init, Promise!Never, Never, HaltBound
<1>2. Typed /\ Typed' /\ HaltInv /\ HaltInv' /\ Counted /\ [Next]_vars =>
        [Promise!Next]_<<IF haltAge > HaltBound THEN HaltBound ELSE haltAge, velocity>>
  BY InterlockSteps
<1>3. QED
  BY <1>1, <1>2, AlwaysTyped, AlwaysHalt, AlwaysCounted, PTL
     DEF Spec, InterlockRefined, Promise!Spec
=============================================================================
