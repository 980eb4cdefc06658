------------------------ MODULE HardwarePath_proofs -----------------------
(***************************************************************************)
(* The halt, the alarm and the interlock of the hardware path, for every   *)
(* operating mode, every set of offered velocities, every timeout, queue   *)
(* depth and number of timer runs in a unit, every choice of triggering    *)
(* watchdogs and every set of nodes that may crash.                        *)
(***************************************************************************)
EXTENDS HardwarePath, Foundations_proofs

\* The components use the runtime's operators under their own names.
LEMMA SameRuntime ==
  /\ \A topic, msg : SM!Publish(topic, msg) = Publish(topic, msg)
  /\ \A topic, msg : HW!Publish(topic, msg) = Publish(topic, msg)
  /\ \A age : SM!Older(age) = Older(age)
  /\ \A age : HW!Older(age) = Older(age)
  /\ SM!Never = Never /\ HW!Never = Never
  /\ SM!Ages = Ages /\ HW!Ages = Ages
BY DEF SM!Publish, HW!Publish, Publish, SM!Enqueue, HW!Enqueue, Enqueue, SM!Older,
       HW!Older, Older, SM!Never, HW!Never, Never, SM!Ages, HW!Ages, Ages

(***************************************************************************)
(* The nodes, each on its own.                                             *)
(***************************************************************************)

\* Each of the safety manager's callbacks keeps the types of its node.
LEMMA SafetyNodeTyped ==
  ASSUME SM!NodeTypeOk,
         \/ SM!Tick \/ SM!TriggerMrm \/ SM!ClearMrm \/ SM!Restart \/ SM!Age
         \/ SM!OnHardwareHeartbeat \/ SM!OnModeState(OperatingMode) \/ SM!SetEstop(~estop)
         \/ UNCHANGED smNode
  PROVE  SM!NodeTypeOk'
<1>1. 0 \in Ages /\ Never \in Ages
  BY AgeCapAssumption DEF Ages
<1>2. OperatingMode \in SM!Modes /\ "INACTIVE" \in SM!Modes
  BY HardwarePathAssumption DEF SM!Modes, ActiveModes
<1>3. \A age \in Ages : Older(age) \in Ages
  BY OlderType
<1>4. QED
  BY <1>1, <1>2, <1>3, SameRuntime
     DEF SM!NodeTypeOk, SM!Tick, SM!nodeVars, SM!TriggerMrm, SM!ClearMrm, SM!Restart,
         SM!Age, SM!OnHardwareHeartbeat, SM!OnModeState, SM!SetEstop, smNode

\* Each of the adapter's callbacks keeps the types of its node, an offered
\* velocity applied included.
LEMMA HardwareNodeTyped ==
  ASSUME HW!NodeTypeOk,
         \/ HW!Tick \/ HW!PublishHeartbeat \/ HW!Restart \/ HW!Age
         \/ HW!OnModeState(OperatingMode)
         \/ \E state \in SM!SafetyStates : HW!OnSafetyState(state)
         \/ \E state \in MrmStates : HW!OnMrmState(state)
         \/ \E vel \in Offered : HW!OnApprovedCommand(vel)
         \/ HW!OnArbitrationState(TRUE)
         \/ UNCHANGED hwNode
  PROVE  HW!NodeTypeOk'
<1>1. 0 \in Ages /\ Never \in Ages
  BY AgeCapAssumption DEF Ages
<1>2. /\ OperatingMode \in HW!Modes /\ "INACTIVE" \in HW!Modes
      /\ SM!SafetyStates = HW!SafetyStates /\ "UNKNOWN" \in HW!SafetyStates
      /\ MrmStates = HW!MrmStates /\ "NONE" \in HW!MrmStates
      /\ HW!Halt \in HW!Outputs
  BY HardwarePathAssumption
     DEF HW!Modes, ActiveModes, SM!SafetyStates, HW!SafetyStates, MrmStates, HW!MrmStates,
         HW!Halt, HW!Outputs
<1>3. \A age \in Ages : Older(age) \in Ages
  BY OlderType
<1>4. HW!Apply(lastApproved) \in HW!Outputs
  <2>1. lastApproved.lin \in Int /\ lastApproved.ang \in Int
    BY HardwarePathAssumption DEF HW!NodeTypeOk, HW!Zero, Velocities
  <2>2. QED
    BY <2>1 DEF HW!Apply, HW!Outputs
<1>5. CASE HW!Tick \/ HW!PublishHeartbeat \/ UNCHANGED hwNode
  BY <1>2, <1>4, <1>5
     DEF HW!NodeTypeOk, HW!Tick, HW!PublishHeartbeat, HW!nodeVars, hwNode
<1>6. CASE HW!Restart \/ HW!Age
  BY <1>1, <1>2, <1>3, <1>6, SameRuntime DEF HW!NodeTypeOk, HW!Restart, HW!Age
<1>7. CASE \/ HW!OnModeState(OperatingMode)
           \/ \E state \in SM!SafetyStates : HW!OnSafetyState(state)
           \/ \E state \in MrmStates : HW!OnMrmState(state)
  BY <1>2, <1>7 DEF HW!NodeTypeOk, HW!OnModeState, HW!OnSafetyState, HW!OnMrmState
<1>8. CASE (\E vel \in Offered : HW!OnApprovedCommand(vel)) \/ HW!OnArbitrationState(TRUE)
  BY <1>1, <1>8, SameRuntime DEF HW!NodeTypeOk, HW!OnApprovedCommand, HW!OnArbitrationState
<1>9. QED
  BY <1>5, <1>6, <1>7, <1>8

(***************************************************************************)
(* The messages.                                                           *)
(***************************************************************************)

\* A blocking sample.
BlockingMsgs == {msg \in SM!SafetyMsgs : msg.state \in BlockingSafety}

\* What is evaluated is a message of each topic, and blocks if a halt is due.
LEMMA MessagesTyped ==
  ASSUME SM!NodeTypeOk'
  PROVE  /\ SM!SafetyMsg' \in SM!SafetyMsgs
         /\ SM!MrmMsg' \in SM!MrmMsgs
         /\ SM!Evaluated' \in BlockingSafety => SM!SafetyMsg' \in BlockingMsgs
<1>1. estop' \in BOOLEAN /\ serviceMrm' \in BOOLEAN /\ parameterMrm' \in BOOLEAN
  BY DEF SM!NodeTypeOk
<1>2. SM!MrmActive' \in BOOLEAN
  BY DEF SM!MrmActive
<1>3. SM!Evaluated' \in {"OK", "WARN", "MRM", "ESTOP"}
  BY DEF SM!Evaluated
<1>4. SM!FirstOf(SM!MrmReasons') \in SM!Watchdogs
  BY DEF SM!FirstOf, SM!Watchdogs
<1>5. SM!MrmReason' \in SM!Watchdogs \union {"", "service", "parameter_mrm_active"}
  BY <1>4 DEF SM!MrmReason
<1>6. SM!SafetyMsg' \in SM!SafetyMsgs
  BY <1>1, <1>2, <1>3 DEF SM!SafetyMsg, SM!SafetyMsgs
<1>7. SM!MrmMsg' \in SM!MrmMsgs
  BY <1>1, <1>2, <1>5 DEF SM!MrmMsg, SM!MrmMsgs, SM!MrmStates
<1>8. SM!Evaluated' \in BlockingSafety => SM!SafetyMsg' \in BlockingMsgs
  BY <1>6 DEF SM!SafetyMsg, BlockingMsgs
<1>9. QED
  BY <1>6, <1>7, <1>8

\* The node's own announcements: its timer's, a trigger's and a clear's.
Announces == SM!Tick \/ SM!TriggerMrm \/ SM!ClearMrm

\* An announcement reaches the queues of every subscriber there is.
LEMMA AnnouncementTyped ==
  ASSUME NEW Subs, NEW Msgs, safety \in Topics(Subs, Msgs), SM!SafetyMsg' \in Msgs, Announces
  PROVE  /\ safety' \in Topics(Subs, Msgs)
         /\ \A sub \in Subs : safety'[sub] # << >>
BY PublishType, SameRuntime
   DEF Announces, SM!Tick, SM!TriggerMrm, SM!ClearMrm, SM!PublishState

\* It reaches those of the MRM topic as well.
LEMMA MrmAnnouncementTyped ==
  ASSUME NEW Subs, NEW Msgs, mrm \in Topics(Subs, Msgs), SM!MrmMsg' \in Msgs, Announces
  PROVE  mrm' \in Topics(Subs, Msgs)
BY PublishType, SameRuntime
   DEF Announces, SM!Tick, SM!TriggerMrm, SM!ClearMrm, SM!PublishState

\* A node that dies or starts leaves or joins its own topics, whatever they hold.
LEMMA MembershipTyped ==
  ASSUME NEW subscriber, NEW Msgs, NEW topic \in Topics({subscriber} \intersect up, Msgs), NEW n \in Nodes
  PROVE  /\ Leave(topic, n) \in Topics({subscriber} \intersect (up \ {n}), Msgs)
         /\ Subscribe(topic, subscriber, n) \in Topics({subscriber} \intersect (up \union {n}), Msgs)
<1>1. Leave(topic, n) \in Topics(({subscriber} \intersect up) \ {n}, Msgs)
  BY LeaveType
<1>2. ({subscriber} \intersect up) \ {n} = {subscriber} \intersect (up \ {n})
  OBVIOUS
<1>3. CASE n = subscriber
  <2>1. Join(topic, n) \in Topics(({subscriber} \intersect up) \union {n}, Msgs)
    BY JoinType
  <2>2. ({subscriber} \intersect up) \union {n} = {subscriber} \intersect (up \union {n})
    BY <1>3
  <2>3. QED
    BY <1>1, <1>2, <1>3, <2>1, <2>2 DEF Subscribe
<1>4. CASE n # subscriber
  <2>1. {subscriber} \intersect (up \union {n}) = {subscriber} \intersect up
    BY <1>4
  <2>2. QED
    BY <1>1, <1>2, <1>4, <2>1 DEF Subscribe
<1>5. QED
  BY <1>3, <1>4

\* A topic with nothing left to deliver may hold messages of any kind.
LEMMA DeliveredTopic ==
  ASSUME NEW Subs, NEW Msgs, NEW Others, NEW topic \in Topics(Subs, Msgs), Delivered(topic)
  PROVE  topic \in Topics(Subs, Others)
<1>1. << >> \in Seq(Others)
  OBVIOUS
<1>2. QED
  BY <1>1 DEF Topics, Delivered

\* A subscriber awaits a sample only while it runs.
LEMMA AwaitedSample ==
  ASSUME NEW sub, NEW Msgs, NEW topic \in Topics({sub} \intersect up, Msgs), Awaits(topic, sub)
  PROVE  /\ sub \in up /\ topic[sub] # << >>
         /\ Head(topic[sub]) \in Msgs
         /\ Take(topic, sub) \in Topics({sub} \intersect up, Msgs)
<1>1. sub \in {sub} \intersect up /\ topic[sub] # << >>
  BY DEF Awaits, Topics
<1>2. QED
  BY <1>1, TakeType

(***************************************************************************)
(* The types.                                                              *)
(***************************************************************************)

\* The constructors, with every topic silent, give the types.
LEMMA InitTyped == Init => TypeOk
<1> SUFFICES ASSUME Init PROVE TypeOk
  OBVIOUS
<1>1. SM!NodeTypeOk
  BY AgeCapAssumption DEF Init, SM!NodeInit, SM!NodeTypeOk, SM!Modes, SM!Ages, SM!Never
<1>2. HW!NodeTypeOk
  <2>1. HW!Halt \in HW!Outputs
    BY DEF HW!Halt, HW!Outputs
  <2>2. QED
    BY <2>1, AgeCapAssumption
       DEF Init, AdapterInit, HW!NodeInit, HW!NodeTypeOk, HW!Modes, HW!SafetyStates,
           HW!MrmStates, HW!Ages, HW!Never
<1>3. {"hardware"} \intersect up = {"hardware"} /\ {"safety_manager"} \intersect up = {"safety_manager"}
  BY DEF Init, Nodes
<1>4. /\ safety \in Topics({"hardware"} \intersect up, SM!SafetyMsgs)
      /\ mrm \in Topics({"hardware"} \intersect up, SM!MrmMsgs)
      /\ heartbeat \in Topics({"safety_manager"} \intersect up, {"beat"})
  BY <1>3, SilentType DEF Init
<1>5. up \subseteq Nodes /\ ticks \in [Timers -> 0..TicksPerUnit]
  BY HardwarePathAssumption DEF Init
<1>6. /\ haltedFor \in 0..HaltBound /\ downFor \in 0..AlarmBound
      /\ steadyFor \in 0..SteadyBound
  BY HardwarePathAssumption
     DEF Init, AdapterInit, HaltBound, AlarmBound, SteadyBound
<1>7. QED
  BY <1>1, <1>2, <1>4, <1>5, <1>6 DEF TypeOk

\* The observers count up to their bounds, one unit at a time, and only while
\* their condition holds.
LEMMA LastingCounts ==
  ASSUME NEW bound \in Nat, NEW units \in 0..bound, NEW before \in BOOLEAN,
         NEW after \in BOOLEAN, NEW aged \in BOOLEAN
  PROVE  LET counted == Lasting(units, bound, before, after, aged)
         IN  /\ counted \in 0..bound
             /\ counted > 0 => before /\ after
             /\ counted <= units + 1
             /\ ~aged => counted <= units
             /\ before /\ after /\ aged /\ units < bound => counted = units + 1
BY DEF Lasting

\* So it is with the three observers of this path.
LEMMA ObserversCount ==
  ASSUME TypeOk, Observe(TRUE) \/ Observe(FALSE)
  PROVE  /\ haltedFor \in 0..HaltBound /\ haltedFor' \in 0..HaltBound
         /\ haltedFor' <= haltedFor + 1
         /\ haltedFor' > 0 => Halting /\ Halting'
         /\ downFor \in 0..AlarmBound /\ downFor' \in 0..AlarmBound
         /\ downFor' <= downFor + 1
         /\ downFor' > 0 => "hardware" \notin up /\ "hardware" \notin up'
         /\ steadyFor \in 0..SteadyBound /\ steadyFor' \in 0..SteadyBound
         /\ steadyFor' <= steadyFor + 1
         /\ steadyFor' > 0 => up = Nodes /\ up' = Nodes
         /\ Observe(FALSE) => /\ haltedFor' <= haltedFor
                              /\ downFor' <= downFor
                              /\ steadyFor' <= steadyFor
<1>1. /\ HaltBound \in Nat /\ AlarmBound \in Nat /\ SteadyBound \in Nat
      /\ Halting \in BOOLEAN /\ Halting' \in BOOLEAN
  BY HardwarePathAssumption DEF HaltBound, AlarmBound, SteadyBound, Halting
<1>2. /\ haltedFor \in 0..HaltBound /\ downFor \in 0..AlarmBound
      /\ steadyFor \in 0..SteadyBound
  BY DEF TypeOk
<1>3. PICK aged \in BOOLEAN : Observe(aged)
  <2>1. CASE Observe(TRUE)
    BY <2>1
  <2>2. CASE Observe(FALSE)
    BY <2>2
  <2>3. QED
    BY <2>1, <2>2
<1>4. haltedFor' = Lasting(haltedFor, HaltBound, Halting, Halting', aged)
  BY <1>3 DEF Observe
<1>5. downFor' = Lasting(downFor, AlarmBound, "hardware" \notin up, "hardware" \notin up', aged)
  BY <1>3 DEF Observe
<1>6. steadyFor' = Lasting(steadyFor, SteadyBound, up = Nodes, up' = Nodes, aged)
  BY <1>3 DEF Observe
<1>7. Observe(FALSE) => /\ haltedFor' <= haltedFor
                        /\ downFor' <= downFor
                        /\ steadyFor' <= steadyFor
  BY <1>2 DEF Observe, Lasting, HaltBound, SteadyBound
<1>8. QED
  BY <1>1, <1>2, <1>4, <1>5, <1>6, <1>7, LastingCounts

(***************************************************************************)
(* A step, as seen from each node and each topic.                          *)
(***************************************************************************)

\* What a step may do to the safety manager and to the adapter.
LEMMA NodesTyped ==
  ASSUME TypeOk, Step \/ Advance
  PROVE  SM!NodeTypeOk' /\ HW!NodeTypeOk'
<1>1. SM!NodeTypeOk /\ HW!NodeTypeOk
  BY DEF TypeOk
<1>2. CASE SafetyTick \/ GateTick \/ HeartbeatTick
  BY <1>1, <1>2, SafetyNodeTyped, HardwareNodeTyped
     DEF SafetyTick, GateTick, HeartbeatTick, smVars, hwVars
<1>3. CASE SafetyToHardware
  <2>1. Head(safety["hardware"]) \in SM!SafetyMsgs
    BY <1>3, AwaitedSample DEF SafetyToHardware, TypeOk
  <2>2. Head(safety["hardware"]).state \in SM!SafetyStates
    BY <2>1 DEF SM!SafetyMsgs, SM!SafetyStates
  <2>3. QED
    BY <1>1, <1>3, <2>2, SafetyNodeTyped, HardwareNodeTyped DEF SafetyToHardware
<1>4. CASE MrmToHardware
  <2>1. Head(mrm["hardware"]) \in SM!MrmMsgs
    BY <1>4, AwaitedSample DEF MrmToHardware, TypeOk
  <2>2. Head(mrm["hardware"]).state \in MrmStates
    BY <2>1 DEF SM!MrmMsgs, SM!MrmStates, MrmStates
  <2>3. QED
    BY <1>1, <1>4, <2>2, SafetyNodeTyped, HardwareNodeTyped DEF MrmToHardware
<1>5. CASE HeartbeatToSafety \/ Console
  BY <1>1, <1>5, SafetyNodeTyped, HardwareNodeTyped DEF HeartbeatToSafety, Console, hwVars
<1>6. CASE ArbiterToHardware
  BY <1>1, <1>6, SafetyNodeTyped, HardwareNodeTyped DEF ArbiterToHardware, smVars
<1>7. CASE HearMode
  BY <1>1, <1>7, SafetyNodeTyped, HardwareNodeTyped DEF HearMode, smVars, hwVars
<1>8. CASE \E n \in Nodes : Crash(n) \/ Recover(n)
  BY <1>1, <1>8, SafetyNodeTyped, HardwareNodeTyped DEF Crash, Recover
<1>9. CASE Advance
  BY <1>1, <1>9, SafetyNodeTyped, HardwareNodeTyped DEF Advance
<1>10. QED
  BY <1>2, <1>3, <1>4, <1>5, <1>6, <1>7, <1>8, <1>9 DEF Step

\* A step leaves the safety topic alone, adds the evaluation it ends with, hands
\* the oldest sample to the adapter, or is the end or the start of a process.
LEMMA SafetyTopicTyped ==
  ASSUME TypeOk, Step \/ Advance, NEW Msgs,
         safety \in Topics({"hardware"} \intersect up, Msgs),
         Announces => SM!SafetyMsg' \in Msgs
  PROVE  safety' \in Topics({"hardware"} \intersect up', Msgs)
<1>1. CASE UNCHANGED <<safety, up>>
  BY <1>1
<1>2. CASE Announces /\ UNCHANGED up
  BY <1>2, AnnouncementTyped
<1>3. CASE SafetyToHardware
  BY <1>3, AwaitedSample DEF SafetyToHardware
<1>4. ASSUME NEW n \in Nodes, Crash(n) \/ Recover(n)
      PROVE  safety' \in Topics({"hardware"} \intersect up', Msgs)
  <2>1. /\ Leave(safety, n) \in Topics({"hardware"} \intersect (up \ {n}), Msgs)
        /\ Subscribe(safety, "hardware", n)
             \in Topics({"hardware"} \intersect (up \union {n}), Msgs)
    BY MembershipTyped
  <2>2. \/ safety' = Leave(safety, n) /\ up' = up \ {n}
        \/ safety' = Subscribe(safety, "hardware", n) /\ up' = up \union {n}
    BY <1>4 DEF Crash, Recover
  <2>3. QED
    BY <2>1, <2>2
<1>5. QED
  BY <1>1, <1>2, <1>3, <1>4
     DEF Step, Advance, SafetyTick, CountTick, GateTick, HeartbeatTick, MrmToHardware,
         HeartbeatToSafety, ArbiterToHardware, HearMode, Console, Announces, smVars,
         SM!OnHardwareHeartbeat, SM!OnModeState, SM!SetEstop, SM!topicVars

\* The MRM topic, in the same way.
LEMMA MrmTopicTyped ==
  ASSUME TypeOk, Step \/ Advance, SM!MrmMsg' \in SM!MrmMsgs
  PROVE  mrm' \in Topics({"hardware"} \intersect up', SM!MrmMsgs)
<1>1. mrm \in Topics({"hardware"} \intersect up, SM!MrmMsgs)
  BY DEF TypeOk
<1>2. CASE UNCHANGED <<mrm, up>>
  BY <1>1, <1>2
<1>3. CASE Announces /\ UNCHANGED up
  BY <1>1, <1>3, MrmAnnouncementTyped
<1>4. CASE MrmToHardware
  BY <1>1, <1>4, AwaitedSample DEF MrmToHardware
<1>5. ASSUME NEW n \in Nodes, Crash(n) \/ Recover(n)
      PROVE  mrm' \in Topics({"hardware"} \intersect up', SM!MrmMsgs)
  <2>1. /\ Leave(mrm, n) \in Topics({"hardware"} \intersect (up \ {n}), SM!MrmMsgs)
        /\ Subscribe(mrm, "hardware", n)
             \in Topics({"hardware"} \intersect (up \union {n}), SM!MrmMsgs)
    BY <1>1, MembershipTyped
  <2>2. \/ mrm' = Leave(mrm, n) /\ up' = up \ {n}
        \/ mrm' = Subscribe(mrm, "hardware", n) /\ up' = up \union {n}
    BY <1>5 DEF Crash, Recover
  <2>3. QED
    BY <2>1, <2>2
<1>6. QED
  BY <1>2, <1>3, <1>4, <1>5
     DEF Step, Advance, SafetyTick, CountTick, GateTick, HeartbeatTick, SafetyToHardware,
         HeartbeatToSafety, ArbiterToHardware, HearMode, Console, Announces, smVars,
         SM!OnHardwareHeartbeat, SM!OnModeState, SM!SetEstop, SM!topicVars

\* The heartbeat topic, whose publisher and subscriber may both die.
LEMMA HeartbeatTopicTyped ==
  ASSUME TypeOk, Step \/ Advance
  PROVE  heartbeat' \in Topics({"safety_manager"} \intersect up', {"beat"})
<1>1. heartbeat \in Topics({"safety_manager"} \intersect up, {"beat"})
  BY DEF TypeOk
<1>2. CASE UNCHANGED <<heartbeat, up>>
  BY <1>1, <1>2
<1>3. CASE HeartbeatTick
  BY <1>1, <1>3, PublishType, SameRuntime DEF HeartbeatTick, CountTick, HW!PublishHeartbeat
<1>4. CASE HeartbeatToSafety
  BY <1>1, <1>4, AwaitedSample DEF HeartbeatToSafety
<1>5. ASSUME NEW n \in Nodes, Crash(n) \/ Recover(n)
      PROVE  heartbeat' \in Topics({"safety_manager"} \intersect up', {"beat"})
  <2>1. /\ Leave(heartbeat, n) \in Topics({"safety_manager"} \intersect (up \ {n}), {"beat"})
        /\ Subscribe(heartbeat, "safety_manager", n)
             \in Topics({"safety_manager"} \intersect (up \union {n}), {"beat"})
    BY <1>1, MembershipTyped
  <2>2. \/ heartbeat' = Leave(heartbeat, n) /\ up' = up \ {n}
        \/ heartbeat' = Subscribe(heartbeat, "safety_manager", n) /\ up' = up \union {n}
    BY <1>5 DEF Crash, Recover
  <2>3. QED
    BY <2>1, <2>2
<1>6. QED
  BY <1>2, <1>3, <1>4, <1>5
     DEF Step, Advance, SafetyTick, CountTick, GateTick, SafetyToHardware, MrmToHardware,
         ArbiterToHardware, HearMode, Console, hwVars, HW!Tick, HW!OnSafetyState,
         HW!OnMrmState, HW!OnApprovedCommand, HW!OnArbitrationState, HW!OnModeState,
         HW!topicVars

\* No timer fires more often than a unit allows, and only nodes run.
LEMMA SchedulingTyped ==
  ASSUME TypeOk, Step \/ Advance
  PROVE  up' \subseteq Nodes /\ ticks' \in [Timers -> 0..TicksPerUnit]
<1>1. up \subseteq Nodes /\ ticks \in [Timers -> 0..TicksPerUnit] /\ TicksPerUnit \in Nat
  BY HardwarePathAssumption DEF TypeOk
<1>2. ASSUME NEW t \in Timers, CountTick(t)
      PROVE  up' \subseteq Nodes /\ ticks' \in [Timers -> 0..TicksPerUnit]
  BY <1>1, <1>2 DEF CountTick
<1>3. CASE SafetyTick \/ GateTick \/ HeartbeatTick
  BY <1>2, <1>3 DEF SafetyTick, GateTick, HeartbeatTick, Timers
<1>4. ASSUME NEW n \in Nodes, Crash(n) \/ Recover(n)
      PROVE  up' \subseteq Nodes /\ ticks' \in [Timers -> 0..TicksPerUnit]
  BY <1>1, <1>4 DEF Crash, Recover
<1>5. CASE Advance
  BY <1>1, <1>5 DEF Advance
<1>6. CASE UNCHANGED <<up, ticks>>
  BY <1>1, <1>6
<1>7. QED
  BY <1>3, <1>4, <1>5, <1>6
     DEF Step, SafetyToHardware, MrmToHardware, HeartbeatToSafety, ArbiterToHardware,
         HearMode, Console

\* Every step keeps every type.
LEMMA NextTyped == TypeOk /\ [Next]_vars => TypeOk'
<1> SUFFICES ASSUME TypeOk, [Next]_vars PROVE TypeOk'
  OBVIOUS
<1>1. CASE UNCHANGED vars
  <2>1. /\ UNCHANGED <<smNode, hwNode, safety, mrm, heartbeat, up, ticks>>
        /\ UNCHANGED <<haltedFor, downFor, steadyFor>>
    BY <1>1 DEF vars, smVars, hwVars, observers
  <2>2. SM!NodeTypeOk' /\ HW!NodeTypeOk'
    BY <2>1, SafetyNodeTyped, HardwareNodeTyped DEF TypeOk
  <2>3. QED
    BY <2>1, <2>2 DEF TypeOk
<1>2. ASSUME Step \/ Advance, Observe(TRUE) \/ Observe(FALSE) PROVE TypeOk'
  <2>1. SM!NodeTypeOk' /\ HW!NodeTypeOk'
    BY <1>2, NodesTyped
  <2>2. SM!SafetyMsg' \in SM!SafetyMsgs /\ SM!MrmMsg' \in SM!MrmMsgs
    BY <2>1, MessagesTyped
  <2>3. safety' \in Topics({"hardware"} \intersect up', SM!SafetyMsgs)
    BY <1>2, <2>2, SafetyTopicTyped DEF TypeOk
  <2>4. /\ mrm' \in Topics({"hardware"} \intersect up', SM!MrmMsgs)
        /\ heartbeat' \in Topics({"safety_manager"} \intersect up', {"beat"})
    BY <1>2, <2>2, MrmTopicTyped, HeartbeatTopicTyped
  <2>5. up' \subseteq Nodes /\ ticks' \in [Timers -> 0..TicksPerUnit]
    BY <1>2, SchedulingTyped
  <2>6. /\ haltedFor' \in 0..HaltBound /\ downFor' \in 0..AlarmBound
        /\ steadyFor' \in 0..SteadyBound
    BY <1>2, ObserversCount
  <2>7. QED
    BY <2>1, <2>3, <2>4, <2>5, <2>6 DEF TypeOk, HaltBound, AlarmBound, SteadyBound
<1>3. QED
  BY <1>1, <1>2 DEF Next

(***************************************************************************)
(* The halt.  In the first whole unit of it every sample on the way to the *)
(* adapter blocks, and the timer has sent one; in the second the adapter   *)
(* has heard it and its gate is closed; in the third its timer has told    *)
(* the motors.  An adapter that dies or starts in between has its gate     *)
(* closed anyway.                                                          *)
(***************************************************************************)

\* The adapter has heard of the halt, or is about to.
Told == \/ safetyState \notin AllowedSafety
        \/ "hardware" \in up /\ safety["hardware"] # << >>

DownHalts == "hardware" \notin up => safetyState = "UNKNOWN" /\ applied = HW!Halt

HaltAnnounced ==
  haltedFor >= 1 => /\ safety \in Topics({"hardware"} \intersect up, BlockingMsgs)
                    /\ ticks["safety_manager"] > 0 => Told

HaltHeard ==
  haltedFor >= 2 => /\ safetyState \notin AllowedSafety
                    /\ ticks["gate"] > 0 => applied = HW!Halt

HaltInv == DownHalts /\ HaltAnnounced /\ HaltHeard /\ HaltReachesMotors

\* What a step may do to what the halt is about: the adapter hears a sample or
\* forgets all, its timer alone may move the motors, and then only through the
\* open gate, and a run of the safety manager's timer is an announcement.
LEMMA HaltFrame ==
  ASSUME TypeOk, Step
  PROVE  /\ \/ safetyState' \in {safetyState, "UNKNOWN"}
            \/ SafetyToHardware /\ safetyState' = Head(safety["hardware"]).state
         /\ applied' \in {applied, HW!Halt} \/ HW!ReleaseOutput
         /\ ticks'["gate"] > 0 => ticks["gate"] > 0 \/ applied' = HW!Halt \/ HW!ReleaseOutput
         /\ ticks'["safety_manager"] > 0 => ticks["safety_manager"] > 0 \/ SafetyTick
<1>1. /\ ticks \in [Timers -> 0..TicksPerUnit] /\ TicksPerUnit \in Nat
      /\ Timers = {"safety_manager", "gate", "heartbeat"}
  BY HardwarePathAssumption DEF TypeOk, Timers
<1>2. CASE SafetyTick
  <2>1. UNCHANGED <<safetyState, applied>> /\ ticks'["gate"] = ticks["gate"]
    BY <1>1, <1>2 DEF SafetyTick, CountTick, hwVars, hwNode
  <2>2. QED
    BY <1>2, <2>1
<1>3. CASE GateTick
  BY <1>1, <1>3 DEF GateTick, CountTick, HW!Tick
<1>4. CASE HeartbeatTick
  BY <1>1, <1>4 DEF HeartbeatTick, CountTick, HW!PublishHeartbeat, HW!nodeVars
<1>5. CASE SafetyToHardware
  <2>1. /\ safetyState' = Head(safety["hardware"]).state
        /\ UNCHANGED <<applied, ticks>>
    BY <1>5 DEF SafetyToHardware, HW!OnSafetyState
  <2>2. QED
    BY <1>1, <1>5, <2>1
<1>6. CASE MrmToHardware \/ HeartbeatToSafety \/ ArbiterToHardware
  BY <1>6 DEF MrmToHardware, HeartbeatToSafety, ArbiterToHardware, HW!OnMrmState,
              HW!OnApprovedCommand, HW!OnArbitrationState, hwNode
<1>7. CASE HearMode \/ Console
  BY <1>7 DEF HearMode, Console, HW!OnModeState, hwVars, hwNode
<1>8. ASSUME NEW n \in Nodes, Crash(n) \/ Recover(n)
      PROVE  /\ UNCHANGED ticks
             /\ \/ UNCHANGED <<safetyState, applied>>
                \/ safetyState' = "UNKNOWN" /\ applied' = HW!Halt
  BY <1>8 DEF Crash, Recover, HW!Restart, hwNode
<1>9. CASE \E n \in Nodes : Crash(n) \/ Recover(n)
  BY <1>1, <1>8, <1>9
<1>10. QED
  BY <1>2, <1>3, <1>4, <1>5, <1>6, <1>7, <1>9 DEF Step

\* With safety not allowing motion the gate is closed (should_release_output).
LEMMA GateClosed == safetyState \notin AllowedSafety => ~HW!ReleaseOutput
BY DEF HW!ReleaseOutput, HW!GateReason, HW!AllowedSafety, AllowedSafety, HW!BlockingSafety

\* A blocking sample that is heard closes the gate.
LEMMA HeardBlocks ==
  ASSUME TypeOk, Step, safety \in Topics({"hardware"} \intersect up, BlockingMsgs)
  PROVE  safetyState \notin AllowedSafety \/ SafetyToHardware =>
           safetyState' \notin AllowedSafety
<1>1. ASSUME SafetyToHardware PROVE safetyState' \notin AllowedSafety
  <2>1. Head(safety["hardware"]) \in BlockingMsgs
    BY <1>1, AwaitedSample DEF SafetyToHardware
  <2>2. safetyState' = Head(safety["hardware"]).state
    BY <1>1 DEF SafetyToHardware, HW!OnSafetyState
  <2>3. QED
    BY <2>1, <2>2 DEF BlockingMsgs, BlockingSafety, AllowedSafety
<1>2. QED
  BY <1>1, HaltFrame DEF AllowedSafety

\* An adapter that is down stays as its death left it.
LEMMA DownStep ==
  ASSUME TypeOk, DownHalts, Step \/ Advance
  PROVE  DownHalts'
<1>1. CASE "hardware" \in up'
  BY <1>1 DEF DownHalts
<1>2. CASE "hardware" \notin up' /\ "hardware" \in up
  <2>1. Crash("hardware")
    BY <1>2
       DEF Step, Advance, SafetyTick, GateTick, HeartbeatTick, CountTick, SafetyToHardware,
           MrmToHardware, HeartbeatToSafety, ArbiterToHardware, HearMode, Console, Crash, Recover
  <2>2. QED
    BY <2>1 DEF Crash, HW!Restart, DownHalts
<1>3. CASE "hardware" \notin up' /\ "hardware" \notin up
  <2>1. safetyState = "UNKNOWN" /\ applied = HW!Halt
    BY <1>3 DEF DownHalts
  <2>2. CASE Advance
    BY <2>1, <2>2 DEF Advance, HW!Age, DownHalts
  <2>3. CASE Step
    <3>1. ~SafetyToHardware
      BY <1>3, AwaitedSample DEF SafetyToHardware, TypeOk
    <3>2. safetyState' = "UNKNOWN" /\ applied' = HW!Halt
      BY <2>1, <2>3, <3>1, HaltFrame, GateClosed DEF AllowedSafety
    <3>3. QED
      BY <3>2 DEF DownHalts
  <2>4. QED
    BY <2>2, <2>3
<1>4. QED
  BY <1>1, <1>2, <1>3

\* While a halt lasts the safety manager announces nothing else.
LEMMA AnnouncedStep ==
  ASSUME TypeOk, TypeOk', HaltInv, haltedFor >= 1, Step, Halting, Halting'
  PROVE  /\ safety' \in Topics({"hardware"} \intersect up', BlockingMsgs)
         /\ ticks'["safety_manager"] > 0 => Told'
<1>1. /\ safety \in Topics({"hardware"} \intersect up, BlockingMsgs)
      /\ ticks["safety_manager"] > 0 => Told
  BY DEF HaltInv, HaltAnnounced
<1>2. SM!SafetyMsg' \in BlockingMsgs
  BY MessagesTyped DEF TypeOk, Halting
<1>3. safety' \in Topics({"hardware"} \intersect up', BlockingMsgs)
  BY <1>1, <1>2, SafetyTopicTyped
<1>4. ASSUME Announces, UNCHANGED <<up, safetyState>> PROVE Told'
  <2>1. \A sub \in {"hardware"} \intersect up : safety'[sub] # << >>
    BY <1>1, <1>2, <1>4, AnnouncementTyped
  <2>2. CASE "hardware" \in up
    BY <1>4, <2>1, <2>2 DEF Told
  <2>3. CASE "hardware" \notin up
    BY <1>4, <2>3 DEF HaltInv, DownHalts, Told, AllowedSafety
  <2>4. QED
    BY <2>2, <2>3
<1>5. ASSUME Told PROVE Told'
  <2>1. CASE safetyState' \notin AllowedSafety
    BY <2>1 DEF Told
  <2>2. CASE safetyState' \in AllowedSafety
    <3>1. /\ ~SafetyToHardware /\ safetyState' = safetyState
          /\ "hardware" \in up /\ safety["hardware"] # << >>
      BY <1>1, <1>5, <2>2, HeardBlocks, HaltFrame DEF Told, AllowedSafety
    <3>2. CASE Announces /\ UNCHANGED up
      BY <1>4, <3>1, <3>2
    <3>3. CASE UNCHANGED <<safety, up>>
      BY <3>1, <3>3 DEF Told
    <3>4. ASSUME NEW n \in Nodes, Crash(n) \/ Recover(n) PROVE FALSE
      <4>1. n = "hardware"
        BY <3>4 DEF Crash, Recover, Halting, Nodes
      <4>2. Crash("hardware")
        BY <3>1, <3>4, <4>1 DEF Recover
      <4>3. safetyState' = "UNKNOWN"
        BY <4>2 DEF Crash, HW!Restart
      <4>4. QED
        BY <2>2, <4>3 DEF AllowedSafety
    <3>5. QED
      BY <3>1, <3>2, <3>3, <3>4
         DEF Step, SafetyTick, CountTick, GateTick, HeartbeatTick, MrmToHardware,
             HeartbeatToSafety, ArbiterToHardware, HearMode, Console, Announces, smVars,
             SM!OnHardwareHeartbeat, SM!OnModeState, SM!SetEstop, SM!topicVars
  <2>3. QED
    BY <2>1, <2>2
<1>6. ticks'["safety_manager"] > 0 => Told'
  <2>1. SafetyTick => Announces /\ UNCHANGED <<up, safetyState>>
    BY DEF SafetyTick, CountTick, Announces, hwVars, hwNode
  <2>2. QED
    BY <1>1, <1>4, <1>5, <2>1, HaltFrame
<1>7. QED
  BY <1>3, <1>6

\* Within a unit a halt spreads and is not lost on the way.
LEMMA HaltStep ==
  ASSUME TypeOk, TypeOk', HaltInv, Step, Observe(FALSE)
  PROVE  HaltInv'
<1>1. /\ haltedFor' \in Nat /\ haltedFor \in Nat /\ haltedFor' <= haltedFor
      /\ haltedFor' > 0 => Halting /\ Halting'
  BY ObserversCount DEF HaltBound
<1>2. DownHalts'
  BY DownStep DEF HaltInv
<1>3. HaltAnnounced'
  BY <1>1, AnnouncedStep DEF HaltAnnounced
<1>4. ASSUME haltedFor >= 2
      PROVE  /\ safetyState \notin AllowedSafety /\ safetyState' \notin AllowedSafety
             /\ applied' \in {applied, HW!Halt}
             /\ ticks'["gate"] > 0 => ticks["gate"] > 0 \/ applied' = HW!Halt
  <2>1. /\ safetyState \notin AllowedSafety
        /\ safety \in Topics({"hardware"} \intersect up, BlockingMsgs)
    BY <1>1, <1>4 DEF HaltInv, HaltAnnounced, HaltHeard
  <2>2. safetyState' \notin AllowedSafety
    BY <2>1, HeardBlocks
  <2>3. QED
    BY <2>1, <2>2, HaltFrame, GateClosed
<1>5. HaltHeard'
  BY <1>1, <1>4 DEF HaltInv, HaltHeard
<1>6. HaltReachesMotors'
  BY <1>1, <1>4 DEF HaltInv, HaltReachesMotors, HW!Halt, HaltBound
<1>7. QED
  BY <1>2, <1>3, <1>5, <1>6 DEF HaltInv

\* When a unit ends, what was sent in it has been heard and what was heard before
\* it has been acted on.
LEMMA HaltAdvance ==
  ASSUME TypeOk, TypeOk', HaltInv, Advance, Observe(TRUE)
  PROVE  HaltInv'
<1>1. /\ haltedFor' \in Nat /\ haltedFor \in Nat /\ haltedFor' <= haltedFor + 1
      /\ haltedFor' > 0 => Halting
  BY ObserversCount DEF HaltBound
<1>2. /\ \A t \in Timers : NodeOf(t) \in up => ticks[t] > 0
      /\ Delivered(safety) /\ UNCHANGED <<safety, up, safetyState, applied>>
      /\ ticks' = [t \in Timers |-> 0]
  BY DEF Advance, HW!Age
<1>3. ticks'["safety_manager"] = 0 /\ ticks'["gate"] = 0
  BY <1>2 DEF Timers
<1>4. DownHalts'
  BY DownStep DEF HaltInv
<1>5. safety' \in Topics({"hardware"} \intersect up', BlockingMsgs)
  BY <1>2, DeliveredTopic DEF TypeOk
<1>6. HaltAnnounced'
  BY <1>3, <1>5 DEF HaltAnnounced
<1>7. ASSUME haltedFor' >= 2 PROVE safetyState \notin AllowedSafety
  <2>1. haltedFor >= 1 /\ ticks["safety_manager"] > 0
    BY <1>1, <1>2, <1>7 DEF Halting, Timers, NodeOf
  <2>2. Told
    BY <2>1 DEF HaltInv, HaltAnnounced
  <2>3. "hardware" \in up => safety["hardware"] = << >>
    BY <1>2 DEF TypeOk, Topics, Delivered
  <2>4. QED
    BY <2>2, <2>3 DEF Told
<1>8. HaltHeard'
  BY <1>2, <1>3, <1>7 DEF HaltHeard
<1>9. ASSUME haltedFor' >= HaltBound PROVE applied = HW!Halt
  <2>1. haltedFor >= 2
    BY <1>1, <1>9 DEF HaltBound
  <2>2. "hardware" \in up => ticks["gate"] > 0
    BY <1>2 DEF Timers, NodeOf
  <2>3. QED
    BY <2>1, <2>2 DEF HaltInv, HaltHeard, DownHalts
<1>10. HaltReachesMotors'
  BY <1>2, <1>9 DEF HaltReachesMotors, HW!Halt, HaltBound
<1>11. QED
  BY <1>4, <1>6, <1>8, <1>10 DEF HaltInv

(***************************************************************************)
(* The alarm.  Of a dead adapter nothing is under way once a unit has      *)
(* passed, and the age of its last heartbeat grows with every one.  Of a   *)
(* running adapter each unit brings a heartbeat, which is heard before the *)
(* unit ends.                                                              *)
(***************************************************************************)
DownAges ==
  downFor >= 1 => /\ "hardware" \notin up /\ Delivered(heartbeat)
                  /\ hardwareAge # Never => hardwareAge >= downFor

SteadyHears ==
  /\ steadyFor >= 1 =>
       /\ up = Nodes
       /\ ticks["heartbeat"] > 0 => hardwareAge = 0 \/ heartbeat["safety_manager"] # << >>
  /\ steadyFor >= 2 => hardwareAge \in {0, 1}

AlarmInv ==
  /\ "safety_manager" \notin up => hardwareAge = Never
  /\ DownAges
  /\ SteadyHears

\* Only four kinds of step touch what the alarm is about.
LEMMA AlarmFrame ==
  ASSUME TypeOk, Step
  PROVE  \/ /\ UNCHANGED <<hardwareAge, heartbeat, up>>
            /\ ticks'["heartbeat"] = ticks["heartbeat"]
         \/ HeartbeatTick
         \/ HeartbeatToSafety
         \/ \E n \in Nodes : Crash(n) \/ Recover(n)
<1>1. ticks \in [Timers -> 0..TicksPerUnit] /\ Timers = {"safety_manager", "gate", "heartbeat"}
  BY DEF TypeOk, Timers
<1>2. CASE SafetyTick
  BY <1>1, <1>2 DEF SafetyTick, CountTick, hwVars, SM!Tick, SM!nodeVars
<1>3. CASE GateTick
  BY <1>1, <1>3 DEF GateTick, CountTick, smVars, smNode, HW!Tick, HW!topicVars
<1>4. CASE SafetyToHardware \/ MrmToHardware \/ ArbiterToHardware
  BY <1>4 DEF SafetyToHardware, MrmToHardware, ArbiterToHardware, smVars, smNode, HW!OnSafetyState,
              HW!OnMrmState, HW!OnApprovedCommand, HW!OnArbitrationState, HW!topicVars
<1>5. CASE HearMode
  BY <1>5 DEF HearMode, smVars, smNode, hwVars, SM!OnModeState, HW!OnModeState, HW!topicVars
<1>6. CASE Console
  BY <1>6 DEF Console, hwVars, SM!SetEstop, SM!TriggerMrm, SM!ClearMrm
<1>7. QED
  BY <1>2, <1>3, <1>4, <1>5, <1>6 DEF Step

\* What the four do.
LEMMA HeartbeatSteps ==
  ASSUME TypeOk
  PROVE  /\ HeartbeatTick => /\ UNCHANGED <<hardwareAge, up>> /\ "hardware" \in up
                             /\ "safety_manager" \in up => heartbeat'["safety_manager"] # << >>
         /\ HeartbeatToSafety => /\ hardwareAge' = 0 /\ UNCHANGED up /\ "safety_manager" \in up
                                 /\ heartbeat["safety_manager"] # << >>
<1>1. heartbeat \in Topics({"safety_manager"} \intersect up, {"beat"})
  BY DEF TypeOk
<1>2. ASSUME HeartbeatTick
      PROVE  /\ UNCHANGED <<hardwareAge, up>> /\ "hardware" \in up
             /\ "safety_manager" \in up => heartbeat'["safety_manager"] # << >>
  <2>1. UNCHANGED <<hardwareAge, up>> /\ "hardware" \in up
    BY <1>2 DEF HeartbeatTick, CountTick, NodeOf, smVars, smNode
  <2>2. heartbeat' = Publish(heartbeat, "beat")
    BY <1>2, SameRuntime DEF HeartbeatTick, HW!PublishHeartbeat
  <2>3. \A sub \in {"safety_manager"} \intersect up : Publish(heartbeat, "beat")[sub] # << >>
    BY <1>1, PublishType
  <2>4. QED
    BY <2>1, <2>2, <2>3
<1>3. ASSUME HeartbeatToSafety
      PROVE  /\ hardwareAge' = 0 /\ UNCHANGED up /\ "safety_manager" \in up
             /\ heartbeat["safety_manager"] # << >>
  BY <1>1, <1>3, AwaitedSample DEF HeartbeatToSafety, SM!OnHardwareHeartbeat
<1>4. QED
  BY <1>2, <1>3

\* A process that dies or starts changes who runs; only the safety manager's
\* death takes the age of the last heartbeat along.
LEMMA ProcessSteps ==
  ASSUME NEW n \in Nodes, Crash(n) \/ Recover(n)
  PROVE  /\ up' # up
         /\ hardwareAge' \in {hardwareAge, Never}
         /\ "safety_manager" \notin up' => /\ "safety_manager" \in up => hardwareAge' = Never
                                           /\ UNCHANGED hardwareAge \/ hardwareAge' = Never
         /\ Delivered(heartbeat) => Delivered(heartbeat)'
<1>1. up' # up
  BY DEF Crash, Recover
<1>2. /\ hardwareAge' \in {hardwareAge, Never}
      /\ "safety_manager" \notin up' => /\ "safety_manager" \in up => hardwareAge' = Never
                                        /\ UNCHANGED hardwareAge \/ hardwareAge' = Never
  BY SameRuntime DEF Crash, Recover, Nodes, SM!Restart, smNode
<1>3. ASSUME Delivered(heartbeat) PROVE Delivered(heartbeat)'
  <2>1. heartbeat' = Leave(heartbeat, n) \/ heartbeat' = Subscribe(heartbeat, "safety_manager", n)
    BY DEF Crash, Recover
  <2>2. QED
    BY <1>3, <2>1 DEF Delivered, Leave, Subscribe, Join
<1>4. QED
  BY <1>1, <1>2, <1>3

\* Within a unit the age does not shrink unless the adapter is heard.
LEMMA AlarmStep ==
  ASSUME TypeOk, AlarmInv, Step, Observe(FALSE)
  PROVE  AlarmInv'
<1>1. /\ downFor' \in Nat /\ downFor \in Nat /\ downFor' <= downFor
      /\ downFor' > 0 => "hardware" \notin up /\ "hardware" \notin up'
      /\ steadyFor' \in Nat /\ steadyFor \in Nat /\ steadyFor' <= steadyFor
      /\ steadyFor' > 0 => up = Nodes /\ up' = Nodes
  BY ObserversCount DEF AlarmBound, SteadyBound
<1>2. hardwareAge \in Ages
  BY SameRuntime DEF TypeOk, SM!NodeTypeOk
<1>3. ("safety_manager" \notin up => hardwareAge = Never)'
  BY AlarmFrame, HeartbeatSteps, ProcessSteps DEF AlarmInv
<1>4. DownAges'
  <2> SUFFICES ASSUME downFor' >= 1
               PROVE  /\ "hardware" \notin up' /\ Delivered(heartbeat)'
                      /\ hardwareAge' # Never => hardwareAge' >= downFor'
    BY DEF DownAges
  <2>1. /\ "hardware" \notin up /\ "hardware" \notin up' /\ Delivered(heartbeat)
        /\ hardwareAge # Never => hardwareAge >= downFor
    BY <1>1 DEF AlarmInv, DownAges
  <2>2. ~HeartbeatTick
    BY <2>1, HeartbeatSteps
  <2>3. ~HeartbeatToSafety
    <3>1. ASSUME HeartbeatToSafety PROVE FALSE
      <4>1. "safety_manager" \in DOMAIN heartbeat
        BY <3>1 DEF HeartbeatToSafety, Awaits
      <4>2. QED
        BY <2>1, <3>1, <4>1, HeartbeatSteps DEF Delivered
    <3>2. QED
      BY <3>1
  <2>4. hardwareAge' \in {hardwareAge, Never} /\ Delivered(heartbeat)'
    <3>1. CASE UNCHANGED <<hardwareAge, heartbeat, up>>
      BY <2>1, <3>1 DEF Delivered
    <3>2. CASE \E n \in Nodes : Crash(n) \/ Recover(n)
      BY <2>1, <3>2, ProcessSteps
    <3>3. QED
      BY <2>2, <2>3, <3>1, <3>2, AlarmFrame
  <2>5. QED
    BY <1>1, <1>2, <2>1, <2>4 DEF Ages, Never
<1>5. SteadyHears'
  <2> SUFFICES ASSUME steadyFor' >= 1
               PROVE  /\ up' = Nodes
                      /\ ticks'["heartbeat"] > 0 =>
                           hardwareAge' = 0 \/ heartbeat'["safety_manager"] # << >>
                      /\ steadyFor' >= 2 => hardwareAge' \in {0, 1}
    BY <1>1 DEF SteadyHears
  <2>1. /\ up = Nodes /\ up' = Nodes /\ "safety_manager" \in up
        /\ ticks["heartbeat"] > 0 => hardwareAge = 0 \/ heartbeat["safety_manager"] # << >>
        /\ steadyFor' >= 2 => hardwareAge \in {0, 1}
    BY <1>1 DEF AlarmInv, SteadyHears, Nodes
  <2>2. ~\E n \in Nodes : Crash(n) \/ Recover(n)
    BY <2>1, ProcessSteps
  <2>3. QED
    BY <2>1, <2>2, AlarmFrame, HeartbeatSteps
<1>6. QED
  BY <1>3, <1>4, <1>5 DEF AlarmInv

\* When a unit ends everything is delivered and the last heartbeat is a unit older.
LEMMA AlarmAdvance ==
  ASSUME TypeOk, AlarmInv, Advance, Observe(TRUE)
  PROVE  AlarmInv'
<1>1. /\ downFor' \in Nat /\ downFor \in Nat /\ downFor' <= downFor + 1 /\ downFor' <= AlarmBound
      /\ downFor' > 0 => "hardware" \notin up /\ "hardware" \notin up'
      /\ steadyFor' \in Nat /\ steadyFor \in Nat /\ steadyFor' <= steadyFor + 1
      /\ steadyFor' > 0 => up = Nodes /\ up' = Nodes
  BY ObserversCount DEF AlarmBound, SteadyBound
<1>2. /\ Delivered(heartbeat) /\ UNCHANGED <<heartbeat, up>>
      /\ hardwareAge' = Older(hardwareAge) /\ hardwareAge \in Ages
      /\ \A t \in Timers : NodeOf(t) \in up => ticks[t] > 0
      /\ ticks' = [t \in Timers |-> 0]
  BY SameRuntime DEF Advance, SM!Age, TypeOk, SM!NodeTypeOk
<1>3. ("safety_manager" \notin up => hardwareAge = Never)'
  BY <1>2 DEF AlarmInv, Older
<1>4. DownAges'
  <2>1. AlarmBound <= AgeCap /\ AlarmBound \in Nat /\ AgeCap \in Nat
    BY HardwarePathAssumption, AgeCapAssumption DEF AlarmBound
  <2>2. Delivered(heartbeat)'
    BY <1>2 DEF Delivered
  <2>3. downFor' >= 1 /\ hardwareAge' # Never => hardwareAge' >= downFor'
    BY <1>1, <1>2, <2>1 DEF AlarmInv, DownAges, Ages, Never, Older
  <2>4. QED
    BY <1>1, <2>2, <2>3 DEF DownAges
<1>5. SteadyHears'
  <2>1. ticks'["heartbeat"] = 0
    BY <1>2 DEF Timers
  <2>2. ASSUME steadyFor' >= 2 PROVE hardwareAge' \in {0, 1}
    <3>1. /\ up = Nodes /\ "safety_manager" \in DOMAIN heartbeat
          /\ ticks["heartbeat"] > 0 => hardwareAge = 0 \/ heartbeat["safety_manager"] # << >>
      BY <1>1, <2>2 DEF AlarmInv, SteadyHears, TypeOk, Topics, Nodes
    <3>2. ticks["heartbeat"] > 0
      BY <1>2, <3>1 DEF Timers, NodeOf, Nodes
    <3>3. hardwareAge = 0
      BY <1>2, <3>1, <3>2 DEF Delivered
    <3>4. QED
      BY <1>2, <3>3 DEF Older, Never
  <2>3. QED
    BY <1>1, <2>1, <2>2 DEF SteadyHears
<1>6. QED
  BY <1>3, <1>4, <1>5 DEF AlarmInv

\* The ages are what the watchdog needs: the bounds of the two observers lie on
\* either side of its timeout.
LEMMA AlarmImplied == TypeOk /\ AlarmInv => AlarmIsTrue
<1> SUFFICES ASSUME TypeOk, AlarmInv, smMode \in ActiveModes
             PROVE  /\ downFor >= AlarmBound => "hardware_heartbeat" \in SM!Fired
                    /\ steadyFor >= SteadyBound => "hardware_heartbeat" \notin SM!Fired
  BY DEF AlarmIsTrue
<1>1. /\ "hardware_heartbeat" \in SM!Fired <=> SM!Silenced(hardwareAge, HardwareTimeout)
      /\ SM!Silenced(hardwareAge, HardwareTimeout) <=>
           hardwareAge = Never \/ hardwareAge > HardwareTimeout
  <2>1. "hardware_heartbeat" \in SM!Fired <=> SM!Silenced(hardwareAge, HardwareTimeout)
    BY DEF SM!Fired, SM!Watchdogs, ActiveModes, SM!ActiveModes
  <2>2. QED
    BY <2>1 DEF SM!Silenced, SM!Expired, SM!Never, Never
<1>2. HardwareTimeout \in Nat \ {0} /\ downFor \in Nat /\ steadyFor \in Nat
  BY HardwarePathAssumption DEF TypeOk, AlarmBound, SteadyBound
<1>3. downFor >= AlarmBound => hardwareAge = Never \/ hardwareAge > HardwareTimeout
  <2>1. hardwareAge \in Ages
    BY SameRuntime DEF TypeOk, SM!NodeTypeOk
  <2>2. QED
    BY <1>2, <2>1 DEF AlarmInv, DownAges, AlarmBound, Ages, Never
<1>4. steadyFor >= SteadyBound => hardwareAge # Never /\ ~(hardwareAge > HardwareTimeout)
  BY <1>2 DEF AlarmInv, SteadyHears, SteadyBound, Never
<1>5. QED
  BY <1>1, <1>3, <1>4

(***************************************************************************)
(* The theorems.                                                           *)
(***************************************************************************)
HardwareInv == TypeOk /\ HaltInv /\ AlarmInv

\* At the start nothing has been observed, and both nodes run.
LEMMA HardwareInit == Init => HardwareInv
<1> SUFFICES ASSUME Init PROVE HaltInv /\ AlarmInv
  BY InitTyped DEF HardwareInv
<1>1. up = Nodes /\ haltedFor = 0 /\ downFor = 0 /\ steadyFor = 0
  BY DEF Init, AdapterInit
<1>2. HaltInv
  BY <1>1 DEF HaltInv, DownHalts, HaltAnnounced, HaltHeard, HaltReachesMotors, HaltBound, Nodes
<1>3. AlarmInv
  BY <1>1 DEF AlarmInv, DownAges, SteadyHears, Nodes
<1>4. QED
  BY <1>2, <1>3

\* The halt and the alarm through every step and every unit.
LEMMA HardwareNext == HardwareInv /\ [Next]_vars => HardwareInv'
<1> SUFFICES ASSUME HardwareInv, [Next]_vars PROVE HardwareInv'
  OBVIOUS
<1>1. TypeOk /\ HaltInv /\ AlarmInv /\ TypeOk'
  BY NextTyped DEF HardwareInv
<1>2. CASE Step /\ Observe(FALSE)
  BY <1>1, <1>2, HaltStep, AlarmStep DEF HardwareInv
<1>3. CASE Advance /\ Observe(TRUE)
  BY <1>1, <1>3, HaltAdvance, AlarmAdvance DEF HardwareInv
<1>4. CASE UNCHANGED vars
  <2>1. /\ UNCHANGED <<safetyState, applied, safety, hardwareAge, heartbeat, up, ticks>>
        /\ UNCHANGED <<haltedFor, downFor, steadyFor>>
    BY <1>4 DEF vars, smVars, smNode, hwVars, hwNode, observers
  <2>2. HaltInv'
    BY <1>1, <2>1
       DEF HaltInv, DownHalts, HaltAnnounced, HaltHeard, HaltReachesMotors, HaltBound, Told,
           BlockingMsgs, SM!SafetyMsgs, HW!Halt
  <2>3. AlarmInv'
    BY <1>1, <2>1 DEF AlarmInv, DownAges, SteadyHears, Delivered
  <2>4. QED
    BY <1>1, <2>2, <2>3 DEF HardwareInv
<1>5. QED
  BY <1>2, <1>3, <1>4 DEF Next

\* Every state of the two nodes, of the three topics between them and of the
\* observers has its type, whichever of them dies or starts in between.
THEOREM HardwarePathTyped == Spec => []TypeOk
<1>1. Init => TypeOk
  BY InitTyped
<1>2. TypeOk /\ [Next]_vars => TypeOk'
  BY NextTyped
<1>3. QED
  BY <1>1, <1>2, PTL DEF Spec

\* The inductive invariant of the path holds in every reachable state.
THEOREM HardwareInvariant == Spec => []HardwareInv
<1>1. QED
  BY HardwareInit, HardwareNext, PTL DEF Spec

\* Whatever makes the safety manager ask for a halt, the motors stand within
\* three units and stay so, although the arbiter goes on approving commands and
\* the adapter may be restarted at any moment.
THEOREM HaltStandsMotors == Spec => []HaltReachesMotors
<1>1. HardwareInv => HaltReachesMotors
  BY DEF HardwareInv, HaltInv
<1>2. QED
  BY <1>1, HardwareInvariant, PTL

\* The hardware watchdog tells the truth: an adapter that is gone for longer than
\* the timeout is noticed, and one that has run beside the safety manager for a
\* whole unit is trusted.
THEOREM AlarmTold == Spec => []AlarmIsTrue
<1>1. HardwareInv => AlarmIsTrue
  BY AlarmImplied DEF HardwareInv
<1>2. QED
  BY <1>1, HardwareInvariant, PTL

(***************************************************************************)
(* The promise of the halt path (Interlock), with every reason the safety  *)
(* manager may have for a halt counted as an order.                        *)
(***************************************************************************)
\* The motors are the motion, and the order is as old as haltedFor says.
Promise == INSTANCE Interlock WITH
  Still <- HW!Halt, Grace <- HaltBound, motion <- applied,
  asked <- IF Halting THEN haltedFor ELSE Never

\* The path keeps the promise of a halt.
InterlockRefined == Promise!Spec

\* What makes the safety manager ask for a halt (evaluate_watchdogs and
\* _evaluate_state, for the watchdogs of this path).
Cause ==
  /\ "safety_manager" \in up
  /\ \/ estop \/ parameterMrm \/ serviceMrm
     \/ /\ "hardware_heartbeat" \in MrmTriggers /\ smMode \in ActiveModes
        /\ SM!Silenced(hardwareAge, HardwareTimeout)

\* These are the reasons, in every state and after every step.
LEMMA HaltingMeans == (Halting <=> Cause) /\ (Halting <=> Cause)'
<1>1. Halting <=> Cause
  <2>1. SM!MrmReasons # {} <=> "hardware_heartbeat" \in MrmTriggers /\ smMode \in ActiveModes
                               /\ SM!Silenced(hardwareAge, HardwareTimeout)
    <3>1. \A w \in SM!Fired : w = "hardware_heartbeat"
      BY DEF SM!Fired, SM!Watchdogs
    <3>2. "hardware_heartbeat" \in SM!Fired <=>
            smMode \in ActiveModes /\ SM!Silenced(hardwareAge, HardwareTimeout)
      BY DEF SM!Fired, SM!Watchdogs, ActiveModes, SM!ActiveModes
    <3>3. QED
      BY <3>1, <3>2 DEF SM!MrmReasons
  <2>2. SM!Evaluated \in BlockingSafety <=>
          estop \/ parameterMrm \/ serviceMrm \/ SM!MrmReasons # {}
    BY DEF SM!Evaluated, SM!MrmActive, BlockingSafety
  <2>3. QED
    BY <2>1, <2>2 DEF Halting, Cause
<1>2. QED
  BY <1>1, PTL

\* What the safety manager asks for rests on its own state alone.
LEMMA HaltingKept ==
  ASSUME UNCHANGED smNode, "safety_manager" \in up' <=> "safety_manager" \in up
  PROVE  Halting' = Halting
<1>1. UNCHANGED <<estop, parameterMrm, serviceMrm, smMode, hardwareAge>>
  BY DEF smNode
<1>2. SM!Silenced(hardwareAge, HardwareTimeout)' = SM!Silenced(hardwareAge, HardwareTimeout)
  BY <1>1 DEF SM!Silenced, SM!Expired
<1>3. Cause' = Cause
  BY <1>1, <1>2 DEF Cause
<1>4. QED
  BY <1>3, HaltingMeans DEF Halting, Cause

\* Silence is never broken by time: a halt lasts through the end of a unit.
LEMMA HaltingLasts ==
  ASSUME TypeOk, Advance, Halting
  PROVE  Halting'
<1>1. /\ UNCHANGED <<estop, parameterMrm, serviceMrm, smMode, up>>
      /\ hardwareAge' = Older(hardwareAge) /\ hardwareAge \in Ages
  BY SameRuntime DEF Advance, SM!Age, TypeOk, SM!NodeTypeOk
<1>2. \A age \in Ages : SM!Silenced(age, HardwareTimeout) =>
                          SM!Silenced(Older(age), HardwareTimeout)
  BY AgeCapAssumption, HardwarePathAssumption
     DEF SM!Silenced, SM!Expired, SM!Never, Never, Older, Ages
<1>3. Cause => Cause'
  BY <1>1, <1>2 DEF Cause
<1>4. QED
  BY <1>3, HaltingMeans

\* The motors are told something new by the gate's timer or by the adapter's
\* death, and neither changes what the safety manager asks for.
LEMMA MotorsChange ==
  ASSUME TypeOk, Step, applied' # applied
  PROVE  /\ Halting' = Halting
         /\ applied' # HW!Halt => HW!ReleaseOutput
<1>1. applied' # HW!Halt => HW!ReleaseOutput
  BY HaltFrame
<1>2. CASE GateTick
  <2>1. UNCHANGED <<smNode, up>>
    BY <1>2 DEF GateTick, CountTick, smVars
  <2>2. QED
    BY <1>1, <2>1, HaltingKept
<1>3. ASSUME NEW n \in Nodes, Crash(n) \/ Recover(n) PROVE Halting' = Halting
  <2>1. n = "hardware" /\ UNCHANGED smNode /\ up' = up \ {n}
    BY <1>3 DEF Crash, Recover, hwNode, Nodes
  <2>2. "safety_manager" \in up' <=> "safety_manager" \in up
    BY <2>1
  <2>3. QED
    BY <2>1, <2>2, HaltingKept
<1>4. QED
  BY <1>1, <1>2, <1>3
     DEF Step, SafetyTick, HeartbeatTick, SafetyToHardware, MrmToHardware, HeartbeatToSafety,
         ArbiterToHardware, HearMode, Console, HW!PublishHeartbeat, HW!nodeVars,
         HW!OnSafetyState, HW!OnMrmState, HW!OnApprovedCommand, HW!OnArbitrationState,
         HW!OnModeState, hwVars, hwNode

\* Every step is one that the promise allows, or changes neither the motors nor
\* the order.
LEMMA InterlockSteps ==
  ASSUME HardwareInv, HardwareInv', [Next]_vars
  PROVE  [Promise!Next]_<<IF Halting THEN haltedFor ELSE Never, applied>>
<1> DEFINE asked == IF Halting THEN haltedFor ELSE Never
<1>1. /\ TypeOk /\ HaltInv /\ HaltReachesMotors'
      /\ HaltBound = 3 /\ Promise!Never = -1 /\ Never = -1
      /\ haltedFor \in 0..3 /\ haltedFor' \in 0..3
      /\ Halting \in BOOLEAN /\ Halting' \in BOOLEAN
  BY DEF HardwareInv, HaltInv, TypeOk, HaltBound, Promise!Never, Never, Halting
<1>2. CASE Step /\ Observe(FALSE)
  <2>1. haltedFor' = IF Halting /\ Halting' THEN haltedFor ELSE 0
    BY <1>2 DEF Observe, Lasting
  <2>2. CASE applied' = applied
    <3>1. asked' = Never \/ (asked = Never /\ asked' = 0) \/ asked' = asked
      BY <2>1
    <3>2. CASE asked' = Never
      BY <1>1, <2>2, <3>2 DEF Promise!Next, Promise!Withdraw
    <3>3. CASE asked = Never /\ asked' = 0
      BY <1>1, <2>2, <3>3 DEF Promise!Next, Promise!Order
    <3>4. CASE asked' = asked
      BY <2>2, <3>4
    <3>5. QED
      BY <3>1, <3>2, <3>3, <3>4
  <2>3. CASE applied' # applied
    <3>1. Halting' = Halting /\ (applied' # HW!Halt => HW!ReleaseOutput)
      BY <1>1, <1>2, <2>3, MotorsChange
    <3>2. asked' = asked
      BY <2>1, <3>1
    <3>3. CASE applied' = HW!Halt
      BY <3>2, <3>3 DEF Promise!Next, Promise!Rest
    <3>4. CASE applied' # HW!Halt
      <4>1. haltedFor < 2
        BY <1>1, <3>1, <3>4, GateClosed DEF HaltInv, HaltHeard
      <4>2. QED
        BY <1>1, <3>2, <3>4, <4>1 DEF Promise!Next, Promise!Move
    <3>5. QED
      BY <3>3, <3>4
  <2>4. QED
    BY <2>2, <2>3
<1>3. CASE Advance /\ Observe(TRUE)
  <2>1. haltedFor' = IF ~Halting \/ ~Halting' THEN 0
                     ELSE IF haltedFor < 3 THEN haltedFor + 1 ELSE haltedFor
    BY <1>1, <1>3 DEF Observe, Lasting
  <2>2. applied' = applied /\ (Halting => Halting')
    BY <1>1, <1>3, HaltingLasts DEF Advance, HW!Age
  <2>3. asked' \in IF asked = Never THEN {Never, 0}
                   ELSE IF asked < 3 THEN {asked + 1} ELSE {3}
    BY <1>1, <2>1, <2>2
  <2>4. applied # HW!Halt => asked' < 3
    <3>1. HaltReachesMotors' <=> (haltedFor' >= 3 => applied' = HW!Halt)
      BY DEF HaltReachesMotors, HaltBound, HW!Halt
    <3>2. QED
      BY <1>1, <2>2, <3>1
  <2>5. QED
    BY <1>1, <2>2, <2>3, <2>4 DEF Promise!Next, Promise!Wait
<1>4. CASE UNCHANGED vars
  <2>1. UNCHANGED <<smNode, up, haltedFor, applied>>
    BY <1>4 DEF vars, smVars, hwVars, hwNode, observers
  <2>2. Halting' = Halting
    BY <2>1, HaltingKept
  <2>3. QED
    BY <2>1, <2>2
<1>5. QED
  BY <1>2, <1>3, <1>4 DEF Next

\* The hardware path implements the interlock, for every reason a halt can have:
\* it gets through in HaltBound units, no approved command moves the motors once
\* the adapter has heard of it, and time alone never ends it.
THEOREM MotorsInterlocked == Spec => InterlockRefined
<1>1. Init => Promise!Init
  <2> SUFFICES ASSUME Init PROVE Promise!Init
    OBVIOUS
  <2>1. applied = HW!Halt
    BY DEF Init, AdapterInit, HW!NodeInit
  <2>2. ~Halting
    BY HaltingMeans DEF Init, SM!NodeInit, ActiveModes, Cause
  <2>3. QED
    BY <2>1, <2>2 DEF Promise!Init, Promise!Never, Never
<1>2. HardwareInv /\ HardwareInv' /\ [Next]_vars =>
        [Promise!Next]_<<IF Halting THEN haltedFor ELSE Never, applied>>
  BY InterlockSteps
<1>3. QED
  BY <1>1, <1>2, HardwareInvariant, PTL DEF Spec, InterlockRefined, Promise!Spec
=============================================================================
