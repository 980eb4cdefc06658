------------------------ MODULE OperatorNodes_proofs ----------------------
(***************************************************************************)
(* The two nodes that an operator talks to.                                *)
(*                                                                         *)
(* The mode manager, for every set of requesters, every queue depth and    *)
(* every initial mode: its variables keep their types, no mode is entered  *)
(* past its guard, and the record of transitions that it publishes is      *)
(* true.                                                                   *)
(*                                                                         *)
(* The keyboard teleop node, for every set of keys, step and limit and     *)
(* every interleaving of its two threads: its target and what it publishes *)
(* stay within the limits.                                                 *)
(***************************************************************************)
EXTENDS MCOperatorNodes, Foundations_proofs

\* Every variable of the node and its two topics keep their types.
THEOREM ModeTyped == Spec => []TypeOk
<1>1. Init => TypeOk
  BY ModeAssumption, SilentType DEF Init, NodeInit, TypeOk, NodeTypeOk, SafetyStates
<1>2. TypeOk /\ [Next]_vars => TypeOk'
  <2> SUFFICES ASSUME TypeOk, [Next]_vars PROVE TypeOk'
    OBVIOUS
  <2> USE DEF TypeOk, NodeTypeOk
  <2>1. ModeMsg' \in ModeMsgs /\ mode \in Topics({"listener"}, ModeMsgs) /\ PublishState
          => mode' \in Topics({"listener"}, ModeMsgs)
    BY PublishType DEF PublishState
  <2>2. NodeTypeOk' => ModeMsg' \in ModeMsgs
    BY DEF ModeMsg, ModeMsgs
  <2>3. ASSUME NEW state \in SafetyStates, OnSafetyState(state)
        PROVE  TypeOk'
    BY <2>3 DEF OnSafetyState, topicVars
  <2>4. ASSUME NEW requested \in Modes, NEW requester \in Requesters,
               SetMode(requested, requester)
        PROVE  TypeOk'
    <3>1. NodeTypeOk'
      BY <2>4 DEF SetMode, ApplyMode
    <3>2. \A granted \in BOOLEAN :
            Transition(activeMode, requested, requester, granted, FALSE) \in Transitions
      BY <3>1 DEF Transition, Transitions
    <3>3. (requested \in ModeValues /\ SetModeGranted(requested)) \in BOOLEAN
      BY DEF SetModeGranted, Unchanged
    <3>4. transition' \in Topics({"listener"}, Transitions)
      BY <2>4, <3>2, <3>3, PublishType DEF SetMode
    <3>5. mode' \in Topics({"listener"}, ModeMsgs)
      BY <2>1, <2>2, <2>4, <3>1 DEF SetMode
    <3>6. QED
      BY <3>1, <3>4, <3>5
  <2>5. ASSUME NEW requester \in Requesters, Takeover(requester)
        PROVE  TypeOk'
    <3>1. NodeTypeOk'
      BY <2>5 DEF Takeover, ApplyMode, ModeValues, Modes
    <3>2. \A granted \in BOOLEAN :
            Transition(activeMode, "TELEOP", requester, granted, TRUE) \in Transitions
      BY <3>1 DEF Transition, Transitions, Modes
    <3>3. TakeoverGranted \in BOOLEAN
      BY DEF TakeoverGranted, Unchanged
    <3>4. transition' \in Topics({"listener"}, Transitions)
      BY <2>5, <3>2, <3>3, PublishType DEF Takeover
    <3>5. QED
      BY <2>1, <2>2, <2>5, <3>1, <3>4 DEF Takeover
  <2>6. CASE Tick
    <3>1. NodeTypeOk' /\ UNCHANGED transition
      BY <2>6 DEF Tick, nodeVars
    <3>2. QED
      BY <2>1, <2>2, <2>6, <3>1 DEF Tick
  <2>7. CASE UNCHANGED vars
    BY <2>7 DEF vars, nodeVars, topicVars
  <2>8. QED
    BY <2>3, <2>4, <2>5, <2>6, <2>7 DEF Next
<1>3. QED
  BY <1>1, <1>2, PTL DEF Spec

(***************************************************************************)
(* The guards.                                                             *)
(***************************************************************************)

\* README: active modes require a known safety state.  A node that is not
\* configured to start in an active mode enters none before it has heard of the
\* safety state, by request or by takeover.
THEOREM ActiveModesKnowSafety ==
  ASSUME InitialMode \notin ActiveModes
  PROVE  Spec => []ActiveNeedsSafety
<1>1. Init => ActiveNeedsSafety
  BY DEF Init, NodeInit, ActiveNeedsSafety
<1>2. TypeOk /\ ActiveNeedsSafety /\ [Next]_vars => ActiveNeedsSafety'
  <2> SUFFICES ASSUME TypeOk, ActiveNeedsSafety, [Next]_vars
               PROVE  ActiveNeedsSafety'
    OBVIOUS
  <2> USE DEF ActiveNeedsSafety
  <2>1. ASSUME NEW state \in SafetyStates, OnSafetyState(state)
        PROVE  ActiveNeedsSafety'
    BY <2>1 DEF OnSafetyState
  <2>2. ASSUME NEW requested \in Modes, NEW requester \in Requesters,
               SetMode(requested, requester)
        PROVE  ActiveNeedsSafety'
    BY <2>2 DEF SetMode, ApplyMode, SetModeGranted, Unchanged
  <2>3. ASSUME NEW requester \in Requesters, Takeover(requester)
        PROVE  ActiveNeedsSafety'
    BY <2>3 DEF Takeover, ApplyMode, TakeoverGranted, Unchanged
  <2>4. CASE Tick
    BY <2>4 DEF Tick, nodeVars
  <2>5. CASE UNCHANGED vars
    BY <2>5 DEF vars, nodeVars
  <2>6. QED
    BY <2>1, <2>2, <2>3, <2>4, <2>5 DEF Next
<1>3. QED
  BY <1>1, <1>2, ModeTyped, PTL DEF Spec

\* No step, by request or by takeover, leaves shutdown, enters autonomy or AI
\* policy under a safety state that blocks them or straight from maintenance,
\* or enters AI policy from anything but teleop and autonomy.
THEOREM EntriesGuarded == Spec => EntryGuarded
<1>1. TypeOk /\ [Next]_vars =>
        (activeMode' # activeMode =>
           /\ activeMode # "SHUTDOWN"
           /\ activeMode' \in AutonomyModes =>
                safetyState \in AllowedSafety /\ activeMode # "MAINTENANCE"
           /\ activeMode' = "AI_POLICY" => activeMode \in AiPolicyEntryModes)
  <2> SUFFICES ASSUME TypeOk, [Next]_vars, activeMode' # activeMode
               PROVE  /\ activeMode # "SHUTDOWN"
                      /\ activeMode' \in AutonomyModes =>
                           safetyState \in AllowedSafety /\ activeMode # "MAINTENANCE"
                      /\ activeMode' = "AI_POLICY" => activeMode \in AiPolicyEntryModes
    OBVIOUS
  <2>1. safetyState \notin AutonomyBlockingSafety => safetyState \in AllowedSafety
    BY DEF TypeOk, NodeTypeOk, SafetyStates, AutonomyBlockingSafety, BlockingSafety,
           AllowedSafety
  <2>2. \/ \E requested \in Modes, requester \in Requesters : SetMode(requested, requester)
        \/ \E requester \in Requesters : Takeover(requester)
    BY DEF Next, OnSafetyState, Tick, vars, nodeVars
  <2>3. CASE \E requested \in Modes, requester \in Requesters : SetMode(requested, requester)
    BY <2>1, <2>3 DEF SetMode, ApplyMode, SetModeGranted, Unchanged
  <2>4. CASE \E requester \in Requesters : Takeover(requester)
    BY <2>4 DEF Takeover, ApplyMode, TakeoverGranted, Unchanged, ActiveModes,
                AutonomyModes
  <2>5. QED
    BY <2>2, <2>3, <2>4
<1>2. QED
  BY <1>1, ModeTyped, PTL DEF Spec, EntryGuarded

(***************************************************************************)
(* The record of transitions.  The owner can be read off the record only   *)
(* when its last entry was granted, which makes the two claims inductive   *)
(* together.                                                               *)
(***************************************************************************)
RecordInv ==
  /\ RecordIsCurrent
  /\ transition["listener"] # << >> /\ LastTransition.accepted =>
       LastTransition.requester = owner

\* What one request adds to the record: its own entry, made of the mode before
\* and the mode after it, which becomes the last one.
LEMMA RequestIsRecorded ==
  ASSUME TypeOk, TypeOk', NEW requested \in Modes, NEW requester \in Requesters,
         SetMode(requested, requester) \/ Takeover(requester)
  PROVE  /\ transition'["listener"] # << >>
         /\ Latest(transition'["listener"]).previous = activeMode
         /\ Latest(transition'["listener"]).active = activeMode'
         /\ Latest(transition'["listener"]).requester = requester
         /\ IF Latest(transition'["listener"]).accepted
            THEN owner' = requester ELSE UNCHANGED <<activeMode, owner>>
<1>1. CASE SetMode(requested, requester)
  <2> DEFINE granted == requested \in ModeValues /\ SetModeGranted(requested)
             entry == Transition(activeMode, requested, requester, granted, FALSE)
  <2>1. granted \in BOOLEAN
    BY DEF SetModeGranted, Unchanged
  <2>2. entry \in Transitions
    BY <2>1 DEF Transition, Transitions, TypeOk, NodeTypeOk
  <2>3. transition' = Publish(transition, entry)
    BY <1>1 DEF SetMode
  <2>4. IF granted THEN owner' = requester ELSE UNCHANGED <<activeMode, owner>>
    BY <1>1 DEF SetMode, ApplyMode
  <2> HIDE DEF granted
  <2>5. /\ entry.previous = activeMode /\ entry.active = activeMode'
        /\ entry.requester = requester /\ entry.accepted = granted
    BY DEF Transition
  <2> HIDE DEF entry
  <2>6. transition'["listener"] # << >> /\ Latest(transition'["listener"]) = entry
    BY <2>2, <2>3, PublishType DEF TypeOk
  <2>7. QED
    BY <2>4, <2>5, <2>6
<1>2. CASE Takeover(requester)
  <2> DEFINE entry == Transition(activeMode, "TELEOP", requester, TakeoverGranted, TRUE)
  <2>1. TakeoverGranted \in BOOLEAN
    BY DEF TakeoverGranted, Unchanged
  <2>2. entry \in Transitions
    BY <2>1 DEF Transition, Transitions, TypeOk, NodeTypeOk, Modes
  <2>3. transition' = Publish(transition, entry)
    BY <1>2 DEF Takeover
  <2>4. IF TakeoverGranted THEN owner' = requester ELSE UNCHANGED <<activeMode, owner>>
    BY <1>2 DEF Takeover, ApplyMode
  <2>5. /\ entry.previous = activeMode /\ entry.active = activeMode'
        /\ entry.requester = requester /\ entry.accepted = TakeoverGranted
    BY DEF Transition
  <2> HIDE DEF entry
  <2>6. transition'["listener"] # << >> /\ Latest(transition'["listener"]) = entry
    BY <2>2, <2>3, PublishType DEF TypeOk
  <2>7. QED
    BY <2>4, <2>5, <2>6
<1>3. QED
  BY <1>1, <1>2

\* Every step is a request, which is recorded, or leaves the mode, the owner and
\* the record alone.
LEMMA OnlyRequestsChangeTheRecord ==
  ASSUME [Next]_vars
  PROVE  \/ \E requested \in Modes, requester \in Requesters :
              SetMode(requested, requester) \/ Takeover(requester)
         \/ UNCHANGED <<activeMode, owner, transition>>
<1>1. "TELEOP" \in Modes
  BY DEF Modes
<1>2. QED
  BY <1>1 DEF Next, OnSafetyState, Tick, vars, nodeVars, topicVars

LEMMA RecordTrue == Spec => []RecordInv
<1> USE DEF RecordInv, RecordIsCurrent, LastTransition
<1>1. Init => RecordInv
  BY DEF Init, NodeInit, Silent
<1>2. TypeOk /\ TypeOk' /\ RecordInv /\ [Next]_vars => RecordInv'
  BY RequestIsRecorded, OnlyRequestsChangeTheRecord
<1>3. QED
  BY <1>1, <1>2, ModeTyped, PTL DEF Spec

\* Whoever hears the last record of mode/transition_state knows the active mode.
THEOREM RecordCurrent == Spec => []RecordIsCurrent
BY RecordTrue, PTL DEF RecordInv

\* Each record continues from the mode that the one before it ended in, so a
\* listener that misses none can replay the history of the mode.
THEOREM RecordChained == Spec => RecordIsAChain
<1>1. TypeOk /\ TypeOk' /\ RecordInv /\ [Next]_vars =>
        (transition["listener"] # << >> /\ transition' # transition =>
           Latest(transition'["listener"]).previous = LastTransition.active)
  BY RequestIsRecorded, OnlyRequestsChangeTheRecord DEF RecordInv, RecordIsCurrent
<1>2. QED
  BY <1>1, ModeTyped, RecordTrue, PTL DEF Spec, RecordIsAChain

\* The owner changes only by a granted request of the new owner's, and never
\* without leaving a new record: the last record, granted to the old owner or
\* not granted, cannot equal the new one.
THEOREM OwnerOnRecord == Spec => OwnerIsOnRecord
<1>1. TypeOk /\ TypeOk' /\ RecordInv /\ [Next]_vars =>
        (owner' # owner =>
           /\ transition' # transition
           /\ Latest(transition'["listener"]).accepted
           /\ Latest(transition'["listener"]).requester = owner')
  <2> SUFFICES ASSUME TypeOk, TypeOk', RecordInv, [Next]_vars, owner' # owner
               PROVE  /\ transition' # transition
                      /\ Latest(transition'["listener"]).accepted
                      /\ Latest(transition'["listener"]).requester = owner'
    OBVIOUS
  <2>1. /\ transition'["listener"] # << >>
        /\ Latest(transition'["listener"]).accepted
        /\ Latest(transition'["listener"]).requester = owner'
    BY RequestIsRecorded, OnlyRequestsChangeTheRecord
  <2>2. ASSUME transition' = transition PROVE FALSE
    BY <2>1, <2>2 DEF RecordInv, LastTransition
  <2>3. QED
    BY <2>1, <2>2
<1>2. QED
  BY <1>1, ModeTyped, RecordTrue, PTL DEF Spec, OwnerIsOnRecord


(***************************************************************************)
(* The keyboard teleop node.                                               *)
(***************************************************************************)

\* The components use the runtime's operators under their own names.
LEMMA KeyboardRuntime ==
  /\ \A topic, msg : KB!Publish(topic, msg) = Publish(topic, msg)
  /\ \A subs : KB!Silent(subs) = Silent(subs)
  /\ \A subs, Msgs : KB!Topics(subs, Msgs) = Topics(subs, Msgs)
  /\ \A age : KB!Older(age) = Older(age)
  /\ KB!Never = Never /\ KB!Ages = Ages
BY DEF KB!Publish, Publish, KB!Enqueue, Enqueue, KB!Silent, Silent, KB!Topics, Topics,
       KB!Older, Older, KB!Never, Never, KB!Ages, Ages

\* What a key makes of a target within the limits is within them (apply_key).
LEMMA KeysClamped ==
  ASSUME NEW k \in KB!MotionKeys, NEW target \in KB!Targets
  PROVE  KB!ApplyKey(k, target) \in KB!Targets
<1>1. MaxVelocity \in Nat /\ Step \in Nat
  BY OperatorNodesAssumption DEF KB!KeyboardConstants
<1>2. \A value \in Int : KB!Clamp(value) \in -MaxVelocity..MaxVelocity
  BY <1>1 DEF KB!Clamp
<1>3. target.lin \in Int /\ target.ang \in Int
  BY <1>1 DEF KB!Targets
<1>4. KB!Zero \in KB!Targets
  BY <1>1 DEF KB!Zero, KB!Targets
<1>5. /\ (CASE k = "w" -> target.lin + Step [] k = "s" -> target.lin - Step
            [] OTHER -> target.lin) \in Int
      /\ (CASE k = "a" -> target.ang + Step [] k = "d" -> target.ang - Step
            [] OTHER -> target.ang) \in Int
  BY <1>1, <1>3 DEF KB!MotionKeys
<1>6. QED
  BY <1>2, <1>4, <1>5 DEF KB!ApplyKey, KB!Targets

\* The two components of a message may come from two targets; each is within the
\* limits all the same.
LEMMA MixedTargets ==
  ASSUME NEW one \in KB!Targets, NEW other \in KB!Targets
  PROVE  /\ [one EXCEPT !.lin = other.lin] \in KB!Targets
         /\ [one EXCEPT !.ang = other.ang] \in KB!Targets
BY DEF KB!Targets

\* However the two threads interleave, the target, what the threads remember of it
\* and every command on its way to the arbiter are within the limits on both axes,
\* and each thread is at one of its statements.
THEOREM KeyboardTyped == KB!Spec => []KeyboardTypeOk
<1>1. KB!Init => KB!TypeOk
  <2>1. MaxVelocity \in Nat
    BY OperatorNodesAssumption DEF KB!KeyboardConstants
  <2>2. KB!Zero \in KB!Targets /\ Never \in Ages
    BY <2>1 DEF KB!Zero, KB!Targets, Ages
  <2>3. /\ Silent({"arbiter"}) \in Topics({"arbiter"}, KB!Targets)
        /\ Silent({"safety_manager"}) \in Topics({"safety_manager"}, {"beat"})
    BY SilentType
  <2>4. QED
    BY <2>2, <2>3, KeyboardRuntime DEF KB!Init, KB!TypeOk, KB!MotionKeys
<1>2. KB!TypeOk /\ [KB!Next]_KB!vars => KB!TypeOk'
  <2> SUFFICES ASSUME KB!TypeOk, [KB!Next]_KB!vars PROVE KB!TypeOk'
    OBVIOUS
  <2>1. /\ MaxVelocity \in Nat /\ Keys \subseteq KB!MotionKeys
        /\ command \in Topics({"arbiter"}, KB!Targets)
        /\ heartbeat \in Topics({"safety_manager"}, {"beat"})
        /\ velocity \in KB!Targets /\ readerSaw \in KB!Targets
        /\ timerSaw \in KB!Targets
    BY OperatorNodesAssumption, KeyboardRuntime DEF KB!KeyboardConstants, KB!TypeOk
  <2>2. CASE KB!PressKey
    BY <2>1, <2>2 DEF KB!PressKey, KB!ReaderAt, KB!shared, KB!timer, KB!TypeOk
  <2>3. CASE KB!StoreTarget
    <3>1. velocity' \in KB!Targets
      BY <2>1, <2>3, KeysClamped DEF KB!StoreTarget, KB!TypeOk
    <3>2. QED
      BY <2>3, <3>1 DEF KB!StoreTarget, KB!ReaderAt, KB!timer, KB!TypeOk
  <2>4. CASE KB!StampKey \/ KB!Advance
    <3>1. keyAge' \in KB!Ages
      <4>1. 0 \in Ages /\ keyAge \in Ages
        BY AgeCapAssumption, KeyboardRuntime DEF Ages, KB!TypeOk
      <4>2. QED
        BY <2>4, <4>1, OlderType, KeyboardRuntime DEF KB!StampKey, KB!Advance
    <3>2. QED
      BY <2>4, <3>1 DEF KB!StampKey, KB!Advance, KB!ReaderAt, KB!reader, KB!timer, KB!TypeOk
  <2>5. CASE KB!ReaderReadsLinear \/ KB!ReaderReadsAngular
    <3>1. readerSaw' \in KB!Targets
      BY <2>1, <2>5, MixedTargets DEF KB!ReaderReadsLinear, KB!ReaderReadsAngular
    <3>2. QED
      BY <2>5, <3>1
         DEF KB!ReaderReadsLinear, KB!ReaderReadsAngular, KB!ReaderAt, KB!shared, KB!timer,
             KB!TypeOk
  <2>6. CASE KB!ReaderPublishes
    <3>1. command' \in Topics({"arbiter"}, KB!Targets)
      BY <2>1, <2>6, PublishType, KeyboardRuntime DEF KB!ReaderPublishes
    <3>2. QED
      BY <2>6, <3>1, KeyboardRuntime DEF KB!ReaderPublishes, KB!ReaderAt, KB!timer, KB!TypeOk
  <2>7. CASE KB!ReaderMarks \/ KB!TimerMarks
    BY <2>7
       DEF KB!ReaderMarks, KB!TimerMarks, KB!ReaderAt, KB!TimerAt, KB!reader, KB!timer, KB!TypeOk
  <2>8. CASE KB!StartTick
    <3>1. heartbeat' \in Topics({"safety_manager"}, {"beat"})
      BY <2>1, <2>8, PublishType, KeyboardRuntime DEF KB!StartTick
    <3>2. QED
      BY <2>8, <3>1, KeyboardRuntime DEF KB!StartTick, KB!TimerAt, KB!reader, KB!TypeOk
  <2>9. CASE KB!ResetTarget
    <3>1. velocity' \in KB!Targets
      BY <2>1, <2>9 DEF KB!ResetTarget, KB!Zero, KB!Targets
    <3>2. QED
      BY <2>9, <3>1 DEF KB!ResetTarget, KB!TimerAt, KB!reader, KB!TypeOk
  <2>10. CASE KB!TestTarget \/ KB!TimerTests \/ KB!TimerChecksSent
    BY <2>10
       DEF KB!TestTarget, KB!TimerTests, KB!TimerChecksSent, KB!ReaderAt, KB!TimerAt,
           KB!shared, KB!reader, KB!timer, KB!TypeOk
  <2>11. CASE KB!TimerReadsLinear \/ KB!TimerReadsAngular
    <3>1. timerSaw' \in KB!Targets
      BY <2>1, <2>11, MixedTargets DEF KB!TimerReadsLinear, KB!TimerReadsAngular
    <3>2. QED
      BY <2>11, <3>1
         DEF KB!TimerReadsLinear, KB!TimerReadsAngular, KB!TimerAt, KB!shared, KB!reader,
             KB!TypeOk
  <2>12. CASE KB!TimerPublishes
    <3>1. command' \in Topics({"arbiter"}, KB!Targets)
      BY <2>1, <2>12, PublishType, KeyboardRuntime DEF KB!TimerPublishes
    <3>2. QED
      BY <2>12, <3>1, KeyboardRuntime DEF KB!TimerPublishes, KB!TimerAt, KB!reader, KB!TypeOk
  <2>13. CASE UNCHANGED KB!vars
    BY <2>13 DEF KB!vars, KB!shared, KB!reader, KB!timer, KB!TypeOk
  <2>14. QED
    BY <2>2, <2>3, <2>4, <2>5, <2>6, <2>7, <2>8, <2>9, <2>10, <2>11, <2>12, <2>13
       DEF KB!Next, KB!ReaderStep, KB!TimerStep
<1>3. QED
  BY <1>1, <1>2, PTL DEF KB!Spec, KeyboardTypeOk
=============================================================================
