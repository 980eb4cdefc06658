---------------------- MODULE CandidateSources_proofs ---------------------
(***************************************************************************)
(* What the candidate sources leave in the arbiter's memory, what the      *)
(* skill server judges by and what the scripted provider plays, for every  *)
(* launch profile, set of crashing nodes, timeout, plan file and set of    *)
(* skills.  The first argument is about the loop that moves through a      *)
(* plan; the others are about who may speak, for how long, and how old     *)
(* what was said is when it is judged.                                     *)
(***************************************************************************)
EXTENDS CandidateSources, Foundations_proofs

(***************************************************************************)
(* The inductive invariant.                                                *)
(***************************************************************************)

\* The candidates that are under way.
Sent == Samples(Velocities, TransportTime)

\* The candidates, queued and remembered.
CandidatesTyped ==
  /\ candidates \in [Gated -> [vel : Velocities, age : Ages]]
  /\ autonomy \in Topics({"arbiter"}, Sent)
  /\ policy \in Topics({"arbiter"}, Sent)

\* As much of the types as the argument needs.
Shape ==
  /\ safety \in StreamSafety
  /\ CandidatesTyped
  /\ bridgeState \in Topics({"listener"}, BR!BridgeStates)
  /\ ticks \in [Nodes -> Nat]
  /\ closedAge \in [Causes -> {Never} \union 0..QuietBound]
  /\ inputAge \in Ages

\* A cause that is counted is in force.
Counted == \A cause \in Causes : closedAge[cause] # Never => Closes(cause)

\* A bridge that is down knows nothing; one unit after a cause came into force
\* the bridge does not see the opposite, restarted or not.
BridgeView ==
  /\ "nav2_bridge" \notin up => brMode = "INACTIVE" /\ brSafety = "UNKNOWN"
  /\ closedAge["AUTONOMY"] >= 1 => brMode # "AUTONOMY"
  /\ closedAge["halt"] >= 1 => brSafety \notin AllowedSafety

\* The same of the policy provider.
ProviderView ==
  /\ up \intersect Providers = {} => prMode = "INACTIVE" /\ prSafety = "UNKNOWN"
  /\ closedAge["AI_POLICY"] >= 1 => prMode # "AI_POLICY"
  /\ closedAge["halt"] >= 1 => prSafety \notin AllowedSafety

\* The lists of capabilities that offer no motion.
Harmless ==
  {list \in [CR!CapabilityNames -> CR!CapabilityStates] :
     \A name \in CR!MotionCapabilities : list[name] \in SK!Unusable}

\* The registry sees a halt after one unit and has announced it after two.
RegistryView ==
  /\ "capability_registry" \notin up => latched = << >>
  /\ closedAge["halt"] >= 1 /\ "capability_registry" \in up =>
       /\ crSafety \in SafetyStates \ AllowedSafety
       /\ ticks["capability_registry"] > 0 => latched \in Seq(Harmless)
  /\ closedAge["halt"] >= 2 =>
       /\ latched \in Seq(Harmless)
       /\ \A sub \in DOMAIN capabilities : capabilities[sub] \in Seq(Harmless)

\* After two units of a halt the skill server either knows of it or, having
\* restarted, has no list that offers motion: its gate lets an unknown safety
\* state pass, so the list is what holds it.
ServerView ==
  /\ "skill_server" \notin up => /\ "skill_server" \notin DOMAIN capabilities
                                /\ known = << >> /\ skMode = "UNKNOWN" /\ skSafety = "UNKNOWN"
  /\ closedAge["AI_POLICY"] >= 1 => skMode # "AI_POLICY"
  /\ closedAge["halt"] >= 2 =>
       known \in {<< >>} \union Harmless \/ skSafety \in SK!UnsafeStates

\* The topic on which the senders of a mode publish.
TopicOf(s) == IF s = "AUTONOMY" THEN autonomy ELSE policy

\* At least that old, as far as ages are told apart, or nothing at all.
Aged(age, units) == age = Never \/ age >= AgeCap \/ age >= units

\* The candidates that do not move, or were sent that many units ago.
SentBefore(units) == {sample \in Sent : sample.vel = Zero \/ sample.age >= units}

\* For that many units no motion has been sent: what is queued was sent before,
\* and what is remembered arrived before, its time under way allowed for.
Still(queue, memory, units) ==
  units >= 1 => /\ queue \in Seq(SentBefore(units))
                /\ memory.vel = Zero \/ Aged(memory.age, units - TransportTime)

\* A source is still a unit after its mode is gone, and two after a halt.
Quiet ==
  \A s \in Gated : /\ Still(TopicOf(s)["arbiter"], candidates[s], closedAge[s])
                    /\ Still(TopicOf(s)["arbiter"], candidates[s], closedAge["halt"] - 1)

\* The candidates at least that old.
SentSince(age) == {sample \in Sent : age <= sample.age}

\* The bridge's clock starts when it passes a command on, the arbiter's when the
\* command arrives: the bridge's may be the older one, by the time under way.
Clocks ==
  /\ candidates["AUTONOMY"].age = Never
     \/ inputAge <= candidates["AUTONOMY"].age + TransportTime
  /\ autonomy["arbiter"] \in Seq(SentSince(inputAge))

\* What the views of the four nodes leave open.
Views == BridgeView /\ ProviderView /\ RegistryView /\ ServerView

\* The inductive invariant of the arbiter's memory.
SourcesInv == Shape /\ Counted /\ Views /\ Quiet /\ Clocks

(***************************************************************************)
(* What a step can do to each part of the state.                           *)
(***************************************************************************)

\* The fairly many actions that leave the views and the nodes that run alone.
Commands == BridgeTick \/ StubTick \/ ScriptedTick \/ RegistryTick
            \/ Nav2Command \/ SkillRequest \/ SetEnabled

\* The samples that reach the arbiter and the skill server.
Deliveries == AutonomyToArbiter \/ PolicyToArbiter \/ CapabilitiesToServer

\* A node hears a stream.
Hearings == HearMode \/ HearSafety \/ HearLocomotion

\* The streams change in one action, the nodes that run in two.
LEMMA StreamsAndNodes ==
  ASSUME Step
  PROVE  /\ ~StreamChange => streams' = streams
         /\ (~\E n \in Nodes : Crash(n) \/ Recover(n)) => up' = up
         /\ launched' = launched
         /\ safety \in StreamSafety => safety' \in StreamSafety
<1>1. CASE Commands
  BY <1>1 DEF Commands, BridgeTick, StubTick, ScriptedTick, RegistryTick, CountTick,
     Nav2Command, SkillRequest, SetEnabled, streams, schedule
<1>2. CASE Deliveries \/ Hearings \/ StreamChange
  BY <1>2 DEF Deliveries, AutonomyToArbiter, PolicyToArbiter, CapabilitiesToServer,
     Hearings, HearMode, HearSafety, HearLocomotion, StreamChange, streams, schedule
<1>3. CASE \E n \in Nodes : Crash(n) \/ Recover(n)
  BY <1>3 DEF Crash, Recover, streams
<1>4. QED
  BY <1>1, <1>2, <1>3 DEF Step, Commands, Deliveries, Hearings

\* The bridge's views change only to what the stream says now, or to those of a
\* new process; a bridge that is down does not hear.
LEMMA BridgeHears ==
  ASSUME Step
  PROVE  \/ brMode' = "INACTIVE" /\ brSafety' = "UNKNOWN"
         \/ /\ "nav2_bridge" \in up => "nav2_bridge" \in up'
            /\ brMode' = brMode \/ ("nav2_bridge" \in up' /\ brMode' = mode')
            /\ brSafety' = brSafety \/ ("nav2_bridge" \in up' /\ brSafety' = safety')
<1>1. CASE Commands
  BY <1>1 DEF Commands, BridgeTick, StubTick, ScriptedTick, RegistryTick, CountTick,
     Nav2Command, SkillRequest, SetEnabled, schedule, bridge, BR!Tick, BR!nodeVars,
     BR!HandleCommand, BR!SetEnabled
<1>2. CASE Deliveries \/ Hearings \/ StreamChange
  BY <1>2 DEF Deliveries, AutonomyToArbiter, PolicyToArbiter, CapabilitiesToServer,
     Hearings, HearMode, HearSafety, HearLocomotion, StreamChange, streams, schedule, bridge,
     BR!OnModeState, BR!OnSafetyState, BR!OnLocomotionState
<1>3. CASE \E n \in Nodes : Crash(n) \/ Recover(n)
  BY <1>3 DEF Crash, Recover, bridge, BR!Restart
<1>4. QED
  BY <1>1, <1>2, <1>3 DEF Step, Commands, Deliveries, Hearings

\* The same of the policy provider.
LEMMA ProviderHears ==
  ASSUME Step
  PROVE  \/ prMode' = "INACTIVE" /\ prSafety' = "UNKNOWN"
         \/ /\ up \intersect Providers # {} => up' \intersect Providers # {}
            /\ prMode' = prMode \/ (up' \intersect Providers # {} /\ prMode' = mode')
            /\ prSafety' = prSafety \/ (up' \intersect Providers # {} /\ prSafety' = safety')
<1>1. CASE Commands
  BY <1>1 DEF Commands, BridgeTick, StubTick, ScriptedTick, RegistryTick, CountTick,
     Nav2Command, SkillRequest, SetEnabled, schedule, provider, PR!StubTick, PR!nodeVars,
     PR!ScriptedTick, PR!SetEnabled
<1>2. CASE Deliveries \/ Hearings \/ StreamChange
  BY <1>2 DEF Deliveries, AutonomyToArbiter, PolicyToArbiter, CapabilitiesToServer,
     Hearings, HearMode, HearSafety, HearLocomotion, StreamChange, streams, schedule, provider,
     PR!OnMode, PR!OnSafety
<1>3. CASE \E n \in Nodes : Crash(n) \/ Recover(n)
  BY <1>3 DEF Crash, Recover, provider, PR!Restart
<1>4. QED
  BY <1>1, <1>2, <1>3 DEF Step, Commands, Deliveries, Hearings

\* The same of the skill server, whose list comes from the topic alone.
LEMMA ServerHears ==
  ASSUME Step
  PROVE  \/ known' = << >> /\ skMode' = "UNKNOWN" /\ skSafety' = "UNKNOWN"
         \/ /\ "skill_server" \in up => "skill_server" \in up'
            /\ skMode' = skMode \/ ("skill_server" \in up' /\ skMode' = mode')
            /\ skSafety' = skSafety \/ ("skill_server" \in up' /\ skSafety' = safety')
            /\ known' = known \/ CapabilitiesToServer
<1>1. CASE Commands
  BY <1>1 DEF Commands, BridgeTick, StubTick, ScriptedTick, RegistryTick, CountTick,
     Nav2Command, SkillRequest, SetEnabled, schedule, server, SK!OnExecuteSkill
<1>2. CASE Deliveries \/ Hearings \/ StreamChange
  BY <1>2 DEF Deliveries, AutonomyToArbiter, PolicyToArbiter, CapabilitiesToServer,
     Hearings, HearMode, HearSafety, HearLocomotion, StreamChange, streams, schedule, server,
     SK!OnModeState, SK!OnSafetyState, SK!OnCapabilities
<1>3. CASE \E n \in Nodes : Crash(n) \/ Recover(n)
  BY <1>3 DEF Crash, Recover, server, SK!Restart
<1>4. QED
  BY <1>1, <1>2, <1>3 DEF Step, Commands, Deliveries, Hearings

\* What the registry announces without a known and permitting safety state
\* offers no motion: neither at its start nor in a halt.
LEMMA HaltedListIsHarmless ==
  ASSUME NEW mode1, NEW safety1 \in SafetyStates \ AllowedSafety, NEW locomotion1
  PROVE  CR!CapabilitiesIn(mode1, safety1, locomotion1) \in Harmless
<1>1. \A name \in CR!CapabilityNames :
        CR!CapabilityState(name, mode1, safety1, locomotion1) \in CR!CapabilityStates
  BY DEF CR!CapabilityState, CR!CapabilityStates
<1>2. \A name \in CR!MotionCapabilities :
        CR!CapabilityState(name, mode1, safety1, locomotion1) \in SK!Unusable
  BY DEF CR!CapabilityState, CR!MotionCapabilities, CR!Permitted, SK!Unusable,
     SafetyStates, AllowedSafety
<1>3. CR!MotionCapabilities \subseteq CR!CapabilityNames
  BY DEF CR!MotionCapabilities, CR!CapabilityNames
<1>4. QED
  BY <1>1, <1>2, <1>3 DEF CR!CapabilitiesIn, Harmless

\* The registry's view of safety changes like the others, and what it announces
\* comes from that view.
LEMMA RegistryHears ==
  ASSUME ticks \in [Nodes -> Nat], Step
  PROVE  /\ \/ "capability_registry" \notin up'
            \/ crSafety' = "UNKNOWN"
            \/ "capability_registry" \in up /\ crSafety' \in {crSafety, safety'}
         /\ \/ /\ latched' = latched
               /\ ticks'["capability_registry"] = ticks["capability_registry"]
               /\ "capability_registry" \in up <=> "capability_registry" \in up'
            \/ "capability_registry" \notin up' /\ latched' = << >>
            \/ /\ "capability_registry" \in up'
               /\ \E m, l : latched' = <<CR!CapabilitiesIn(m, crSafety', l)>>
         /\ \/ capabilities' \in {capabilities, Leave(capabilities, "skill_server"),
                                  [sub \in DOMAIN capabilities |-> latched'],
                                  [sub \in {"skill_server"} |-> latched']}
            \/ CapabilitiesToServer
<1>1. CASE RegistryTick
  BY <1>1 DEF RegistryTick, CountTick, CR!Tick, CR!PublishCapabilities, CR!nodeVars
<1>2. CASE Commands /\ ~RegistryTick
  <2>1. ticks'["capability_registry"] = ticks["capability_registry"]
    BY <1>2 DEF Commands, BridgeTick, StubTick, ScriptedTick, CountTick,
       Nav2Command, SkillRequest, SetEnabled, schedule, Nodes
  <2>2. UNCHANGED <<crSafety, latched, capabilities, up>>
    BY <1>2 DEF Commands, BridgeTick, StubTick, ScriptedTick, CountTick,
       Nav2Command, SkillRequest, SetEnabled, schedule, registry, capabilityTopic
  <2>3. QED
    BY <2>1, <2>2
<1>3. CASE Deliveries \/ Hearings \/ StreamChange
  <2>1. ticks' = ticks /\ up' = up /\ latched' = latched
    BY <1>3 DEF Deliveries, AutonomyToArbiter, PolicyToArbiter, CapabilitiesToServer,
       Hearings, HearMode, HearSafety, HearLocomotion, StreamChange, schedule, capabilityTopic,
       CR!OnModeState, CR!OnSafetyState, CR!OnLocomotionState, CR!topicVars
  <2>2. capabilities' = capabilities \/ CapabilitiesToServer
    BY <1>3 DEF Deliveries, AutonomyToArbiter, PolicyToArbiter,
       Hearings, HearMode, HearSafety, HearLocomotion, StreamChange, capabilityTopic,
       CR!OnModeState, CR!OnSafetyState, CR!OnLocomotionState, CR!topicVars
  <2>3. crSafety' = crSafety \/ (crSafety' = safety' /\ "capability_registry" \in up)
    BY <1>3 DEF Deliveries, AutonomyToArbiter, PolicyToArbiter, CapabilitiesToServer,
       Hearings, HearMode, HearSafety, HearLocomotion, StreamChange, registry, streams,
       CR!OnModeState, CR!OnSafetyState, CR!OnLocomotionState
  <2>4. QED
    BY <2>1, <2>2, <2>3
<1>4. CASE \E n \in Nodes : Crash(n) \/ Recover(n)
  <2>1. PICK n \in Nodes : Crash(n) \/ Recover(n)
    BY <1>4
  <2>2. CASE n = "capability_registry" /\ Crash(n)
    BY <2>2 DEF Crash, CR!Die, Providers
  <2>3. CASE n = "capability_registry" /\ Recover(n)
    <3>1. crSafety' = "UNKNOWN" /\ "capability_registry" \in up'
      BY <2>3 DEF Recover, CR!Start
    <3>2. /\ latched' = <<CR!CapabilitiesIn("UNKNOWN", crSafety', "UNKNOWN")>>
          /\ capabilities' = [sub \in DOMAIN capabilities |-> latched']
      BY <2>3, <3>1 DEF Recover, CR!Start, CR!PublishCapabilities
    <3>3. QED
      BY <3>1, <3>2
  <2>4. CASE n # "capability_registry"
    <3>1. /\ latched' = latched /\ ticks' = ticks /\ crSafety' = crSafety
          /\ "capability_registry" \in up <=> "capability_registry" \in up'
      BY <2>1, <2>4 DEF Crash, Recover, registry, capabilityTopic
    <3>2. capabilities' \in {capabilities, Leave(capabilities, "skill_server"),
                             [sub \in {"skill_server"} |-> latched']}
      BY <2>1, <2>4, <3>1 DEF Crash, Recover, capabilityTopic
    <3>3. QED
      BY <3>1, <3>2
  <2>5. QED
    BY <2>1, <2>2, <2>3, <2>4
<1>5. QED
  BY <1>1, <1>2, <1>3, <1>4 DEF Step, Commands, Deliveries, Hearings

\* A skill server that is down has no subscription.
LEMMA ServerListens ==
  ASSUME Step, "skill_server" \in DOMAIN capabilities => "skill_server" \in up
  PROVE  "skill_server" \in DOMAIN capabilities' => "skill_server" \in up'
<1>1. CASE Commands
  BY <1>1 DEF Commands, BridgeTick, StubTick, ScriptedTick, RegistryTick, CountTick,
     Nav2Command, SkillRequest, SetEnabled, schedule, capabilityTopic, CR!Tick,
     CR!PublishCapabilities
<1>2. CASE Deliveries \/ Hearings \/ StreamChange
  BY <1>2 DEF Deliveries, AutonomyToArbiter, PolicyToArbiter, CapabilitiesToServer, Take,
     Hearings, HearMode, HearSafety, HearLocomotion, StreamChange, schedule, capabilityTopic,
     CR!OnModeState, CR!OnSafetyState, CR!OnLocomotionState, CR!topicVars
<1>3. CASE \E n \in Nodes : Crash(n) \/ Recover(n)
  BY <1>3 DEF Crash, Recover, capabilityTopic, Leave, CR!Die, CR!Start, CR!PublishCapabilities,
     Providers
<1>4. QED
  BY <1>1, <1>2, <1>3 DEF Step, Commands, Deliveries, Hearings

(***************************************************************************)
(* The plan of the scripted provider: what the loop of advance_progress    *)
(* computes, for every plan that parses.                                   *)
(***************************************************************************)

\* The plans that parse: every waypoint has a positive duration.
Plans == [waypoints : Seq([vel : Velocities, duration : Nat \ {0}]), loop : BOOLEAN]

\* A plan that parses is a sequence of waypoints.
LEMMA PlanShape ==
  ASSUME NEW track \in Plans
  PROVE  /\ track.waypoints \in Seq([vel : Velocities, duration : Nat \ {0}])
         /\ Len(track.waypoints) \in Nat /\ DOMAIN track.waypoints = 1..Len(track.waypoints)
         /\ track.waypoints = << >> <=> Len(track.waypoints) = 0
         /\ \A i \in DOMAIN track.waypoints : /\ track.waypoints[i].duration \in Nat \ {0}
                                              /\ track.waypoints[i].vel \in Velocities
<1> DEFINE W == [vel : Velocities, duration : Nat \ {0}]
           waypoints == track.waypoints
<1>1. waypoints \in Seq(W)
  BY DEF Plans
<1>2. \A w \in W : w.duration \in Nat \ {0} /\ w.vel \in Velocities
  OBVIOUS
<1> HIDE DEF waypoints, W
<1>3. /\ Len(waypoints) \in Nat /\ DOMAIN waypoints = 1..Len(waypoints)
      /\ waypoints = << >> <=> Len(waypoints) = 0
      /\ \A i \in DOMAIN waypoints : waypoints[i] \in W
  BY <1>1
<1>4. QED
  BY <1>1, <1>2, <1>3 DEF waypoints, W

\* begins says when each waypoint begins.
Schedules(begins, waypoints) ==
  begins = [i \in Nat \ {0} |-> IF i = 1 THEN 0
                                ELSE begins[i - 1] + waypoints[i - 1].duration]

\* The track of the abstract specification is scheduled by the plan: its
\* recursive definition has a solution.
LEMMA TrackSchedules == Schedules(Track!Begins, plan.waypoints)
<1> DEFINE size == [i \in Nat |-> plan.waypoints[i].duration]
<1>1. \A f : f = [i \in Nat \ {0} |-> IF i = 1 THEN 0 ELSE f[i - 1] + size[i - 1]]
             <=> Schedules(f, plan.waypoints)
  <2> TAKE f
  <2>1. [i \in Nat \ {0} |-> IF i = 1 THEN 0 ELSE f[i - 1] + size[i - 1]]
        = [i \in Nat \ {0} |-> IF i = 1 THEN 0 ELSE f[i - 1] + plan.waypoints[i - 1].duration]
    <3>1. \A i \in Nat \ {0} : i # 1 => i - 1 \in Nat
      OBVIOUS
    <3>2. \A i \in Nat \ {0} : i # 1 => size[i - 1] = plan.waypoints[i - 1].duration
      BY <3>1
    <3> HIDE DEF size
    <3>3. \A i \in Nat \ {0} :
            (IF i = 1 THEN 0 ELSE f[i - 1] + size[i - 1])
            = (IF i = 1 THEN 0 ELSE f[i - 1] + plan.waypoints[i - 1].duration)
      BY <3>2, Zenon
    <3>4. QED
      BY <3>3, Zenon
  <2>2. QED
    BY <2>1, Zenon DEF Schedules
<1> HIDE DEF size
<1>2. \E f : Schedules(f, plan.waypoints)
  BY <1>1, SumsDefined, Zenon
<1>3. QED
  BY <1>2, Zenon DEF Schedules, Track!Begins

\* The schedule does not depend on where in the plan the provider is.
LEMMA SameSchedule == Playback!Begins = Track!Begins
BY Zenon DEF Playback!Begins, Track!Begins

\* Every waypoint begins after the one before it, by its duration.
LEMMA ScheduleIncreases ==
  ASSUME NEW track \in Plans, NEW begins, Schedules(begins, track.waypoints)
  PROVE  /\ begins[1] = 0
         /\ \A i \in 1..(Len(track.waypoints) + 1) : begins[i] \in Nat
         /\ \A i \in DOMAIN track.waypoints :
              /\ track.waypoints[i].duration \in Nat \ {0}
              /\ begins[i + 1] = begins[i] + track.waypoints[i].duration
         /\ \A i, j \in 1..(Len(track.waypoints) + 1) : i < j => begins[i] < begins[j]
<1> DEFINE waypoints == track.waypoints
           last == Len(waypoints) + 1
<1>1. /\ last \in Nat \ {0} /\ DOMAIN waypoints = 1..(last - 1)
      /\ \A i \in 1..(last - 1) : waypoints[i].duration \in Nat \ {0}
  <2> DEFINE W == [vel : Velocities, duration : Nat \ {0}]
  <2>1. waypoints \in Seq(W)
    BY DEF Plans
  <2>2. \A w \in W : w.duration \in Nat \ {0}
    OBVIOUS
  <2> HIDE DEF W, waypoints
  <2>3. QED
    BY <2>1, <2>2
<1>2. begins[1] = 0
  BY DEF Schedules
<1>3. \A i \in Nat \ {0} : begins[i + 1] = begins[i] + waypoints[i].duration
  <2> TAKE i \in Nat \ {0}
  <2>1. i + 1 \in Nat \ {0} /\ i + 1 # 1 /\ (i + 1) - 1 = i
    OBVIOUS
  <2>2. begins[i + 1] = begins[(i + 1) - 1] + waypoints[(i + 1) - 1].duration
    BY <2>1, Zenon DEF Schedules
  <2>3. QED
    BY <2>1, <2>2
<1> HIDE DEF waypoints
<1> DEFINE Ahead == {j \in Nat : j \in 1..last =>
                       \A i \in 1..j : begins[i] \in Nat /\ (i < j => begins[i] < begins[j])}
<1>4. ASSUME NEW j \in Nat, \A k \in Nat : k < j => k \in Ahead
      PROVE  j \in Ahead
  <2> SUFFICES ASSUME j \in 1..last, j # 1
               PROVE  \A i \in 1..j : begins[i] \in Nat /\ (i < j => begins[i] < begins[j])
    BY <1>2
  <2>1. PICK k \in 1..(last - 1) : j = k + 1
    BY <1>1
  <2>2. \A i \in 1..k : begins[i] \in Nat /\ (i < k => begins[i] < begins[k])
    <3>1. k \in Ahead
      <4> HIDE DEF Ahead
      <4>1. QED
        BY <1>1, <1>4, <2>1
    <3>2. QED
      BY <1>1, <2>1, <3>1
  <2>3. begins[j] \in Nat /\ begins[k] < begins[j]
    <3>1. k \in Nat \ {0} /\ begins[k] \in Nat /\ waypoints[k].duration \in Nat \ {0}
      BY <1>1, <2>1, <2>2
    <3>2. begins[j] = begins[k] + waypoints[k].duration
      BY <1>3, <2>1, <3>1
    <3>3. QED
      BY <3>1, <3>2
  <2>4. QED
    BY <2>1, <2>2, <2>3
<1>5. Nat \subseteq Ahead
  <2> HIDE DEF Ahead
  <2>1. QED
    BY <1>4, SetInduction
<1>6. \A j \in 1..last : \A i \in 1..j : begins[i] \in Nat /\ (i < j => begins[i] < begins[j])
  BY <1>5
<1>7. \A i, j \in 1..last : begins[i] \in Nat /\ (i < j => begins[i] < begins[j])
  <2> TAKE i, j \in 1..last
  <2>1. begins[i] \in Nat
    BY <1>1, <1>6
  <2>2. ASSUME i < j PROVE begins[i] < begins[j]
    BY <1>1, <1>6, <2>2
  <2>3. QED
    BY <2>1, <2>2
<1>8. \A i \in 1..(last - 1) : begins[i + 1] = begins[i] + waypoints[i].duration
  BY <1>1, <1>3
<1>9. QED
  BY <1>1, <1>2, <1>7, <1>8 DEF waypoints

\* The waypoints do not overlap: only one is under a given time.
LEMMA OneSegment ==
  ASSUME NEW track \in Plans, NEW begins, Schedules(begins, track.waypoints),
         NEW i \in DOMAIN track.waypoints, NEW j \in DOMAIN track.waypoints, NEW time \in Nat,
         begins[i] <= time, time < begins[i + 1], begins[j] <= time, time < begins[j + 1]
  PROVE  i = j
<1> DEFINE last == Len(track.waypoints) + 1
<1>1. last \in Nat \ {0} /\ DOMAIN track.waypoints = 1..(last - 1)
  BY DEF Plans
<1>2. \A k, l \in 1..last : begins[k] \in Nat /\ (k < l => begins[k] < begins[l])
  BY ScheduleIncreases
<1> HIDE DEF last
<1>3. \A k, l \in 1..last : k <= l => begins[k] <= begins[l]
  <2> TAKE k, l \in 1..last
  <2>1. k < l \/ k = l \/ l < k
    BY <1>1
  <2>2. QED
    BY <1>1, <1>2, <2>1
<1>4. {i, j, i + 1, j + 1} \subseteq 1..last /\ (i + 1 <= j \/ j + 1 <= i \/ i = j)
  BY <1>1
<1>5. i + 1 <= j => begins[i + 1] <= begins[j]
  BY <1>3, <1>4
<1>6. j + 1 <= i => begins[j + 1] <= begins[i]
  BY <1>3, <1>4
<1>7. {begins[i], begins[j], begins[i + 1], begins[j + 1]} \subseteq Nat
  BY <1>2, <1>4
<1>8. QED
  BY <1>4, <1>5, <1>6, <1>7

\* One turn of the loop of advance_progress, for every plan that parses.
LEMMA ConsumedUnfolds ==
  ASSUME NEW track \in Plans, NEW i \in DOMAIN track.waypoints, NEW time \in Nat
  PROVE  PR!Consumed(track)[PR!Place(i, time)] =
           LET rest == time - track.waypoints[i].duration
           IN  IF rest < 0 THEN [index |-> i, elapsed |-> time, completed |-> FALSE]
               ELSE IF i < Len(track.waypoints) THEN PR!Consumed(track)[PR!Place(i + 1, rest)]
               ELSE IF track.loop THEN PR!Consumed(track)[PR!Place(1, rest)]
               ELSE [index |-> i + 1, elapsed |-> 0, completed |-> TRUE]
<1> DEFINE S == PR!Places(track)
           rest(at) == at.elapsed - track.waypoints[at.index].duration
           Ends(at) == rest(at) < 0 \/ (at.index >= Len(track.waypoints) /\ ~track.loop)
           Stop == {at \in S : Ends(at)}
           measure == [at \in S |-> at.elapsed]
           out == [at \in S |->
                     IF rest(at) < 0
                     THEN [index |-> at.index, elapsed |-> at.elapsed, completed |-> FALSE]
                     ELSE [index |-> at.index + 1, elapsed |-> 0, completed |-> TRUE]]
           next == [at \in S \ Stop |-> PR!Place(IF at.index < Len(track.waypoints)
                                                 THEN at.index + 1 ELSE 1, rest(at))]
           Turn(f, at) == IF rest(at) < 0
                          THEN [index |-> at.index, elapsed |-> at.elapsed, completed |-> FALSE]
                          ELSE IF at.index < Len(track.waypoints)
                          THEN f[PR!Place(at.index + 1, rest(at))]
                          ELSE IF track.loop THEN f[PR!Place(1, rest(at))]
                          ELSE [index |-> at.index + 1, elapsed |-> 0, completed |-> TRUE]
<1>1. /\ DOMAIN track.waypoints = 1..Len(track.waypoints) /\ Len(track.waypoints) \in Nat
      /\ \A k \in DOMAIN track.waypoints : track.waypoints[k].duration \in Nat \ {0}
  <2> DEFINE W == [vel : Velocities, duration : Nat \ {0}]
             waypoints == track.waypoints
  <2>1. waypoints \in Seq(W)
    BY DEF Plans
  <2>2. \A w \in W : w.duration \in Nat \ {0}
    OBVIOUS
  <2> HIDE DEF W, waypoints
  <2>3. DOMAIN waypoints = 1..Len(waypoints) /\ Len(waypoints) \in Nat
        /\ \A k \in DOMAIN waypoints : waypoints[k].duration \in Nat \ {0}
    BY <2>1, <2>2
  <2>4. QED
    BY <2>3 DEF waypoints
<1>2. \A at \in S : /\ at.index \in DOMAIN track.waypoints /\ at.elapsed \in Nat
                    /\ rest(at) \in Int /\ rest(at) < at.elapsed
  BY <1>1 DEF PR!Places
<1>3. \A at \in S \ Stop : next[at] \in S /\ next[at].elapsed = rest(at)
  <2> TAKE at \in S \ Stop
  <2>1. rest(at) \in Nat
    BY <1>2
  <2>2. (IF at.index < Len(track.waypoints) THEN at.index + 1 ELSE 1) \in DOMAIN track.waypoints
    BY <1>1, <1>2
  <2> HIDE DEF rest
  <2>3. QED
    BY <2>1, <2>2 DEF PR!Places, PR!Place
<1>4. \E f : f = [at \in S |-> IF at \in Stop THEN out[at] ELSE f[next[at]]]
  <2>1. measure \in [S -> Nat] /\ Stop \in SUBSET S /\ next \in [S \ Stop -> S]
    <3>1. measure \in [S -> Nat]
      BY <1>2
    <3>2. next \in [S \ Stop -> S]
      BY <1>3
    <3>3. QED
      BY <3>1, <3>2
  <2>2. \A at \in S \ Stop : measure[next[at]] < measure[at]
    BY <1>2, <1>3
  <2> HIDE DEF measure, Stop, next, out, S
  <2>3. \A result : \E f : f = [at \in S |-> IF at \in Stop THEN result[at] ELSE f[next[at]]]
    BY <2>1, <2>2, LoopDefined, SMT
  <2>4. QED
    BY <2>3, Zenon
<1>5. \A f : \A at \in S : (IF at \in Stop THEN out[at] ELSE f[next[at]]) = Turn(f, at)
  <2> TAKE f
  <2> TAKE at \in S
  <2>1. CASE at \in Stop
    <3>1. Ends(at)
      BY <2>1
    <3>2. rest(at) < 0 \/ (~(rest(at) < 0) /\ ~(at.index < Len(track.waypoints)) /\ ~track.loop)
      BY <1>1, <1>2, <3>1
    <3>3. Turn(f, at) = out[at]
      BY <3>2, Zenon
    <3>4. QED
      BY <2>1, <3>3
  <2>2. CASE at \notin Stop
    <3>1. ~Ends(at)
      BY <2>2
    <3>2. ~(rest(at) < 0) /\ (at.index < Len(track.waypoints) \/ track.loop)
      BY <1>1, <1>2, <3>1
    <3>3. next[at] = PR!Place(IF at.index < Len(track.waypoints)
                              THEN at.index + 1 ELSE 1, rest(at))
      BY <2>2, Zenon
    <3> HIDE DEF next, rest
    <3>4. Turn(f, at) = f[next[at]]
      BY <3>2, <3>3, Zenon
    <3>5. QED
      BY <2>2, <3>4
  <2>3. QED
    BY <2>1, <2>2
<1> HIDE DEF Stop, out, next
<1>6. PICK f : f = [at \in S |-> IF at \in Stop THEN out[at] ELSE f[next[at]]]
  BY <1>4
<1>7. f = [at \in S |-> Turn(f, at)]
  BY <1>5, <1>6, Zenon
<1>8. PR!Consumed(track) = [at \in S |-> Turn(PR!Consumed(track), at)]
  BY <1>7, Zenon DEF PR!Consumed
<1>9. PR!Place(i, time) \in S /\ PR!Place(i, time).index = i /\ PR!Place(i, time).elapsed = time
  BY DEF PR!Place, PR!Places
<1>10. PR!Consumed(track)[PR!Place(i, time)] = Turn(PR!Consumed(track), PR!Place(i, time))
  <2> HIDE DEF Turn
  <2>1. QED
    BY <1>8, <1>9, Zenon
<1>11. QED
  BY <1>9, <1>10, Zenon

\* The loop has arrived where a track that plays for time is: at the waypoint
\* under it, or at the end.
Lands(track, begins, at, time) ==
  LET length == begins[Len(track.waypoints) + 1]
  IN  IF track.loop \/ time < length
      THEN /\ at.completed = FALSE
           /\ at.index \in DOMAIN track.waypoints
           /\ at.elapsed \in 0..(track.waypoints[at.index].duration - 1)
           /\ begins[at.index] + at.elapsed = IF track.loop THEN time % length ELSE time
      ELSE at = [index |-> Len(track.waypoints) + 1, elapsed |-> 0, completed |-> TRUE]

\* The loop of advance_progress lands where a track that plays for the same time
\* lands, however many waypoints and however many rounds that is: by induction on
\* the time that is left.
LEMMA ConsumedLands ==
  ASSUME NEW track \in Plans, NEW begins, Schedules(begins, track.waypoints),
         NEW first \in DOMAIN track.waypoints, NEW elapsed \in Nat
  PROVE  Lands(track, begins, PR!Consumed(track)[PR!Place(first, elapsed)], begins[first] + elapsed)
<1> DEFINE waypoints == track.waypoints
           last == Len(waypoints)
           length == begins[last + 1]
           Reached(i, n) == PR!Consumed(track)[PR!Place(i, n)]
           Landed == {n \in Nat : \A i \in DOMAIN waypoints :
                                    Lands(track, begins, Reached(i, n), begins[i] + n)}
<1>1. last \in Nat /\ DOMAIN waypoints = 1..last
  BY DEF Plans
<1>2. /\ begins[1] = 0
      /\ \A i \in 1..(last + 1) : begins[i] \in Nat
      /\ \A i \in DOMAIN waypoints : /\ waypoints[i].duration \in Nat \ {0}
                                     /\ begins[i + 1] = begins[i] + waypoints[i].duration
      /\ \A i, j \in 1..(last + 1) : i < j => begins[i] < begins[j]
  BY ScheduleIncreases
<1> HIDE DEF last, waypoints
<1>3. ASSUME NEW n \in Nat, \A k \in Nat : k < n => k \in Landed, NEW i \in DOMAIN waypoints
      PROVE  Lands(track, begins, Reached(i, n), begins[i] + n)
  <2> DEFINE rest == n - waypoints[i].duration
             time == begins[i] + n
  <2>1. /\ rest \in Int /\ rest < n /\ time \in Nat /\ time = begins[i + 1] + rest
        /\ waypoints[i].duration \in Nat \ {0} /\ {i, i + 1, last + 1} \subseteq 1..(last + 1)
        /\ length \in Nat \ {0}
    <3>1. i \in 1..last /\ 1 < last + 1 /\ {1, i, i + 1, last + 1} \subseteq 1..(last + 1)
      BY <1>1
    <3>2. waypoints[i].duration \in Nat \ {0} /\ begins[i] \in Nat /\ length \in Nat
          /\ begins[i + 1] = begins[i] + waypoints[i].duration /\ begins[1] < length
      BY <1>1, <1>2, <3>1
    <3>3. QED
      BY <1>2, <3>1, <3>2
  <2>2. Reached(i, n) =
          IF rest < 0 THEN [index |-> i, elapsed |-> n, completed |-> FALSE]
          ELSE IF i < last THEN Reached(i + 1, rest)
          ELSE IF track.loop THEN Reached(1, rest)
          ELSE [index |-> i + 1, elapsed |-> 0, completed |-> TRUE]
    BY ConsumedUnfolds DEF last, waypoints
  <2> HIDE DEF rest, time, Reached
  <2>3. \A j \in DOMAIN waypoints : rest \in Nat =>
          Lands(track, begins, Reached(j, rest), begins[j] + rest)
    <3>1. rest \in Nat => rest \in Landed
      <4> HIDE DEF Landed
      <4>1. QED
        BY <1>3, <2>1
    <3>2. QED
      BY <3>1
  <2> HIDE DEF Landed
  <2>4. CASE rest < 0
    <3>1. begins[i + 1] <= length
      <4>1. i + 1 < last + 1 \/ i + 1 = last + 1
        BY <1>1, <2>1
      <4>2. {begins[i + 1], length} \subseteq Nat
        BY <1>2, <2>1
      <4>3. QED
        BY <1>2, <2>1, <4>1, <4>2
    <3>2. time < length /\ time % length = time
      <4>1. begins[i + 1] \in Nat
        BY <1>2, <2>1
      <4>2. time < length
        BY <2>1, <2>4, <3>1, <4>1
      <4>3. QED
        BY <2>1, <4>2, Remainder
    <3>3. n \in 0..(waypoints[i].duration - 1)
      BY <2>1, <2>4 DEF rest
    <3>4. Reached(i, n) = [index |-> i, elapsed |-> n, completed |-> FALSE]
      BY <2>2, <2>4
    <3>5. QED
      BY <3>2, <3>3, <3>4 DEF Lands, last, waypoints, time
  <2>5. CASE rest >= 0 /\ i < last
    <3>1. i + 1 \in DOMAIN waypoints /\ rest \in Nat
      BY <1>1, <2>1, <2>5
    <3>2. Reached(i, n) = Reached(i + 1, rest)
      BY <2>1, <2>2, <2>5
    <3>3. QED
      BY <2>1, <2>3, <3>1, <3>2 DEF time
  <2>6. CASE rest >= 0 /\ i >= last
    <3>1. i = last /\ 1 \in DOMAIN waypoints /\ rest \in Nat /\ ~(rest < 0) /\ ~(i < last)
      BY <1>1, <2>1, <2>6
    <3>2. time = rest + length /\ time >= length
      BY <2>1, <3>1
    <3>3. CASE track.loop
      <4>1. Reached(i, n) = Reached(1, rest)
        BY <2>2, <3>1, <3>3
      <4>2. Lands(track, begins, Reached(1, rest), begins[1] + rest)
        BY <2>3, <3>1
      <4>3. begins[1] + rest = rest
        BY <1>2, <3>1
      <4>4. rest % length = time % length
        BY <2>1, <3>1, <3>2, Remainder
      <4>5. QED
        BY <3>3, <4>1, <4>2, <4>3, <4>4 DEF Lands, last, waypoints, time
    <3>4. CASE ~track.loop
      <4>1. Reached(i, n) = [index |-> last + 1, elapsed |-> 0, completed |-> TRUE]
        BY <2>2, <3>1, <3>4
      <4>2. ~(time < length)
        BY <2>1, <3>2
      <4>3. QED
        BY <3>4, <4>1, <4>2 DEF Lands, last, waypoints, time
    <3>5. QED
      BY <3>3, <3>4
  <2>7. QED
    BY <2>1, <2>4, <2>5, <2>6, <1>1
<1>4. Nat \subseteq Landed
  <2>1. \A n \in Nat : (\A k \in Nat : k < n => k \in Landed) => n \in Landed
    BY <1>3
  <2> HIDE DEF Landed
  <2>2. QED
    BY <2>1, SetInduction
<1>5. QED
  BY <1>4 DEF waypoints

(***************************************************************************)
(* The plan keeps to its track.                                            *)
(***************************************************************************)

\* The position in the plan is one that its next tick can go on from.
OnTrack ==
  /\ plan.waypoints = << >> => progress.index = 1 /\ progress.elapsed = 0
  /\ plan.waypoints # << >> =>
       \/ /\ progress.completed = FALSE
          /\ progress.index \in DOMAIN plan.waypoints
          /\ progress.elapsed \in 0..(plan.waypoints[progress.index].duration - 1)
       \/ /\ ~plan.loop
          /\ progress = [index |-> Len(plan.waypoints) + 1, elapsed |-> 0, completed |-> TRUE]

\* The plan parses and its position is one of its own.
PlanInv == plan \in Plans /\ OnTrack

\* parse_plan returns a plan that parses, whatever file it is given.
LEMMA LoadedPlan ==
  ASSUME NEW file \in PR!PlanFiles
  PROVE  PR!LoadPlan(file) \in Plans
<1>1. PR!EmptyPlan \in Plans
  <2>1. << >> \in Seq([vel : Velocities, duration : Nat \ {0}])
    OBVIOUS
  <2>2. QED
    BY <2>1 DEF Plans, PR!EmptyPlan
<1>2. ASSUME \A i \in DOMAIN file.waypoints : ~(file.waypoints[i].duration <= 0)
      PROVE  file \in Plans
  <2> DEFINE W == [vel : Velocities, duration : Int]
             P == [vel : Velocities, duration : Nat \ {0}]
             waypoints == file.waypoints
  <2>1. waypoints \in Seq(W) /\ file.loop \in BOOLEAN
        /\ file = [waypoints |-> waypoints, loop |-> file.loop]
    <3>1. file \in [waypoints : Seq(W), loop : BOOLEAN]
      BY DEF PR!PlanFiles, PR!Velocities, Velocities
    <3> HIDE DEF W
    <3>2. QED
      BY <3>1
  <2>2. \A w \in W : ~(w.duration <= 0) => w \in P
    OBVIOUS
  <2>3. waypoints \in Seq(P)
    <3>1. \A i \in DOMAIN waypoints : ~(waypoints[i].duration <= 0)
      BY <1>2
    <3> HIDE DEF waypoints, W, P
    <3>2. \A i \in 1..Len(waypoints) : waypoints[i] \in P
      BY <2>1, <2>2, <3>1
    <3>3. QED
      BY <2>1, <3>2
  <2> HIDE DEF waypoints
  <2>4. QED
    BY <2>1, <2>3 DEF Plans
<1>3. QED
  BY <1>1, <1>2 DEF PR!LoadPlan

\* A tick leaves the position at a waypoint or, in a plan that does not loop, at
\* the end.
LEMMA ProgressStays ==
  ASSUME PlanInv, plan' = plan,
         progress' = PR!AdvanceProgress(progress, plan, TickTime)
  PROVE  PlanInv'
<1>1. TickTime \in Nat \ {0}
  BY SourcesAssumption DEF PR!ProviderConstants
<1>2. CASE plan.waypoints = << >>
  BY <1>2 DEF PR!AdvanceProgress, PlanInv, OnTrack
<1>3. CASE plan.waypoints # << >> /\ progress.completed = TRUE
  BY <1>3 DEF PR!AdvanceProgress, PlanInv, OnTrack
<1>4. CASE plan.waypoints # << >> /\ progress.completed = FALSE
  <2>1. /\ progress.index \in DOMAIN plan.waypoints
        /\ progress.elapsed \in 0..(plan.waypoints[progress.index].duration - 1)
    BY <1>4 DEF PlanInv, OnTrack
  <2>2. progress.elapsed + TickTime \in Nat
    BY <1>1, <2>1, PlanShape DEF PlanInv
  <2>3. progress' = PR!Consumed(plan)[PR!Place(progress.index, progress.elapsed + TickTime)]
    BY <1>4 DEF PR!AdvanceProgress
  <2>4. Lands(plan, Track!Begins, progress',
              Track!Begins[progress.index] + (progress.elapsed + TickTime))
    BY <2>1, <2>2, <2>3, TrackSchedules, ConsumedLands DEF PlanInv
  <2>5. QED
    BY <2>4, <1>4 DEF PlanInv, OnTrack, Lands
<1>5. plan.waypoints # << >> => progress.completed = TRUE \/ progress.completed = FALSE
  BY DEF PlanInv, OnTrack
<1>6. QED
  BY <1>2, <1>3, <1>4, <1>5

\* Every step keeps the position on the track: only a tick of the provider and
\* its restart move it.
LEMMA StepKeepsPlan ==
  ASSUME PlanInv, Step
  PROVE  PlanInv'
<1>1. CASE ScriptedTick
  BY <1>1, ProgressStays DEF ScriptedTick, PR!ScriptedTick, PlanInv, OnTrack
<1>2. CASE Commands /\ ~ScriptedTick
  <2>1. UNCHANGED <<plan, progress>>
    BY <1>2 DEF Commands, BridgeTick, StubTick, RegistryTick, CountTick,
       Nav2Command, SkillRequest, SetEnabled, provider, PR!StubTick, PR!nodeVars, PR!SetEnabled
  <2>2. QED
    BY <2>1 DEF PlanInv, OnTrack
<1>3. CASE Deliveries \/ Hearings \/ StreamChange
  <2>1. UNCHANGED <<plan, progress>>
    BY <1>3 DEF Deliveries, AutonomyToArbiter, PolicyToArbiter, CapabilitiesToServer,
       Hearings, HearMode, HearSafety, HearLocomotion, StreamChange, provider,
       PR!OnMode, PR!OnSafety
  <2>2. QED
    BY <2>1 DEF PlanInv, OnTrack
<1>4. CASE \E n \in Nodes : Crash(n) \/ Recover(n)
  <2>1. plan' = plan /\ progress' \in {progress, PR!InitialProgress}
    BY <1>4 DEF Crash, Recover, provider, PR!Restart
  <2>2. CASE progress' = PR!InitialProgress
    BY <2>1, <2>2, PlanShape DEF PlanInv, OnTrack, PR!InitialProgress
  <2>3. QED
    BY <2>1, <2>2 DEF PlanInv, OnTrack
<1>5. QED
  BY <1>1, <1>2, <1>3, <1>4 DEF Step, Commands, Deliveries, Hearings

\* A provider starts at the first waypoint, without a plan file at none.
LEMMA InitPlan == Init => PlanInv
<1> SUFFICES ASSUME Init PROVE PlanInv
  OBVIOUS
<1>1. PR!EmptyPlan \in PR!PlanFiles
  <2>1. << >> \in Seq([vel : Velocities, duration : Int])
    OBVIOUS
  <2>2. QED
    BY <2>1 DEF PR!PlanFiles, PR!EmptyPlan
<1>2. PICK file \in PR!PlanFiles : PR!NodeInit(file)
  BY <1>1, SourcesAssumption DEF Init
<1>3. plan \in Plans /\ progress = PR!InitialProgress
  BY <1>2, LoadedPlan DEF PR!NodeInit
<1>4. QED
  BY <1>3, PlanShape DEF PlanInv, OnTrack, PR!InitialProgress

\* The position stays on the track.
LEMMA PlanInvariant == Spec => []PlanInv
<1>1. PlanInv /\ [Next]_vars => PlanInv'
  <2> SUFFICES ASSUME PlanInv, [Next]_vars PROVE PlanInv'
    OBVIOUS
  <2>1. CASE Step
    BY <2>1, StepKeepsPlan
  <2>2. CASE Advance \/ UNCHANGED vars
    BY <2>2 DEF PlanInv, OnTrack, Advance, vars, provider
  <2>3. QED
    BY <2>1, <2>2 DEF Next
<1>2. QED
  BY <1>1, InitPlan, PTL DEF Spec

(***************************************************************************)
(* The scripted provider implements PlanPlayback.                          *)
(***************************************************************************)

\* A tick with the gate open plays the track for one more TickTime: the new
\* position, and the velocity of the one segment under it, or nothing at the end.
LEMMA TickPlays ==
  ASSUME PlanInv, plan' = plan,
         progress' = PR!AdvanceProgress(progress, plan, TickTime),
         emitted' = PR!CurrentCommand(progress', plan)
  PROVE  Playback!Next
<1> DEFINE begins == Track!Begins
           last == Len(plan.waypoints)
           length == begins[last + 1]
           position == begins[progress.index] + progress.elapsed
           after == begins[progress'.index] + progress'.elapsed
<1>1. Schedules(begins, plan.waypoints) /\ plan \in Plans /\ Playback!Begins = begins
  BY TrackSchedules, SameSchedule DEF PlanInv
<1>2. TickTime \in Nat \ {0}
  BY SourcesAssumption DEF PR!ProviderConstants
<1>3. begins' = begins
  BY Zenon DEF Track!Begins
<1>4. (position)' = after
  BY <1>3
<1>5. /\ begins[1] = 0 /\ last \in Nat /\ DOMAIN plan.waypoints = 1..last
      /\ plan.waypoints = << >> <=> last = 0
      /\ \A i \in 1..(last + 1) : begins[i] \in Nat
      /\ \A i \in DOMAIN plan.waypoints : begins[i + 1] = begins[i] + plan.waypoints[i].duration
      /\ \A i \in DOMAIN plan.waypoints : plan.waypoints[i].duration \in Nat \ {0}
      /\ \A i, j \in 1..(last + 1) : i < j => begins[i] < begins[j]
  BY <1>1, ScheduleIncreases, PlanShape
<1> HIDE DEF begins
<1>6. Playback!Length = length /\ Playback!Begins = begins
  BY <1>1, Zenon DEF Playback!Length, begins
<1>7. CASE plan.waypoints = << >>
  <2>1. /\ progress.index = 1 /\ progress.elapsed = 0 /\ emitted' = {}
        /\ progress' = [index |-> 1, elapsed |-> 0, completed |-> TRUE]
    BY <1>7 DEF PlanInv, OnTrack, PR!AdvanceProgress, PR!CurrentCommand
  <2>2. length = 0 /\ position = 0 /\ after = 0
    BY <1>5, <1>7, <2>1
  <2>3. Playback!Over
    BY <1>4, <1>6, <2>1, <2>2 DEF Playback!Over, begins
  <2>4. QED
    BY <2>3 DEF Playback!Next
<1>8. CASE plan.waypoints # << >>
  <2>1. length \in Nat /\ length > 0
    <3>1. {1, last + 1} \subseteq 1..(last + 1) /\ 1 < last + 1
      BY <1>5, <1>8
    <3>2. QED
      BY <1>5, <3>1
  <2>2. CASE progress.completed = TRUE
    <3>1. ~plan.loop /\ position = length /\ after = length /\ emitted' = {}
      <4>1. /\ progress = [index |-> last + 1, elapsed |-> 0, completed |-> TRUE] /\ ~plan.loop
            /\ progress' = progress /\ emitted' = {}
        BY <1>8, <2>2 DEF PlanInv, OnTrack, PR!AdvanceProgress, PR!CurrentCommand
      <4>2. /\ progress.index = last + 1 /\ progress.elapsed = 0
            /\ progress'.index = last + 1 /\ progress'.elapsed = 0
        <5> HIDE DEF last
        <5>1. QED
          BY <4>1
      <4>3. position = length + 0 /\ after = length + 0
        BY <4>2
      <4> HIDE DEF length, position, after
      <4>4. length + 0 = length
        BY <2>1
      <4>5. QED
        BY <4>1, <4>3, <4>4
    <3>2. length + TickTime >= length
      BY <1>2, <2>1
    <3> HIDE DEF position, after, length
    <3>3. Playback!Play
      BY <1>2, <1>4, <1>6, <2>1, <3>1, <3>2 DEF Playback!Play, begins, position
    <3>4. QED
      BY <3>3 DEF Playback!Next
  <2>3. CASE progress.completed = FALSE
    <3> DEFINE reached == position + TickTime
    <3>1. /\ progress.index \in 1..last
          /\ progress.elapsed \in 0..(plan.waypoints[progress.index].duration - 1)
          /\ progress.elapsed \in Nat
      BY <1>5, <1>8, <2>3 DEF PlanInv, OnTrack
    <3>2. progress.elapsed + TickTime \in Nat /\ reached \in Nat
          /\ reached = begins[progress.index] + (progress.elapsed + TickTime)
      <4>1. begins[progress.index] \in Nat
        BY <1>5, <3>1
      <4>2. QED
        BY <1>2, <3>1, <4>1
    <3>3. progress' = PR!Consumed(plan)[PR!Place(progress.index, progress.elapsed + TickTime)]
      BY <1>8, <2>3 DEF PR!AdvanceProgress
    <3>4. Lands(plan, begins, progress', reached)
      <4>1. progress.index \in DOMAIN plan.waypoints
        BY <1>5, <3>1
      <4> HIDE DEF reached
      <4>2. QED
        BY <1>1, <3>2, <3>3, <4>1, ConsumedLands
    <3> HIDE DEF reached, position
    <3>5. CASE plan.loop \/ reached < length
      <4>1. /\ progress'.completed = FALSE /\ progress'.index \in 1..last
            /\ progress'.elapsed \in 0..(plan.waypoints[progress'.index].duration - 1)
            /\ after = IF plan.loop THEN reached % length ELSE reached
        BY <1>5, <3>4, <3>5 DEF Lands
      <4>2. after \in Nat /\ after < length
        <5> HIDE DEF after, length
        <5>1. reached % length \in 0..(length - 1)
          <6>1. length \in Nat \ {0} /\ reached \in Nat
            BY <2>1, <3>2
          <6>2. QED
            BY <6>1, Remainder, Zenon
        <5>2. QED
          BY <2>1, <3>2, <3>5, <4>1, <5>1
      <4>3. emitted' = {plan.waypoints[progress'.index].vel}
        BY <1>8, <4>1 DEF PR!CurrentCommand
      <4>4. Playback!SegmentAt(after) = progress'.index
        <5>1. begins[progress'.index] <= after /\ after < begins[progress'.index + 1]
          <6> DEFINE i == progress'.index
          <6>1. i \in DOMAIN plan.waypoints /\ i \in 1..(last + 1)
            BY <1>5, <4>1
          <6>2. /\ begins[i] \in Nat /\ plan.waypoints[i].duration \in Nat \ {0}
                /\ begins[i + 1] = begins[i] + plan.waypoints[i].duration
            BY <1>5, <6>1
          <6>3. QED
            BY <4>1, <6>2
        <5>2. \A i \in DOMAIN plan.waypoints :
                begins[i] <= after /\ after < begins[i + 1] => i = progress'.index
          <6>1. progress'.index \in DOMAIN plan.waypoints
            BY <1>5, <4>1
          <6> HIDE DEF after
          <6>2. QED
            BY <1>1, <4>2, <5>1, <6>1, OneSegment
        <5> HIDE DEF after
        <5>3. progress'.index \in DOMAIN plan.waypoints
          BY <1>5, <4>1
        <5>4. QED
          BY <1>6, <5>1, <5>2, <5>3 DEF Playback!SegmentAt
      <4> HIDE DEF after, length
      <4>5. Playback!Play
        BY <1>4, <1>6, <2>1, <3>5, <4>1, <4>2, <4>3, <4>4
           DEF Playback!Play, begins, position, reached
      <4>6. QED
        BY <4>5 DEF Playback!Next
    <3>6. CASE ~(plan.loop \/ reached < length)
      <4>1. progress' = [index |-> last + 1, elapsed |-> 0, completed |-> TRUE]
        BY <3>4, <3>6 DEF Lands
      <4>2. after = length /\ emitted' = {}
        BY <2>1, <4>1 DEF PR!CurrentCommand
      <4> HIDE DEF after, length
      <4>3. Playback!Play
        BY <1>4, <1>6, <2>1, <3>6, <4>2 DEF Playback!Play, begins, position, reached
      <4>4. QED
        BY <4>3 DEF Playback!Next
    <3>7. QED
      BY <3>5, <3>6
  <2>4. progress.completed = TRUE \/ progress.completed = FALSE
    BY <1>8 DEF PlanInv, OnTrack
  <2>5. QED
    BY <2>2, <2>3, <2>4
<1>9. QED
  BY <1>7, <1>8

\* The first waypoint begins when the track does.
LEMMA StartsAtTheBeginning ==
  ASSUME PlanInv, progress = PR!InitialProgress
  PROVE  Track!Begins[progress.index] + progress.elapsed = 0
<1>1. Track!Begins[1] = 0
  BY TrackSchedules, ScheduleIncreases DEF PlanInv
<1>2. QED
  BY <1>1 DEF PR!InitialProgress

\* Nothing but a tick with the gate open and a new process moves the plan.
LEMMA PlaybackSteps ==
  ASSUME PlanInv, [Next]_vars
  PROVE  [Playback!Next]_<<plan, Track!Begins[progress.index] + progress.elapsed, emitted>>
<1>1. plan' = plan => Track!Begins' = Track!Begins
  BY Zenon DEF Track!Begins
<1>2. UNCHANGED <<plan, progress, emitted>> =>
        UNCHANGED <<plan, Track!Begins[progress.index] + progress.elapsed, emitted>>
  BY <1>1
<1>3. CASE ScriptedTick
  <2>1. CASE PR!ShouldEmitCandidate
    BY <1>3, <2>1, TickPlays DEF ScriptedTick, PR!ScriptedTick
  <2>2. CASE ~PR!ShouldEmitCandidate
    BY <1>2, <1>3, <2>2 DEF ScriptedTick, PR!ScriptedTick
  <2>3. QED
    BY <2>1, <2>2
<1>4. CASE Commands /\ ~ScriptedTick
  <2>1. UNCHANGED <<plan, progress, emitted>>
    BY <1>4 DEF Commands, BridgeTick, StubTick, RegistryTick, CountTick,
       Nav2Command, SkillRequest, SetEnabled, provider, PR!StubTick, PR!nodeVars, PR!SetEnabled
  <2>2. QED
    BY <1>2, <2>1
<1>5. CASE Deliveries \/ Hearings \/ StreamChange \/ Advance \/ UNCHANGED vars
  <2>1. UNCHANGED <<plan, progress, emitted>>
    BY <1>5 DEF Deliveries, AutonomyToArbiter, PolicyToArbiter, CapabilitiesToServer,
       Hearings, HearMode, HearSafety, HearLocomotion, StreamChange, Advance, vars, provider,
       PR!OnMode, PR!OnSafety
  <2>2. QED
    BY <1>2, <2>1
<1>6. CASE \E n \in Nodes : Crash(n) \/ Recover(n)
  <2>1. \/ UNCHANGED <<plan, progress, emitted>>
        \/ plan' = plan /\ progress' = PR!InitialProgress /\ emitted' = {}
    BY <1>6 DEF Crash, Recover, provider, PR!Restart
  <2>2. ASSUME plan' = plan, progress' = PR!InitialProgress, emitted' = {}
        PROVE  Playback!Rewind
    <3>1. Track!Begins[1] = 0
      BY TrackSchedules, ScheduleIncreases DEF PlanInv
    <3>2. (Track!Begins[progress.index] + progress.elapsed)' = 0
      BY <1>1, <2>2, <3>1 DEF PR!InitialProgress
    <3>3. QED
      BY <2>2, <3>2 DEF Playback!Rewind
  <2>3. QED
    BY <1>2, <2>1, <2>2 DEF Playback!Next
<1>7. QED
  BY <1>3, <1>4, <1>5, <1>6 DEF Next, Step, Commands, Deliveries, Hearings

\* The scripted provider implements the playback of a track: whatever the gate,
\* the mode, the streams and crashes do between its ticks, the position moves on
\* by a tick of time with each tick of an open gate and by nothing else, a looping
\* plan loses no time, and the segment under the position is played; one that
\* lies within a tick is passed over (PolicyProvider, WaypointPlan).
THEOREM PlaybackImplemented == Spec => PlaybackRefined
<1>1. Init => Playback!Init
  <2> SUFFICES ASSUME Init PROVE Playback!Init
    OBVIOUS
  <2>1. progress = PR!InitialProgress /\ emitted = {}
    BY DEF Init, PR!NodeInit
  <2>2. QED
    BY <2>1, InitPlan, StartsAtTheBeginning DEF Playback!Init
<1>2. PlanInv /\ [Next]_vars =>
        [Playback!Next]_<<plan, Track!Begins[progress.index] + progress.elapsed, emitted>>
  BY PlaybackSteps
<1>3. QED
  BY <1>1, <1>2, PlanInvariant, PTL DEF Spec, PlaybackRefined, Playback!Spec

(***************************************************************************)
(* Messages and memory.                                                    *)
(***************************************************************************)

\* Who may move the robot: the bridge, a provider or the skill server, each with
\* views that permit it.
BridgeOpen == brMode = "AUTONOMY" /\ brSafety \in AllowedSafety

ProviderOpen == prMode = "AI_POLICY" /\ prSafety \in AllowedSafety

ServerOpen ==
  /\ skMode = "AI_POLICY" /\ skSafety \notin SK!UnsafeStates
  /\ \E name \in CR!MotionCapabilities : name \in DOMAIN known /\ known[name] \notin SK!Unusable

\* The arbiter's memory of a source changes when it takes a candidate.
LEMMA Remembered ==
  ASSUME Step
  PROVE  /\ ~AutonomyToArbiter => candidates' = candidates
                                  \/ PolicyToArbiter
         /\ ~PolicyToArbiter => candidates' = candidates \/ AutonomyToArbiter
<1>1. CASE Commands
  BY <1>1 DEF Commands, BridgeTick, StubTick, ScriptedTick, RegistryTick, CountTick,
     Nav2Command, SkillRequest, SetEnabled
<1>2. CASE Hearings \/ StreamChange \/ CapabilitiesToServer
  BY <1>2 DEF CapabilitiesToServer, Hearings, HearMode, HearSafety, HearLocomotion, StreamChange
<1>3. CASE \E n \in Nodes : Crash(n) \/ Recover(n)
  BY <1>3 DEF Crash, Recover
<1>4. QED
  BY <1>1, <1>2, <1>3 DEF Step, Commands, Hearings

\* Only the bridge sends an autonomy candidate, at the moment a command reaches
\* it and with its gate open.
LEMMA AutonomySent ==
  ASSUME Step
  PROVE  \/ autonomy' = autonomy
         \/ AutonomyToArbiter
         \/ /\ Nav2Command /\ BridgeOpen /\ inputAge' = 0
            /\ autonomy' = Publish(autonomy, Sample(Velocity))
<1>1. CASE Nav2Command
  <2>1. inputAge' = 0 /\ autonomy' = IF BR!Status(0) = "ACTIVE"
                                     THEN BR!Publish(autonomy, BR!Sample(Velocity)) ELSE autonomy
    BY <1>1 DEF Nav2Command, BR!HandleCommand
  <2>2. BR!Status(0) = "ACTIVE" => BridgeOpen
    BY DEF BR!Status, BR!GateOpen, BridgeOpen, BR!AllowedSafety, AllowedSafety
  <2>3. BR!Publish(autonomy, BR!Sample(Velocity)) = Publish(autonomy, Sample(Velocity))
    BY DEF BR!Publish, BR!Enqueue, BR!Sample, Publish, Enqueue, Sample
  <2>4. QED
    BY <1>1, <2>1, <2>2, <2>3
<1>2. CASE Commands /\ ~Nav2Command
  BY <1>2 DEF Commands, BridgeTick, StubTick, ScriptedTick, RegistryTick,
     SkillRequest, SetEnabled, BR!Tick, BR!SetEnabled, BR!topicVars
<1>3. CASE Hearings \/ StreamChange \/ CapabilitiesToServer \/ PolicyToArbiter
  BY <1>3 DEF CapabilitiesToServer, Hearings, HearMode, HearSafety, HearLocomotion, StreamChange,
     PolicyToArbiter, BR!OnModeState, BR!OnSafetyState, BR!OnLocomotionState, BR!topicVars
<1>4. CASE \E n \in Nodes : Crash(n) \/ Recover(n)
  BY <1>4 DEF Crash, Recover
<1>5. QED
  BY <1>1, <1>2, <1>3, <1>4 DEF Step, Commands, Hearings

\* A provider or the skill server sends a policy candidate, one that moves only
\* with its gate open.
LEMMA PolicySent ==
  ASSUME Step
  PROVE  \/ policy' = policy
         \/ PolicyToArbiter
         \/ \E vel : /\ policy' = Publish(policy, Sample(vel))
                     /\ candidates' = candidates
                     /\ vel = Zero \/ ProviderOpen \/ ServerOpen
<1>1. PR!ShouldEmitCandidate => ProviderOpen
  BY DEF PR!ShouldEmitCandidate, ProviderOpen, PR!AllowedSafety, AllowedSafety
<1>2. \A vel : PR!Publish(policy, PR!Sample(vel)) = Publish(policy, Sample(vel))
               /\ SK!Publish(policy, SK!Sample(vel)) = Publish(policy, Sample(vel))
  BY DEF PR!Publish, PR!Enqueue, PR!Sample, SK!Publish, SK!Enqueue, SK!Sample, Publish, Enqueue,
     Sample
<1>3. CASE StubTick
  BY <1>1, <1>2, <1>3 DEF StubTick, CountTick, PR!StubTick
<1>4. CASE ScriptedTick
  <2>1. policy' = policy \/ (/\ PR!ShouldEmitCandidate
                             /\ \E vel : policy' = PR!Publish(policy, PR!Sample(vel)))
    BY <1>4 DEF ScriptedTick, PR!ScriptedTick
  <2>2. QED
    BY <1>1, <1>2, <1>4, <2>1 DEF ScriptedTick, CountTick
<1>5. CASE SkillRequest
  <2>1. PICK name \in Skills, dryRun \in BOOLEAN : SK!OnExecuteSkill(name, dryRun)
    BY <1>5 DEF SkillRequest
  <2>2. policy' = policy \/ (SK!Accepts(name) /\ policy' = SK!Publish(policy, SK!Sample(SK!Command(name))))
    BY <2>1 DEF SK!OnExecuteSkill
  <2>3. SK!Accepts(name) => SK!Command(name) = Zero \/ ServerOpen
    BY DEF SK!Accepts, SK!Decision, SK!Command, SK!ExecutableSkills, ServerOpen,
       CR!MotionCapabilities, SK!Zero, Zero
  <2>4. QED
    BY <1>2, <1>5, <2>2, <2>3 DEF SkillRequest
<1>6. CASE BridgeTick \/ RegistryTick \/ Nav2Command \/ SetEnabled
  BY <1>6 DEF BridgeTick, RegistryTick, Nav2Command, SetEnabled, PR!SetEnabled
<1>7. CASE Hearings \/ StreamChange \/ CapabilitiesToServer \/ AutonomyToArbiter
  BY <1>7 DEF CapabilitiesToServer, Hearings, HearMode, HearSafety, HearLocomotion, StreamChange,
     AutonomyToArbiter, PR!OnMode, PR!OnSafety, SK!OnModeState, SK!OnSafetyState,
     SK!OnCapabilities
<1>8. CASE \E n \in Nodes : Crash(n) \/ Recover(n)
  BY <1>8 DEF Crash, Recover
<1>9. QED
  BY <1>3, <1>4, <1>5, <1>6, <1>7, <1>8 DEF Step, Hearings

\* The nodes that may move the robot in mode s.
OpenFor(s) == IF s = "AUTONOMY" THEN BridgeOpen ELSE ProviderOpen \/ ServerOpen

\* Every step leaves source s alone, or adds a candidate to its queue, or hands
\* the next one to the arbiter.
LEMMA SourceSteps ==
  ASSUME Shape, Step, NEW s \in Gated
  PROVE  \/ TopicOf(s)'["arbiter"] = TopicOf(s)["arbiter"] /\ candidates'[s] = candidates[s]
         \/ \E vel : /\ TopicOf(s)'["arbiter"] = Enqueue(TopicOf(s)["arbiter"], Sample(vel))
                     /\ candidates'[s] = candidates[s]
                     /\ vel = Zero \/ OpenFor(s)
         \/ /\ TopicOf(s)["arbiter"] # << >>
            /\ TopicOf(s)'["arbiter"] = Tail(TopicOf(s)["arbiter"])
            /\ candidates'[s] = [vel |-> Head(TopicOf(s)["arbiter"]).vel, age |-> 0]
<1>1. DOMAIN autonomy = {"arbiter"} /\ DOMAIN policy = {"arbiter"} /\ DOMAIN candidates = Gated
  BY DEF Shape, CandidatesTyped, Topics
<1>2. Gated = {"AUTONOMY", "AI_POLICY"}
  BY DEF Gated
<1>3. CASE s = "AUTONOMY"
  <2>1. TopicOf(s) = autonomy /\ TopicOf(s)' = autonomy'
    BY <1>3 DEF TopicOf
  <2>2. CASE AutonomyToArbiter
    BY <1>1, <1>3, <2>1, <2>2 DEF AutonomyToArbiter, Remember, Take
  <2>3. CASE ~AutonomyToArbiter
    <3>1. candidates'[s] = candidates[s]
      BY <1>1, <1>2, <1>3, <2>3, Remembered DEF PolicyToArbiter, Remember
    <3>2. QED
      BY <1>1, <1>3, <2>1, <2>3, <3>1, AutonomySent DEF OpenFor, Publish
  <2>4. QED
    BY <2>2, <2>3
<1>4. CASE s = "AI_POLICY"
  <2>1. TopicOf(s) = policy /\ TopicOf(s)' = policy'
    BY <1>4 DEF TopicOf
  <2>2. CASE PolicyToArbiter
    BY <1>1, <1>4, <2>1, <2>2 DEF PolicyToArbiter, Remember, Take
  <2>3. CASE ~PolicyToArbiter
    <3>1. candidates'[s] = candidates[s]
      BY <1>1, <1>2, <1>4, <2>3, Remembered DEF AutonomyToArbiter, Remember
    <3>2. policy' = policy \/ \E vel : /\ policy' = Publish(policy, Sample(vel))
                                       /\ vel = Zero \/ ProviderOpen \/ ServerOpen
      BY <2>3, PolicySent
    <3>3. QED
      BY <1>1, <1>4, <2>1, <3>1, <3>2 DEF OpenFor, Publish
  <2>4. QED
    BY <2>2, <2>3
<1>5. QED
  BY <1>2, <1>3, <1>4

\* A source whose nodes may not move the robot stays still.
LEMMA StaysStill ==
  ASSUME Shape, Step, NEW s \in Gated, ~OpenFor(s), NEW units \in Int,
         Still(TopicOf(s)["arbiter"], candidates[s], units)
  PROVE  Still(TopicOf(s)'["arbiter"], candidates'[s], units)
<1> SUFFICES ASSUME units >= 1
             PROVE  /\ TopicOf(s)'["arbiter"] \in Seq(SentBefore(units))
                    /\ candidates'[s].vel = Zero \/ Aged(candidates'[s].age, units - TransportTime)
  BY DEF Still
<1> DEFINE queue == TopicOf(s)["arbiter"]
<1>1. /\ queue \in Seq(SentBefore(units))
      /\ candidates[s].vel = Zero \/ Aged(candidates[s].age, units - TransportTime)
  BY DEF Still
<1>2. CASE TopicOf(s)'["arbiter"] = queue /\ candidates'[s] = candidates[s]
  BY <1>1, <1>2
<1>3. CASE TopicOf(s)'["arbiter"] = Enqueue(queue, Sample(Zero)) /\ candidates'[s] = candidates[s]
  <2>1. Sample(Zero) \in SentBefore(units)
    BY SourcesAssumption DEF Sample, Zero, SentBefore, Sent, Samples, Velocities
  <2>2. Enqueue(queue, Sample(Zero)) \in Seq(SentBefore(units))
    BY <1>1, <2>1, EnqueueType
  <2>3. QED
    BY <1>1, <1>3, <2>2
<1>4. CASE /\ queue # << >> /\ TopicOf(s)'["arbiter"] = Tail(queue)
           /\ candidates'[s] = [vel |-> Head(queue).vel, age |-> 0]
  <2>1. Head(queue) \in SentBefore(units) /\ Tail(queue) \in Seq(SentBefore(units))
    BY <1>1, <1>4
  <2>2. Head(queue).vel = Zero \/ units <= TransportTime
    BY <2>1, SourcesAssumption DEF SentBefore, Sent, Samples
  <2>3. Head(queue).vel = Zero \/ Aged(0, units - TransportTime)
    BY <2>2, SourcesAssumption DEF Aged
  <2>4. QED
    BY <1>4, <2>1, <2>3
<1>5. QED
  BY <1>2, <1>3, <1>4, SourceSteps

\* What one step does to the bridge's clock: a new command or a new process.
LEMMA InputClock ==
  ASSUME Step
  PROVE  inputAge' \in {inputAge, 0, Never}
<1>1. CASE Commands
  BY <1>1 DEF Commands, BridgeTick, StubTick, ScriptedTick, RegistryTick, CountTick,
     Nav2Command, SkillRequest, SetEnabled, bridge, BR!Tick, BR!nodeVars,
     BR!HandleCommand, BR!SetEnabled
<1>2. CASE Deliveries \/ Hearings \/ StreamChange
  BY <1>2 DEF Deliveries, AutonomyToArbiter, PolicyToArbiter, CapabilitiesToServer,
     Hearings, HearMode, HearSafety, HearLocomotion, StreamChange, bridge,
     BR!OnModeState, BR!OnSafetyState, BR!OnLocomotionState
<1>3. CASE \E n \in Nodes : Crash(n) \/ Recover(n)
  BY <1>3 DEF Crash, Recover, bridge, BR!Restart, BR!Never, Never
<1>4. QED
  BY <1>1, <1>2, <1>3 DEF Step, Commands, Deliveries, Hearings

\* A policy candidate is the velocity of the stub, of a waypoint or of a skill.
LEMMA PolicyVelocity ==
  ASSUME PlanInv, Step, ~PolicyToArbiter
  PROVE  policy' = policy \/ \E vel \in Velocities : policy' = Publish(policy, Sample(vel))
<1>1. /\ Velocity \in Velocities /\ [Velocity EXCEPT !.lin = 0] \in Velocities
      /\ Zero \in Velocities
  BY SourcesAssumption DEF PR!ProviderConstants, PR!Velocities, Velocities, Zero
<1>2. \A vel : PR!Publish(policy, PR!Sample(vel)) = Publish(policy, Sample(vel))
               /\ SK!Publish(policy, SK!Sample(vel)) = Publish(policy, Sample(vel))
  BY DEF PR!Publish, PR!Enqueue, PR!Sample, SK!Publish, SK!Enqueue, SK!Sample, Publish, Enqueue,
     Sample
<1>3. CASE StubTick
  BY <1>1, <1>2, <1>3 DEF StubTick, PR!StubTick
<1>4. CASE ScriptedTick
  <2>1. \A vel \in PR!CurrentCommand(progress', plan) : vel \in Velocities
    <3>1. PlanInv' /\ plan' = plan
      BY <1>4, StepKeepsPlan DEF ScriptedTick, PR!ScriptedTick
    <3>2. ASSUME plan.waypoints # << >>, ~progress'.completed
          PROVE  plan.waypoints[progress'.index].vel \in Velocities
      <4>1. progress'.index \in DOMAIN plan.waypoints
        BY <3>1, <3>2 DEF PlanInv, OnTrack
      <4>2. QED
        BY <3>1, <4>1, PlanShape DEF PlanInv
    <3>3. QED
      BY <3>2 DEF PR!CurrentCommand
  <2>2. policy' = policy \/ \E vel \in PR!CurrentCommand(progress', plan) :
                              policy' = PR!Publish(policy, PR!Sample(vel))
    BY <1>4 DEF ScriptedTick, PR!ScriptedTick
  <2>3. QED
    BY <1>2, <2>1, <2>2
<1>5. CASE SkillRequest
  <2>1. PICK name \in Skills, dryRun \in BOOLEAN : SK!OnExecuteSkill(name, dryRun)
    BY <1>5 DEF SkillRequest
  <2>2. policy' = policy \/ (SK!Accepts(name) /\ policy' = SK!Publish(policy, SK!Sample(SK!Command(name))))
    BY <2>1 DEF SK!OnExecuteSkill
  <2>3. SK!Accepts(name) => SK!Command(name) \in Velocities
    BY <1>1 DEF SK!Accepts, SK!Decision, SK!Command, SK!ExecutableSkills, SK!Zero, Zero
  <2>4. QED
    BY <1>2, <2>2, <2>3
<1>6. CASE BridgeTick \/ RegistryTick \/ Nav2Command \/ SetEnabled
  BY <1>6 DEF BridgeTick, RegistryTick, Nav2Command, SetEnabled, PR!SetEnabled
<1>7. CASE Hearings \/ StreamChange \/ CapabilitiesToServer \/ AutonomyToArbiter
  BY <1>7 DEF CapabilitiesToServer, Hearings, HearMode, HearSafety, HearLocomotion, StreamChange,
     AutonomyToArbiter, PR!OnMode, PR!OnSafety, SK!OnModeState, SK!OnSafetyState,
     SK!OnCapabilities
<1>8. CASE \E n \in Nodes : Crash(n) \/ Recover(n)
  BY <1>8 DEF Crash, Recover
<1>9. QED
  BY <1>3, <1>4, <1>5, <1>6, <1>7, <1>8 DEF Step, Hearings

\* What is queued and what is remembered are velocities.
LEMMA StepKeepsCandidates ==
  ASSUME PlanInv, CandidatesTyped, Step
  PROVE  CandidatesTyped'
<1>1. /\ Velocity \in Velocities /\ 0 \in Ages
      /\ \A vel \in Velocities : Sample(vel) \in Sent
  BY SourcesAssumption, AgeCapAssumption DEF SK!SkillConstants, SK!Velocities, Velocities, Ages,
     Sample, Sent, Samples
<1>2. \A sample \in Sent : sample.vel \in Velocities
  BY DEF Sent, Samples
<1>3. CASE AutonomyToArbiter
  <2>1. Head(autonomy["arbiter"]) \in Sent /\ autonomy' \in Topics({"arbiter"}, Sent)
    BY <1>3, TakeType DEF AutonomyToArbiter, CandidatesTyped
  <2>2. QED
    BY <1>1, <1>2, <1>3, <2>1 DEF AutonomyToArbiter, Remember, CandidatesTyped
<1>4. CASE PolicyToArbiter
  <2>1. Head(policy["arbiter"]) \in Sent /\ policy' \in Topics({"arbiter"}, Sent)
    BY <1>4, TakeType DEF PolicyToArbiter, CandidatesTyped
  <2>2. QED
    BY <1>1, <1>2, <1>4, <2>1 DEF PolicyToArbiter, Remember, CandidatesTyped
<1>5. CASE ~AutonomyToArbiter /\ ~PolicyToArbiter
  <2>1. candidates' = candidates
    BY <1>5, Remembered
  <2>2. autonomy' \in Topics({"arbiter"}, Sent)
    BY <1>1, <1>5, AutonomySent, PublishType DEF CandidatesTyped
  <2>3. policy' \in Topics({"arbiter"}, Sent)
    BY <1>1, <1>5, PolicyVelocity, PublishType DEF CandidatesTyped
  <2>4. QED
    BY <2>1, <2>2, <2>3 DEF CandidatesTyped
<1>6. QED
  BY <1>3, <1>4, <1>5

(***************************************************************************)
(* A step of a node, a stream or the network keeps the invariant.          *)
(***************************************************************************)

\* A step lets a count begin or end; it never goes on counting.
LEMMA StepCounts ==
  ASSUME SourcesInv, Step, Observe
  PROVE  /\ closedAge' \in [Causes -> {Never} \union 0..QuietBound]
         /\ Counted'
         /\ \A cause \in Causes : closedAge'[cause] >= 1 =>
              closedAge[cause] = closedAge'[cause] /\ Closes(cause)'
<1>1. closedAge \in [Causes -> {Never} \union 0..QuietBound] /\ QuietBound \in Nat
  BY SourcesAssumption DEF SourcesInv, Shape, QuietBound
<1>2. \A cause \in Causes :
        closedAge'[cause] = IF ~Closes(cause)' THEN Never
                            ELSE IF closedAge[cause] = Never THEN 0 ELSE closedAge[cause]
  BY DEF Observe
<1>3. closedAge' \in [Causes -> {Never} \union 0..QuietBound]
  BY <1>1, <1>2 DEF Observe
<1>4. QED
  BY <1>1, <1>2, <1>3 DEF Counted, Never

\* What a count in progress says of the streams.
LEMMA CountsMean ==
  ASSUME SourcesInv, Step, Observe
  PROVE  /\ \A s \in Gated : closedAge'[s] >= 1 => mode' # s
         /\ closedAge'["halt"] >= 1 => safety' \in SK!UnsafeStates
         /\ safety' \in SafetyStates
<1>1. safety' \in SafetyStates \ {"UNKNOWN"}
  BY StreamsAndNodes, SourcesAssumption DEF SourcesInv, Shape
<1>2. \A cause \in Causes : closedAge'[cause] >= 1 => Closes(cause)'
  BY StepCounts
<1>3. QED
  BY <1>1, <1>2 DEF Causes, Gated, Closes, AllowedSafety, SafetyStates, SK!UnsafeStates

\* The shape of the state survives a step.
LEMMA StepKeepsShape ==
  ASSUME SourcesInv, PlanInv, Step, Observe
  PROVE  Shape'
<1>1. safety' \in StreamSafety
  BY StreamsAndNodes DEF SourcesInv, Shape
<1>2. CandidatesTyped'
  BY StepKeepsCandidates DEF SourcesInv, Shape
<1>3. bridgeState' \in Topics({"listener"}, BR!BridgeStates)
  <2>1. CASE BridgeTick
    <3>1. BR!Status(inputAge) \in BR!BridgeStates
      BY DEF BR!Status, BR!BridgeStates
    <3>2. bridgeState' = Publish(bridgeState, BR!Status(inputAge))
      BY <2>1 DEF BridgeTick, BR!Tick, BR!Publish, BR!Enqueue, Publish, Enqueue
    <3>3. QED
      BY <3>1, <3>2, PublishType DEF SourcesInv, Shape
  <2>2. CASE Commands /\ ~BridgeTick
    BY <2>2 DEF SourcesInv, Shape, Commands, StubTick, ScriptedTick, RegistryTick,
       Nav2Command, SkillRequest, SetEnabled, BR!HandleCommand, BR!SetEnabled, BR!topicVars
  <2>3. CASE Deliveries \/ Hearings \/ StreamChange
    BY <2>3 DEF SourcesInv, Shape, Deliveries, AutonomyToArbiter, PolicyToArbiter,
       CapabilitiesToServer, Hearings, HearMode, HearSafety, HearLocomotion, StreamChange,
       BR!OnModeState, BR!OnSafetyState, BR!OnLocomotionState, BR!topicVars
  <2>4. CASE \E n \in Nodes : Crash(n) \/ Recover(n)
    BY <2>4 DEF SourcesInv, Shape, Crash, Recover
  <2>5. QED
    BY <2>1, <2>2, <2>3, <2>4 DEF Step, Commands, Deliveries, Hearings
<1>4. ticks' \in [Nodes -> Nat]
  <2>1. ticks' = ticks \/ \E n \in Nodes : ticks' = [ticks EXCEPT ![n] = @ + 1]
    <3>1. CASE BridgeTick \/ StubTick \/ ScriptedTick \/ RegistryTick
      BY <3>1 DEF BridgeTick, StubTick, ScriptedTick, RegistryTick, CountTick, Nodes
    <3>2. CASE Nav2Command \/ SkillRequest \/ SetEnabled \/ Deliveries
      BY <3>2 DEF Nav2Command, SkillRequest, SetEnabled, Deliveries, AutonomyToArbiter,
         PolicyToArbiter, CapabilitiesToServer, schedule
    <3>3. CASE Hearings \/ StreamChange \/ \E n \in Nodes : Crash(n) \/ Recover(n)
      BY <3>3 DEF Hearings, HearMode, HearSafety, HearLocomotion, StreamChange, Crash, Recover,
         schedule
    <3>4. QED
      BY <3>1, <3>2, <3>3 DEF Step, Deliveries, Hearings
  <2>2. QED
    BY <2>1 DEF SourcesInv, Shape
<1>5. inputAge' \in Ages
  BY InputClock, AgeCapAssumption DEF SourcesInv, Shape, Ages
<1>6. QED
  BY <1>1, <1>2, <1>3, <1>4, <1>5, StepCounts DEF Shape

\* A step lets no view contradict a cause that is counted: a count that goes on
\* was there before the step, and a new view is the stream's or a new process's.
LEMMA StepKeepsViews ==
  ASSUME SourcesInv, Step, Observe
  PROVE  Views'
<1>1. \A cause \in Causes : closedAge'[cause] >= 1 => closedAge[cause] = closedAge'[cause]
  BY StepCounts
<1>2. {"AUTONOMY", "AI_POLICY", "halt"} \subseteq Causes
  BY DEF Causes, Gated
<1>3. /\ closedAge'["AUTONOMY"] >= 1 => mode' # "AUTONOMY"
      /\ closedAge'["AI_POLICY"] >= 1 => mode' # "AI_POLICY"
      /\ closedAge'["halt"] >= 1 => safety' \in SK!UnsafeStates /\ safety' \notin AllowedSafety
      /\ safety' \in SafetyStates
  BY CountsMean DEF Gated, SK!UnsafeStates, AllowedSafety
<1>4. BridgeView'
  BY <1>1, <1>2, <1>3, BridgeHears DEF SourcesInv, Views, BridgeView, AllowedSafety
<1>5. ProviderView'
  BY <1>1, <1>2, <1>3, ProviderHears DEF SourcesInv, Views, ProviderView, AllowedSafety
<1>6. closedAge' \in [Causes -> {Never} \union 0..QuietBound] /\ QuietBound \in Nat
  BY StepCounts, SourcesAssumption DEF QuietBound
<1>7. closedAge'["halt"] \in Int
  BY <1>2, <1>6 DEF Never
<1>8. RegistryView'
  <2>1. ticks \in [Nodes -> Nat]
    BY DEF SourcesInv, Shape
  <2>2. "capability_registry" \notin up' => latched' = << >>
    BY <2>1, RegistryHears DEF SourcesInv, Views, RegistryView
  <2>3. ASSUME closedAge'["halt"] >= 1, "capability_registry" \in up'
        PROVE  crSafety' \in SafetyStates \ AllowedSafety
    BY <1>1, <1>2, <1>3, <2>1, <2>3, RegistryHears
       DEF SourcesInv, Views, RegistryView, SafetyStates, AllowedSafety
  <2>4. ASSUME closedAge'["halt"] >= 1, "capability_registry" \in up',
               NEW m, NEW l, latched' = <<CR!CapabilitiesIn(m, crSafety', l)>>
        PROVE  latched' \in Seq(Harmless)
    BY <2>3, <2>4, HaltedListIsHarmless
  <2>5. ASSUME closedAge'["halt"] >= 1, "capability_registry" \in up',
               ticks'["capability_registry"] > 0
        PROVE  latched' \in Seq(Harmless)
    BY <1>1, <1>2, <2>1, <2>4, <2>5, RegistryHears DEF SourcesInv, Views, RegistryView
  <2>6. ASSUME closedAge'["halt"] >= 2
        PROVE  /\ latched' \in Seq(Harmless)
               /\ \A sub \in DOMAIN capabilities' : capabilities'[sub] \in Seq(Harmless)
    <3>1. /\ latched \in Seq(Harmless)
          /\ \A sub \in DOMAIN capabilities : capabilities[sub] \in Seq(Harmless)
      BY <1>1, <1>2, <1>7, <2>6 DEF SourcesInv, Views, RegistryView
    <3>2. << >> \in Seq(Harmless)
      OBVIOUS
    <3>3. latched' \in Seq(Harmless)
      <4>1. closedAge'["halt"] >= 1
        BY <1>7, <2>6
      <4>2. \/ latched' = latched \/ latched' = << >>
            \/ "capability_registry" \in up'
               /\ \E m, l : latched' = <<CR!CapabilitiesIn(m, crSafety', l)>>
        BY <2>1, RegistryHears
      <4>3. QED
        BY <2>4, <3>1, <3>2, <4>1, <4>2
    <3>4. CASE CapabilitiesToServer
      <4>1. /\ "skill_server" \in DOMAIN capabilities /\ capabilities["skill_server"] # << >>
            /\ capabilities' = [capabilities EXCEPT !["skill_server"] = Tail(@)]
        BY <3>4 DEF CapabilitiesToServer, Take
      <4>2. Tail(capabilities["skill_server"]) \in Seq(Harmless)
        BY <3>1, <4>1
      <4>3. QED
        BY <3>1, <3>3, <4>1, <4>2
    <3>5. CASE capabilities' \in {capabilities, Leave(capabilities, "skill_server"),
                                  [sub \in DOMAIN capabilities |-> latched'],
                                  [sub \in {"skill_server"} |-> latched']}
      BY <3>1, <3>3, <3>5 DEF Leave
    <3>6. QED
      BY <2>1, <3>4, <3>5, RegistryHears
  <2>7. QED
    BY <2>2, <2>3, <2>5, <2>6 DEF RegistryView
<1>9. ServerView'
  <2>1. "skill_server" \notin up' =>
          /\ "skill_server" \notin DOMAIN capabilities'
          /\ known' = << >> /\ skMode' = "UNKNOWN" /\ skSafety' = "UNKNOWN"
    BY ServerHears, ServerListens DEF SourcesInv, Views, ServerView, CapabilitiesToServer
  <2>2. closedAge'["AI_POLICY"] >= 1 => skMode' # "AI_POLICY"
    BY <1>1, <1>2, <1>3, ServerHears DEF SourcesInv, Views, ServerView
  <2>3. ASSUME closedAge'["halt"] >= 2
        PROVE  known' \in {<< >>} \union Harmless \/ skSafety' \in SK!UnsafeStates
    <3>1. /\ known \in {<< >>} \union Harmless \/ skSafety \in SK!UnsafeStates
          /\ \A sub \in DOMAIN capabilities : capabilities[sub] \in Seq(Harmless)
      BY <1>1, <1>2, <1>7, <2>3 DEF SourcesInv, Views, ServerView, RegistryView
    <3>2. safety' \in SK!UnsafeStates
      BY <1>3, <1>7, <2>3
    <3>3. CapabilitiesToServer => known' \in Harmless
      BY <3>1 DEF CapabilitiesToServer, SK!OnCapabilities
    <3>4. QED
      BY <3>1, <3>2, <3>3, ServerHears
  <2>4. QED
    BY <2>1, <2>2, <2>3 DEF ServerView
<1>10. QED
  BY <1>4, <1>5, <1>8, <1>9 DEF Views

\* A source whose cause to be still is counted is not open.
LEMMA ClosedSources ==
  ASSUME SourcesInv, Step, Observe, NEW s \in Gated,
         closedAge'[s] >= 1 \/ closedAge'["halt"] - 1 >= 1
  PROVE  ~OpenFor(s)
<1>1. \A cause \in Causes : closedAge'[cause] >= 1 => closedAge[cause] = closedAge'[cause]
  BY StepCounts
<1>2. Gated = {"AUTONOMY", "AI_POLICY"} /\ Causes = Gated \union {"halt"}
  BY DEF Causes, Gated
<1>3. closedAge'["halt"] \in Int
  <2>1. closedAge' \in [Causes -> {Never} \union 0..QuietBound] /\ QuietBound \in Nat
    BY StepCounts, SourcesAssumption DEF QuietBound
  <2>2. QED
    BY <1>2, <2>1 DEF Never
<1>4. closedAge[s] >= 1 \/ (closedAge["halt"] >= 2 /\ closedAge["halt"] >= 1)
  BY <1>1, <1>2, <1>3
<1>5. CASE s = "AUTONOMY"
  BY <1>4, <1>5 DEF SourcesInv, Views, BridgeView, OpenFor, BridgeOpen
<1>6. CASE s = "AI_POLICY"
  <2>1. ~ProviderOpen
    BY <1>4, <1>6 DEF SourcesInv, Views, ProviderView, ProviderOpen
  <2>2. ~ServerOpen
    BY <1>4, <1>6 DEF SourcesInv, Views, ServerView, ServerOpen, Harmless
  <2>3. QED
    BY <1>6, <2>1, <2>2 DEF OpenFor
<1>7. QED
  BY <1>2, <1>5, <1>6

\* A source that is still stays still in a step, for its nodes see the cause.
LEMMA StepKeepsQuiet ==
  ASSUME SourcesInv, Step, Observe
  PROVE  Quiet'
<1> SUFFICES ASSUME NEW s \in Gated
             PROVE  /\ Still(TopicOf(s)'["arbiter"], candidates'[s], closedAge'[s])
                    /\ Still(TopicOf(s)'["arbiter"], candidates'[s], closedAge'["halt"] - 1)
  BY DEF Quiet
<1>1. /\ closedAge'[s] >= 1 => closedAge'[s] = closedAge[s]
      /\ closedAge'["halt"] >= 1 => closedAge'["halt"] = closedAge["halt"]
  BY StepCounts DEF Causes
<1>2. closedAge'[s] \in Int /\ closedAge'["halt"] \in Int
  <2>1. closedAge' \in [Causes -> {Never} \union 0..QuietBound] /\ QuietBound \in Nat
    BY StepCounts, SourcesAssumption DEF QuietBound
  <2>2. QED
    BY <2>1 DEF Never, Causes
<1>3. /\ Still(TopicOf(s)["arbiter"], candidates[s], closedAge[s])
      /\ Still(TopicOf(s)["arbiter"], candidates[s], closedAge["halt"] - 1)
  BY DEF SourcesInv, Quiet
<1>4. Shape
  BY DEF SourcesInv
<1>5. ASSUME closedAge'[s] >= 1
      PROVE  Still(TopicOf(s)'["arbiter"], candidates'[s], closedAge'[s])
  <2>1. ~OpenFor(s)
    BY <1>5, ClosedSources
  <2>2. Still(TopicOf(s)["arbiter"], candidates[s], closedAge'[s])
    BY <1>1, <1>3, <1>5
  <2>3. QED
    BY <1>2, <1>4, <2>1, <2>2, StaysStill
<1>6. ASSUME closedAge'["halt"] - 1 >= 1
      PROVE  Still(TopicOf(s)'["arbiter"], candidates'[s], closedAge'["halt"] - 1)
  <2>1. ~OpenFor(s)
    BY <1>6, ClosedSources
  <2>2. /\ closedAge'["halt"] = closedAge["halt"]
        /\ closedAge'["halt"] - 1 \in Int
    BY <1>1, <1>2, <1>6
  <2>3. Still(TopicOf(s)["arbiter"], candidates[s], closedAge'["halt"] - 1)
    BY <1>3, <2>2
  <2>4. QED
    BY <1>4, <2>1, <2>2, <2>3, StaysStill
<1>7. QED
  BY <1>5, <1>6 DEF Still

\* A step lets the bridge's clock lead by no more than what is under way.
LEMMA StepKeepsClocks ==
  ASSUME SourcesInv, PlanInv, Step, Observe
  PROVE  Clocks'
<1>1. Shape /\ Shape' /\ Clocks
  BY StepKeepsShape DEF SourcesInv
<1>2. "AUTONOMY" \in Gated /\ TransportTime \in Nat
  BY SourcesAssumption DEF Gated
<1>3. /\ candidates'["AUTONOMY"].age \in {Never} \union 0..AgeCap /\ AgeCap \in Nat
      /\ autonomy'["arbiter"] \in Seq(Sent)
  BY <1>1, <1>2, AgeCapAssumption DEF Shape, CandidatesTyped, Ages, Topics
<1>4. CASE inputAge' \in {0, Never}
  <2>1. SentSince(inputAge') = Sent
    <3>1. \A sample \in Sent : sample.age \in Nat
      BY <1>2 DEF Sent, Samples
    <3>2. \A sample \in Sent : inputAge' <= sample.age
      BY <1>4, <3>1 DEF Never
    <3>3. QED
      BY <3>2 DEF SentSince
  <2>2. QED
    BY <1>2, <1>3, <1>4, <2>1 DEF Clocks, Never
<1>5. CASE inputAge' \notin {0, Never}
  <2>1. inputAge' = inputAge
    BY <1>5, InputClock
  <2>2. CASE AutonomyToArbiter
    <3>1. /\ autonomy["arbiter"] # << >>
          /\ candidates'["AUTONOMY"].age = 0
          /\ autonomy'["arbiter"] = Tail(autonomy["arbiter"])
      BY <1>1, <1>2, <2>2 DEF AutonomyToArbiter, Remember, Take, Shape, CandidatesTyped, Topics
    <3>2. /\ Head(autonomy["arbiter"]) \in SentSince(inputAge)
          /\ Tail(autonomy["arbiter"]) \in Seq(SentSince(inputAge))
      BY <1>1, <3>1 DEF Clocks
    <3>3. inputAge <= 0 + TransportTime
      BY <1>1, <1>2, <3>2, AgeCapAssumption DEF SentSince, Sent, Samples, Shape, Ages, Never
    <3>4. QED
      BY <2>1, <3>1, <3>2, <3>3 DEF Clocks
  <2>3. CASE ~AutonomyToArbiter
    <3>1. autonomy' = autonomy
      BY <1>5, <2>3, AutonomySent
    <3>2. candidates'["AUTONOMY"] = candidates["AUTONOMY"]
      BY <1>1, <1>2, <2>3, Remembered
         DEF PolicyToArbiter, Remember, Shape, CandidatesTyped, Gated
    <3>3. QED
      BY <1>1, <2>1, <3>1, <3>2 DEF Clocks
  <2>4. QED
    BY <2>2, <2>3
<1>6. QED
  BY <1>4, <1>5

(***************************************************************************)
(* A unit of time keeps the invariant.                                     *)
(***************************************************************************)

\* Every count in progress advances by one, up to its bound.
LEMMA CountsAdvance ==
  ASSUME SourcesInv, Advance, NEW cause \in Causes
  PROVE  /\ closedAge[cause] \in Int /\ closedAge'[cause] \in {Never} \union 0..QuietBound
         /\ closedAge'[cause] = Never <=> closedAge[cause] = Never
         /\ closedAge'[cause] <= closedAge[cause] + 1
<1>1. closedAge[cause] \in {Never} \union 0..QuietBound /\ QuietBound \in Nat
  BY SourcesAssumption DEF SourcesInv, Shape, QuietBound
<1>2. closedAge'[cause] = Longer(closedAge[cause], QuietBound)
  BY DEF Advance
<1>3. QED
  BY <1>1, <1>2 DEF Longer, Never

\* What is under way is one unit older, and there is no more and no less of it.
LEMMA UnitLater ==
  ASSUME NEW S \in SUBSET Sent, NEW T, NEW topic \in Topics({"arbiter"}, S), MayWait(topic),
         \A sample \in S : sample.age < TransportTime =>
                            [vel |-> sample.vel, age |-> sample.age + 1] \in T
  PROVE  UnitUnderWay(topic) \in Topics({"arbiter"}, T)
<1> DEFINE queue == topic["arbiter"]
           later == [i \in DOMAIN queue |-> [queue[i] EXCEPT !.age = @ + 1]]
<1>1. /\ queue \in Seq(S) /\ Len(queue) \in Nat /\ DOMAIN queue = 1..Len(queue)
      /\ DOMAIN topic = {"arbiter"}
  BY DEF Topics
<1>2. \A i \in 1..Len(queue) : later[i] \in T
  <2> TAKE i \in 1..Len(queue)
  <2>1. queue[i] \in S /\ queue[i].age < TransportTime
    BY <1>1 DEF MayWait
  <2>2. later[i] = [vel |-> queue[i].vel, age |-> queue[i].age + 1]
    BY <1>1, <2>1 DEF Sent, Samples
  <2>3. QED
    BY <2>1, <2>2
<1>3. later \in [1..Len(queue) -> T]
  BY <1>1, <1>2
<1>4. later \in Seq(T)
  BY <1>1, <1>3
<1>5. UnitUnderWay(topic) = [n \in {"arbiter"} |-> later]
  BY <1>1 DEF UnitUnderWay
<1>6. QED
  BY <1>4, <1>5 DEF Topics

\* Queues and memory keep their types.
LEMMA AdvanceKeepsCandidates ==
  ASSUME CandidatesTyped, Advance
  PROVE  CandidatesTyped'
<1>1. candidates' \in [Gated -> [vel : Velocities, age : Ages]]
  <2>1. candidates' = [s \in Gated |-> [candidates[s] EXCEPT !.age = Older(candidates[s].age)]]
    BY DEF Advance
  <2>2. \A s \in Gated : candidates[s] \in [vel : Velocities, age : Ages]
    BY DEF CandidatesTyped
  <2>3. \A s \in Gated : Older(candidates[s].age) \in Ages
    BY <2>2, OlderType
  <2>4. \A s \in Gated : [candidates[s] EXCEPT !.age = Older(candidates[s].age)]
                         \in [vel : Velocities, age : Ages]
    BY <2>2, <2>3
  <2>5. QED
    BY <2>1, <2>4
<1>2. \A sample \in Sent : sample.age < TransportTime =>
                            [vel |-> sample.vel, age |-> sample.age + 1] \in Sent
  BY SourcesAssumption DEF Sent, Samples
<1>3. autonomy' = UnitUnderWay(autonomy) /\ policy' = UnitUnderWay(policy)
      /\ MayWait(autonomy) /\ MayWait(policy)
  BY DEF Advance
<1>4. autonomy' \in Topics({"arbiter"}, Sent) /\ policy' \in Topics({"arbiter"}, Sent)
  BY <1>2, <1>3, UnitLater DEF CandidatesTyped
<1>5. QED
  BY <1>1, <1>4 DEF CandidatesTyped

\* The shape of the state and the counts survive the passing of time.
LEMMA AdvanceKeepsShape ==
  ASSUME SourcesInv, Advance
  PROVE  Shape' /\ Counted'
<1>1. closedAge' \in [Causes -> {Never} \union 0..QuietBound]
  BY CountsAdvance DEF Advance
<1>2. Counted'
  BY CountsAdvance DEF SourcesInv, Counted, Closes, Advance, streams
<1>3. ticks' \in [Nodes -> Nat]
  BY DEF Advance
<1>4. inputAge' \in Ages
  <2>1. inputAge' = Older(inputAge)
    BY DEF Advance, BR!Age, BR!Older, BR!Never, Older, Never
  <2>2. QED
    BY <2>1, OlderType DEF SourcesInv, Shape
<1>5. CandidatesTyped'
  BY AdvanceKeepsCandidates DEF SourcesInv, Shape
<1>6. QED
  BY <1>1, <1>2, <1>3, <1>4, <1>5 DEF SourcesInv, Shape, Advance, streams

\* The end of a unit is the moment when every view has caught up with its stream.
LEMMA AdvanceKeepsViews ==
  ASSUME SourcesInv, Advance
  PROVE  Views'
<1>1. /\ UNCHANGED <<mode, safety, brMode, brSafety, prMode, prSafety, crSafety, latched,
                     known, skMode, skSafety, capabilities, up>>
      /\ ticks' = [n \in Nodes |-> 0]
  BY DEF Advance, streams, BR!Age, provider, registry, server, capabilityTopic
<1>2. {"AUTONOMY", "AI_POLICY", "halt"} = Causes
  BY DEF Causes, Gated
<1>3. \A cause \in Causes : /\ closedAge[cause] \in Int /\ closedAge'[cause] \in Int
                            /\ closedAge'[cause] = Never <=> closedAge[cause] = Never
                            /\ closedAge'[cause] <= closedAge[cause] + 1
  BY CountsAdvance, SourcesAssumption DEF QuietBound, Never
<1>4. \A cause \in Causes : closedAge'[cause] >= 1 => Closes(cause)
  BY <1>3 DEF SourcesInv, Counted, Never
<1>5. safety \in SafetyStates \ {"UNKNOWN"}
  BY SourcesAssumption DEF SourcesInv, Shape
<1>6. /\ closedAge'["AUTONOMY"] >= 1 => mode # "AUTONOMY"
      /\ closedAge'["AI_POLICY"] >= 1 => mode # "AI_POLICY"
      /\ closedAge'["halt"] >= 1 => safety \in SK!UnsafeStates /\ safety \notin AllowedSafety
  BY <1>2, <1>4, <1>5 DEF Closes, SafetyStates, SK!UnsafeStates, AllowedSafety
<1>7. AllHeard
  BY DEF Advance
<1>8. BridgeView'
  BY <1>1, <1>6, <1>7
     DEF SourcesInv, Views, BridgeView, AllHeard, streams, AllowedSafety
<1>9. ProviderView'
  BY <1>1, <1>6, <1>7 DEF SourcesInv, Views, ProviderView, AllHeard, AllowedSafety
<1>10. RegistryView'
  <2>1. "capability_registry" \in Nodes /\ "capability_registry" \in Timed
    BY DEF Nodes, Timed
  <2>2. "capability_registry" \notin up' => latched' = << >>
    BY <1>1 DEF SourcesInv, Views, RegistryView
  <2>3. closedAge'["halt"] >= 1 /\ "capability_registry" \in up' =>
          crSafety' \in SafetyStates \ AllowedSafety
    BY <1>1, <1>5, <1>6, <1>7 DEF AllHeard, registry, streams
  <2>4. ~(ticks'["capability_registry"] > 0)
    BY <1>1, <2>1
  <2>5. ASSUME closedAge'["halt"] >= 2
        PROVE  /\ latched' \in Seq(Harmless)
               /\ \A sub \in DOMAIN capabilities' : capabilities'[sub] \in Seq(Harmless)
    <3>1. closedAge["halt"] >= 1
      BY <1>2, <1>3, <2>5
    <3>2. << >> \in Seq(Harmless)
      OBVIOUS
    <3>3. "capability_registry" \in up => ticks["capability_registry"] > 0
      BY <2>1 DEF Advance
    <3>4. latched \in Seq(Harmless)
      BY <3>1, <3>2, <3>3 DEF SourcesInv, Views, RegistryView
    <3>5. \A sub \in DOMAIN capabilities : capabilities[sub] = << >>
      BY DEF Advance, Delivered
    <3>6. QED
      BY <1>1, <3>2, <3>4, <3>5
  <2>6. QED
    BY <2>2, <2>3, <2>4, <2>5 DEF RegistryView
<1>11. ServerView'
  <2>1. closedAge'["halt"] >= 2 => closedAge'["halt"] >= 1
    BY <1>2, <1>3
  <2>2. QED
    BY <1>1, <1>6, <1>7, <2>1 DEF SourcesInv, Views, ServerView, AllHeard
<1>12. QED
  BY <1>8, <1>9, <1>10, <1>11 DEF Views

\* What has been remembered for some units is remembered a unit longer.
LEMMA AgedOlder ==
  ASSUME NEW age \in Ages, NEW units \in Int, NEW later \in Int, later <= units + 1,
         units >= 1 => Aged(age, units - TransportTime), later >= 1
  PROVE  Aged(Older(age), later - TransportTime)
BY AgeCapAssumption, SourcesAssumption DEF Aged, Ages, Older, Never

\* A unit later what is queued and what is remembered is a unit older.
LEMMA AdvanceKeepsQuiet ==
  ASSUME SourcesInv, Advance
  PROVE  Quiet'
<1> SUFFICES ASSUME NEW s \in Gated
             PROVE  /\ Still(TopicOf(s)'["arbiter"], candidates'[s], closedAge'[s])
                    /\ Still(TopicOf(s)'["arbiter"], candidates'[s], closedAge'["halt"] - 1)
  BY DEF Quiet
<1>1. /\ TopicOf(s)' = UnitUnderWay(TopicOf(s)) /\ MayWait(TopicOf(s))
      /\ TopicOf(s) \in Topics({"arbiter"}, Sent)
  BY DEF Advance, TopicOf, SourcesInv, Shape, CandidatesTyped
<1>2. /\ candidates'[s].vel = candidates[s].vel
      /\ candidates'[s].age = Older(candidates[s].age)
      /\ candidates[s].age \in Ages
  <2>1. candidates[s] \in [vel : Velocities, age : Ages]
    BY DEF SourcesInv, Shape, CandidatesTyped
  <2>2. candidates'[s] = [candidates[s] EXCEPT !.age = Older(@)]
    BY DEF Advance
  <2>3. QED
    BY <2>1, <2>2
<1>3. \A cause \in {s, "halt"} : /\ closedAge[cause] \in Int /\ closedAge'[cause] \in Int
                                 /\ closedAge'[cause] <= closedAge[cause] + 1
  BY CountsAdvance, SourcesAssumption DEF QuietBound, Never, Causes
<1>4. ASSUME NEW units \in Int, NEW later \in Int, later <= units + 1,
             Still(TopicOf(s)["arbiter"], candidates[s], units)
      PROVE  Still(TopicOf(s)'["arbiter"], candidates'[s], later)
  <2> SUFFICES ASSUME later >= 1
               PROVE  /\ TopicOf(s)'["arbiter"] \in Seq(SentBefore(later))
                      /\ candidates[s].vel = Zero
                         \/ Aged(Older(candidates[s].age), later - TransportTime)
    BY <1>2 DEF Still
  <2>1. candidates[s].vel = Zero \/ Aged(Older(candidates[s].age), later - TransportTime)
    BY <1>2, <1>4, AgedOlder DEF Still
  <2>2. PICK S \in SUBSET Sent :
          /\ TopicOf(s)["arbiter"] \in Seq(S)
          /\ \A sample \in S : sample.age < TransportTime =>
                [vel |-> sample.vel, age |-> sample.age + 1] \in SentBefore(later)
    <3>1. CASE units >= 1
      <4>1. TopicOf(s)["arbiter"] \in Seq(SentBefore(units)) /\ SentBefore(units) \subseteq Sent
        BY <1>4, <3>1 DEF Still, SentBefore
      <4>2. \A sample \in SentBefore(units) : sample.age < TransportTime =>
              [vel |-> sample.vel, age |-> sample.age + 1] \in SentBefore(later)
        BY <1>4, SourcesAssumption DEF SentBefore, Sent, Samples
      <4>3. QED
        BY <4>1, <4>2
    <3>2. CASE units < 1
      <4>1. TopicOf(s)["arbiter"] \in Seq(Sent)
        BY <1>1 DEF Topics
      <4>2. \A sample \in Sent : sample.age < TransportTime =>
              [vel |-> sample.vel, age |-> sample.age + 1] \in SentBefore(later)
        BY <1>4, <3>2, SourcesAssumption DEF SentBefore, Sent, Samples
      <4>3. QED
        BY <4>1, <4>2
    <3>3. QED
      BY <1>4, <3>1, <3>2
  <2>3. TopicOf(s) \in Topics({"arbiter"}, S)
    BY <1>1, <2>2 DEF Topics
  <2>4. UnitUnderWay(TopicOf(s)) \in Topics({"arbiter"}, SentBefore(later))
    BY <1>1, <2>2, <2>3, UnitLater
  <2>5. TopicOf(s)'["arbiter"] \in Seq(SentBefore(later))
    BY <1>1, <2>4 DEF Topics
  <2>6. QED
    BY <2>1, <2>5
<1>5. QED
  <2>1. Still(TopicOf(s)["arbiter"], candidates[s], closedAge[s])
        /\ Still(TopicOf(s)["arbiter"], candidates[s], closedAge["halt"] - 1)
    BY DEF SourcesInv, Quiet
  <2>2. Still(TopicOf(s)'["arbiter"], candidates'[s], closedAge'[s])
    BY <1>3, <1>4, <2>1
  <2>3. /\ closedAge["halt"] - 1 \in Int /\ closedAge'["halt"] - 1 \in Int
        /\ closedAge'["halt"] - 1 <= (closedAge["halt"] - 1) + 1
    BY <1>3
  <2>4. Still(TopicOf(s)'["arbiter"], candidates'[s], closedAge'["halt"] - 1)
    BY <1>4, <2>1, <2>3
  <2>5. QED
    BY <2>2, <2>4

\* Both clocks and what is under way age alike.
LEMMA AdvanceKeepsClocks ==
  ASSUME SourcesInv, Advance
  PROVE  Clocks'
<1>1. inputAge' = Older(inputAge) /\ inputAge \in Ages
  BY DEF Advance, BR!Age, BR!Older, BR!Never, Older, Never, SourcesInv, Shape
<1>2. /\ autonomy' = UnitUnderWay(autonomy) /\ MayWait(autonomy)
      /\ autonomy \in Topics({"arbiter"}, Sent) /\ autonomy["arbiter"] \in Seq(SentSince(inputAge))
  BY DEF Advance, SourcesInv, Shape, CandidatesTyped, Clocks
<1>3. autonomy \in Topics({"arbiter"}, SentSince(inputAge)) /\ SentSince(inputAge) \subseteq Sent
  BY <1>2 DEF Topics, SentSince
<1>4. \A sample \in SentSince(inputAge) : sample.age < TransportTime =>
        [vel |-> sample.vel, age |-> sample.age + 1] \in SentSince(inputAge')
  BY <1>1, SourcesAssumption, AgeCapAssumption DEF SentSince, Sent, Samples, Older, Ages, Never
<1>5. autonomy'["arbiter"] \in Seq(SentSince(inputAge'))
  <2>1. UnitUnderWay(autonomy) \in Topics({"arbiter"}, SentSince(inputAge'))
    BY <1>2, <1>3, <1>4, UnitLater
  <2>2. QED
    BY <1>2, <2>1 DEF Topics
<1>6. /\ candidates["AUTONOMY"].age \in Ages
      /\ candidates'["AUTONOMY"].age = Older(candidates["AUTONOMY"].age)
  <2>1. "AUTONOMY" \in Gated /\ candidates["AUTONOMY"] \in [vel : Velocities, age : Ages]
    BY DEF SourcesInv, Shape, CandidatesTyped, Gated
  <2>2. candidates'["AUTONOMY"] = [candidates["AUTONOMY"] EXCEPT !.age = Older(@)]
    BY <2>1 DEF Advance
  <2>3. QED
    BY <2>1, <2>2
<1>7. candidates["AUTONOMY"].age = Never
      \/ inputAge <= candidates["AUTONOMY"].age + TransportTime
  BY DEF SourcesInv, Clocks
<1>8. Older(candidates["AUTONOMY"].age) = Never
        \/ Older(inputAge) <= Older(candidates["AUTONOMY"].age) + TransportTime
  BY <1>1, <1>6, <1>7, AgeCapAssumption, SourcesAssumption DEF Older, Ages, Never
<1>9. QED
  BY <1>1, <1>5, <1>6, <1>8 DEF Clocks

(***************************************************************************)
(* The theorems.                                                           *)
(***************************************************************************)

\* The invariant holds in every behaviour.
LEMMA SourcesInvariant == Spec => []SourcesInv
<1>1. Init => SourcesInv
  <2> SUFFICES ASSUME Init PROVE SourcesInv
    OBVIOUS
  <2>1. /\ 0 \in Ages /\ Never \in Ages /\ QuietBound \in Nat /\ Zero \in Velocities
    BY AgeCapAssumption, SourcesAssumption DEF Ages, QuietBound, Zero, Velocities
  <2>2. Shape
    <3>1. CandidatesTyped
      BY <2>1, SilentType DEF Init, CandidatesTyped
    <3>2. QED
      BY <2>1, <3>1, SilentType DEF Init, Shape, BR!NodeInit, BR!Never, Never
  <2>3. Counted
    BY DEF Init, Counted
  <2>4. \A cause \in Causes : closedAge[cause] \in {Never, 0}
    BY DEF Init
  <2>5. /\ ~(closedAge["AUTONOMY"] >= 1) /\ ~(closedAge["AI_POLICY"] >= 1)
        /\ ~(closedAge["halt"] >= 1) /\ ~(closedAge["halt"] >= 2)
        /\ ~(closedAge["halt"] - 1 >= 1)
    BY <2>4 DEF Causes, Gated, Never
  <2>6. Views
    <3>1. BridgeView
      BY <2>5 DEF Init, BR!NodeInit, BridgeView
    <3>2. ProviderView
      BY <2>5 DEF Init, PR!NodeInit, ProviderView
    <3>3. RegistryView
      BY <2>5 DEF Init, RegistryView
    <3>4. ServerView
      BY <2>5 DEF Init, SK!NodeInit, ServerView, Silent
    <3>5. QED
      BY <3>1, <3>2, <3>3, <3>4 DEF Views
  <2>7. Quiet
    BY <2>5 DEF Quiet, Still, Gated
  <2>8. Clocks
    BY DEF Init, Clocks, Silent, Gated
  <2>9. QED
    BY <2>2, <2>3, <2>6, <2>7, <2>8 DEF SourcesInv
<1>2. SourcesInv /\ PlanInv /\ [Next]_vars => SourcesInv'
  <2> SUFFICES ASSUME SourcesInv, PlanInv, [Next]_vars PROVE SourcesInv'
    OBVIOUS
  <2>1. CASE Step /\ Observe
    BY <2>1, StepCounts, StepKeepsShape, StepKeepsViews, StepKeepsQuiet, StepKeepsClocks
       DEF SourcesInv
  <2>2. CASE Advance
    BY <2>2, AdvanceKeepsShape, AdvanceKeepsViews, AdvanceKeepsQuiet, AdvanceKeepsClocks
       DEF SourcesInv
  <2>3. CASE UNCHANGED vars
    <3>1. Shape' /\ Counted'
      BY <2>3 DEF vars, streams, bridge, observers, schedule, SourcesInv, Shape, CandidatesTyped,
         Counted, Closes
    <3>2. Views'
      BY <2>3 DEF vars, bridge, provider, registry, server, capabilityTopic, schedule, observers,
         SourcesInv, Views, BridgeView, ProviderView, RegistryView, ServerView
    <3>3. Quiet' /\ Clocks'
      BY <2>3 DEF vars, bridge, observers, SourcesInv, Quiet, Clocks, TopicOf
    <3>4. QED
      BY <3>1, <3>2, <3>3 DEF SourcesInv
  <2>4. QED
    BY <2>1, <2>2, <2>3 DEF Next
<1>3. QED
  BY <1>1, <1>2, PlanInvariant, PTL DEF Spec

\* A source whose mode or safety has been gone for the arbiter's timeout, the time
\* a candidate may be under way and two units leaves no moving candidate that the
\* arbiter could still approve, also when its nodes have been restarted meanwhile.
THEOREM SourcesQuiet == Spec => []QuietSources
<1>1. SourcesInv => QuietSources
  <2> SUFFICES ASSUME SourcesInv, NEW s \in Gated,
                      QuietBound \in {closedAge[s], closedAge["halt"]}
               PROVE  ~Fresh(s) \/ candidates[s].vel = Zero
    BY DEF QuietSources
  <2>1. /\ ArbiterTimeout \in Nat /\ TransportTime \in Nat /\ AgeCap \in Nat
        /\ ArbiterTimeout + TransportTime < AgeCap
        /\ QuietBound = ArbiterTimeout + TransportTime + 2
    BY SourcesAssumption, AgeCapAssumption DEF QuietBound
  <2>2. candidates[s].age \in Ages
    BY DEF SourcesInv, Shape, CandidatesTyped
  <2>3. PICK units \in {QuietBound, QuietBound - 1} :
          Still(TopicOf(s)["arbiter"], candidates[s], units)
    BY DEF SourcesInv, Quiet
  <2>4. candidates[s].vel = Zero \/ Aged(candidates[s].age, units - TransportTime)
    BY <2>1, <2>3 DEF Still
  <2>5. QED
    BY <2>1, <2>2, <2>4 DEF Aged, Fresh, Within, Ages
<1>2. QED
  BY <1>1, SourcesInvariant, PTL

\* The bridge and the arbiter judge the same command by clocks that started at
\* different moments.  Whatever the timeouts and the time under way, the bridge's
\* clock leads by no more than that time, so a silence of Nav2 that the bridge
\* reports is also the arbiter's after the arbiter's timeout and that time.
THEOREM SilenceReaches == Spec => []SilenceReachesArbiter
<1>1. SourcesInv => SilenceReachesArbiter
  <2> SUFFICES ASSUME SourcesInv, Fresh("AUTONOMY")
               PROVE  inputAge <= ArbiterTimeout + TransportTime
    BY DEF SilenceReachesArbiter
  <2>1. /\ inputAge \in Ages /\ candidates["AUTONOMY"].age \in Ages
        /\ candidates["AUTONOMY"].age = Never
           \/ inputAge <= candidates["AUTONOMY"].age + TransportTime
    BY DEF SourcesInv, Shape, CandidatesTyped, Clocks, Gated
  <2>2. /\ ArbiterTimeout \in Nat /\ TransportTime \in Nat /\ AgeCap \in Nat
    BY SourcesAssumption, AgeCapAssumption
  <2>3. QED
    BY <2>1, <2>2 DEF Fresh, Within, Ages, Never
<1>2. QED
  BY <1>1, SourcesInvariant, PTL

(***************************************************************************)
(* The capabilities catch up.                                              *)
(***************************************************************************)

\* The list that belongs to the present situation.
Current == CR!CapabilitiesIn(mode, safety, locomotion)

\* The list is announced and has reached the skill server or is on its way to it.
Announced ==
  /\ latched = <<Current>>
  /\ "skill_server" \in up => \/ capabilities["skill_server"] = <<Current>>
                              \/ capabilities["skill_server"] = << >> /\ known = Current

\* One unit after the last change a living registry sees the situation as it is,
\* and once it has ticked after that the list is announced.
Converging ==
  /\ stableAge \in 0..ConvergeBound
  /\ "skill_server" \in up => "skill_server" \in DOMAIN capabilities
  /\ stableAge >= 1 /\ "capability_registry" \in up =>
       /\ registry = streams
       /\ ticks["capability_registry"] > 0 \/ stableAge >= 2 => Announced
       /\ stableAge >= 2 /\ "skill_server" \in up => known = Current

\* A living skill server has its subscription.
LEMMA ServerSubscribed ==
  ASSUME Step, "skill_server" \in up => "skill_server" \in DOMAIN capabilities
  PROVE  "skill_server" \in up' => "skill_server" \in DOMAIN capabilities'
<1>1. CASE Commands
  BY <1>1 DEF Commands, BridgeTick, StubTick, ScriptedTick, RegistryTick, CountTick,
     Nav2Command, SkillRequest, SetEnabled, schedule, capabilityTopic, CR!Tick,
     CR!PublishCapabilities
<1>2. CASE Deliveries \/ Hearings \/ StreamChange
  BY <1>2 DEF Deliveries, AutonomyToArbiter, PolicyToArbiter, CapabilitiesToServer, Take,
     Hearings, HearMode, HearSafety, HearLocomotion, StreamChange, schedule, capabilityTopic,
     CR!OnModeState, CR!OnSafetyState, CR!OnLocomotionState, CR!topicVars
<1>3. CASE \E n \in Nodes : Crash(n) \/ Recover(n)
  BY <1>3 DEF Crash, Recover, capabilityTopic, Leave, CR!Die, CR!Start, CR!PublishCapabilities,
     Providers
<1>4. QED
  BY <1>1, <1>2, <1>3 DEF Step, Commands, Deliveries, Hearings

\* While nothing changes, a registry that sees the situation goes on seeing it.
LEMMA StableStep ==
  ASSUME Shape, Converging, Step, UNCHANGED <<streams, up>>,
         "capability_registry" \in up, registry = streams
  PROVE  /\ registry' = streams'
         /\ \/ Announced' /\ UNCHANGED known
            \/ /\ ticks'["capability_registry"] = ticks["capability_registry"]
               /\ UNCHANGED <<latched, capabilities, known>>
            \/ /\ ticks'["capability_registry"] = ticks["capability_registry"]
               /\ UNCHANGED latched /\ CapabilitiesToServer
<1>1. ~\E n \in Nodes : Crash(n) \/ Recover(n)
  BY DEF Crash, Recover
<1>2. Current' = Current
  BY DEF Current, streams, CR!CapabilitiesIn, CR!CapabilityState, CR!Permitted
<1>3. CASE RegistryTick
  <2>1. /\ latched' = <<Current>>
        /\ capabilities' = [sub \in DOMAIN capabilities |-> <<Current>>]
        /\ registry' = registry /\ known' = known
    BY <1>3 DEF RegistryTick, CR!Tick, CR!PublishCapabilities, CR!nodeVars, registry, streams,
       server, Current
  <2>2. Announced'
    BY <1>2, <2>1, ServerSubscribed DEF Converging, Announced
  <2>3. QED
    BY <2>1, <2>2
<1>4. CASE Commands /\ ~RegistryTick
  <2>1. ticks'["capability_registry"] = ticks["capability_registry"]
    BY <1>4 DEF Shape, Commands, BridgeTick, StubTick, ScriptedTick, CountTick,
       Nav2Command, SkillRequest, SetEnabled, schedule, Nodes
  <2>2. UNCHANGED <<registry, latched, capabilities, known>>
    BY <1>4 DEF Commands, BridgeTick, StubTick, ScriptedTick, Nav2Command, SkillRequest,
       SetEnabled, registry, server, capabilityTopic, SK!OnExecuteSkill
  <2>3. QED
    BY <2>1, <2>2
<1>5. CASE Deliveries \/ Hearings \/ StreamChange
  <2>1. ticks' = ticks /\ latched' = latched
    BY <1>5 DEF Deliveries, AutonomyToArbiter, PolicyToArbiter, CapabilitiesToServer,
       Hearings, HearMode, HearSafety, HearLocomotion, StreamChange, schedule, capabilityTopic,
       CR!OnModeState, CR!OnSafetyState, CR!OnLocomotionState, CR!topicVars
  <2>2. UNCHANGED <<capabilities, known>> \/ CapabilitiesToServer
    BY <1>5 DEF Deliveries, AutonomyToArbiter, PolicyToArbiter, Hearings, HearMode,
       HearSafety, HearLocomotion, StreamChange, capabilityTopic, server, SK!OnModeState,
       SK!OnSafetyState, CR!OnModeState, CR!OnSafetyState, CR!OnLocomotionState, CR!topicVars
  <2>3. registry' = streams'
    BY <1>5 DEF Deliveries, AutonomyToArbiter, PolicyToArbiter, CapabilitiesToServer,
       Hearings, HearMode, HearSafety, HearLocomotion, StreamChange, registry, streams,
       CR!OnModeState, CR!OnSafetyState, CR!OnLocomotionState
  <2>4. QED
    BY <2>1, <2>2, <2>3
<1>6. QED
  BY <1>1, <1>3, <1>4, <1>5 DEF Step, Commands, Deliveries, Hearings

\* A step keeps what the registry and the skill server have caught up with, or
\* starts the count anew.
LEMMA StepConverges ==
  ASSUME Shape, Converging, Step, Observe
  PROVE  Converging'
<1>1. stableAge' = IF streams' = streams /\ up' = up THEN stableAge ELSE 0
  BY DEF Observe
<1>2. stableAge' \in 0..ConvergeBound
  BY <1>1 DEF Converging, ConvergeBound
<1>3. "skill_server" \in up' => "skill_server" \in DOMAIN capabilities'
  BY ServerSubscribed DEF Converging
<1>4. ASSUME stableAge' >= 1, "capability_registry" \in up'
      PROVE  /\ registry' = streams'
             /\ ticks'["capability_registry"] > 0 \/ stableAge' >= 2 => Announced'
             /\ stableAge' >= 2 /\ "skill_server" \in up' => known' = Current'
  <2>1. UNCHANGED <<streams, up>> /\ stableAge' = stableAge
    BY <1>1, <1>4
  <2>2. registry = streams
    BY <1>4, <2>1 DEF Converging
  <2>3. registry' = streams'
    BY <1>4, <2>1, <2>2, StableStep
  <2>4. ASSUME ticks["capability_registry"] > 0 \/ stableAge >= 2
        PROVE  Announced
    BY <1>4, <2>1, <2>4 DEF Converging
  <2>5. Current' = Current
    BY <2>1 DEF Current, streams, CR!CapabilitiesIn, CR!CapabilityState, CR!Permitted
  <2>6. ASSUME CapabilitiesToServer, Announced, UNCHANGED latched
        PROVE  Announced'
    <3>1. /\ capabilities["skill_server"] # << >> /\ "skill_server" \in DOMAIN capabilities
          /\ known' = Head(capabilities["skill_server"])
          /\ capabilities'["skill_server"] = Tail(capabilities["skill_server"])
      BY <2>6 DEF CapabilitiesToServer, SK!OnCapabilities, Take
    <3>2. "skill_server" \in up => known' = Current /\ capabilities'["skill_server"] = << >>
      <4>1. Head(<<Current>>) = Current /\ Tail(<<Current>>) = << >>
        OBVIOUS
      <4>2. QED
        BY <2>6, <3>1, <4>1 DEF Announced
    <3>3. QED
      BY <2>1, <2>5, <2>6, <3>2 DEF Announced
  <2>7. ASSUME Announced, UNCHANGED <<latched, capabilities, known>>
        PROVE  Announced'
    BY <2>1, <2>5, <2>7 DEF Announced
  <2>8. ticks'["capability_registry"] > 0 \/ stableAge' >= 2 => Announced'
    BY <1>4, <2>1, <2>2, <2>4, <2>6, <2>7, StableStep
  <2>9. ASSUME stableAge' >= 2, "skill_server" \in up'
        PROVE  known' = Current'
    <3>1. Announced /\ known = Current
      BY <1>4, <2>1, <2>9 DEF Converging
    <3>2. CapabilitiesToServer => known' = Current
      BY <2>1, <2>9, <3>1 DEF CapabilitiesToServer, SK!OnCapabilities, Announced
    <3>3. QED
      BY <1>4, <2>1, <2>2, <2>5, <3>1, <3>2, StableStep
  <2>10. QED
    BY <2>3, <2>8, <2>9
<1>5. QED
  BY <1>2, <1>3, <1>4 DEF Converging

\* With each unit the list gets a node further: announced, then known.
LEMMA AdvanceConverges ==
  ASSUME Shape, Converging, Advance
  PROVE  Converging'
<1>1. /\ UNCHANGED <<streams, registry, up, latched, capabilities, known>>
      /\ ticks' = [n \in Nodes |-> 0]
  BY DEF Advance, server, capabilityTopic
<1>2. stableAge \in 0..2 /\ stableAge' = IF stableAge = 2 THEN 2 ELSE stableAge + 1
  BY DEF Converging, Advance, Longer, ConvergeBound, Never
<1>3. "capability_registry" \in Nodes /\ "capability_registry" \in Timed
  BY DEF Nodes, Timed
<1>4. ASSUME "capability_registry" \in up, stableAge' >= 2
      PROVE  Announced' /\ ("skill_server" \in up' => known' = Current')
  <2>1. ticks["capability_registry"] > 0 /\ stableAge >= 1
    BY <1>2, <1>3, <1>4 DEF Advance
  <2>2. Announced
    BY <1>4, <2>1 DEF Converging
  <2>3. Current' = Current
    BY <1>1 DEF Current, streams, CR!CapabilitiesIn, CR!CapabilityState, CR!Permitted
  <2>4. "skill_server" \in up => known = Current
    BY <2>2 DEF Converging, Announced, Advance, Delivered
  <2>5. QED
    BY <1>1, <2>2, <2>3, <2>4 DEF Announced
<1>5. "capability_registry" \in up => registry' = streams'
  BY <1>1 DEF Advance, AllHeard
<1>6. ~(ticks'["capability_registry"] > 0)
  BY <1>1, <1>3
<1>7. QED
  BY <1>1, <1>2, <1>4, <1>5, <1>6 DEF Converging, ConvergeBound

\* The registry and the skill server converge in every behaviour.
LEMMA ConvergingInvariant == Spec => []Converging
<1>1. Init => Converging
  <2> SUFFICES ASSUME Init PROVE Converging
    OBVIOUS
  <2>1. "skill_server" \in up => "skill_server" \in DOMAIN capabilities
    BY DEF Init, Silent
  <2>2. stableAge = 0
    BY DEF Init
  <2>3. QED
    BY <2>1, <2>2 DEF Converging, ConvergeBound
<1>2. SourcesInv /\ Converging /\ [Next]_vars => Converging'
  <2> SUFFICES ASSUME Shape, Converging, [Next]_vars PROVE Converging'
    BY DEF SourcesInv
  <2>1. CASE UNCHANGED vars
    BY <2>1 DEF vars, Converging, Announced, Current, streams, registry, server, schedule,
       capabilityTopic, observers, CR!CapabilitiesIn, CR!CapabilityState, CR!Permitted
  <2>2. QED
    BY <2>1, StepConverges, AdvanceConverges DEF Next
<1>3. QED
  BY <1>1, <1>2, SourcesInvariant, PTL DEF Spec

\* Two units after the last change of a stream or a node the registry's list is
\* that of the present situation and the skill server judges by it, whichever of
\* the two has been restarted and in whatever order they came up.
THEOREM CapabilitiesCatchUp == Spec => []CapabilitiesConverge
<1>1. Converging => CapabilitiesConverge
  <2> SUFFICES ASSUME Converging, stableAge = ConvergeBound, "capability_registry" \in up
               PROVE  latched = <<Current>> /\ ("skill_server" \in up => known = latched[1])
    BY DEF CapabilitiesConverge, Current
  <2>1. QED
    BY DEF Converging, ConvergeBound, Announced
<1>2. QED
  BY <1>1, ConvergingInvariant, PTL

(***************************************************************************)
(* The types.                                                              *)
(***************************************************************************)

\* The streams and the schedule.
StreamsTyped ==
  /\ mode \in StreamModes
  /\ launched \in Profiles /\ locomotion \in StreamLocomotion(launched)
  /\ up \subseteq launched
  /\ ticks \in [Nodes -> 0..TicksPerUnit]

\* The views of the nodes.
ViewsTyped ==
  /\ {brEnabled, prEnabled, prSafetySeen} \subseteq BOOLEAN
  /\ {brMode, prMode, crMode, skMode} \subseteq Modes
  /\ {brSafety, prSafety, crSafety, skSafety} \subseteq SafetyStates
  /\ {brLocomotion, crLocomotion} \subseteq LocomotionStates \union BR!NotReady

\* What SourcesInv, Converging and PlanInv leave of the types.
Typed == StreamsTyped /\ ViewsTyped /\ CandidatesTyped

\* No step takes a stream, the nodes that run or a timer out of its range.
LEMMA StepKeepsStreams ==
  ASSUME StreamsTyped, Step
  PROVE  StreamsTyped'
<1>1. CASE Commands
  <2>1. UNCHANGED <<mode, locomotion, launched, up>>
    BY <1>1 DEF Commands, BridgeTick, StubTick, ScriptedTick, RegistryTick, CountTick,
       Nav2Command, SkillRequest, SetEnabled, schedule, streams
  <2>2. ticks' = ticks \/ \E n \in Nodes : CountTick(n)
    BY <1>1 DEF Commands, BridgeTick, StubTick, ScriptedTick, RegistryTick,
       Nav2Command, SkillRequest, SetEnabled, schedule, Nodes
  <2>3. ticks' \in [Nodes -> 0..TicksPerUnit]
    BY <2>2, SourcesAssumption DEF CountTick, StreamsTyped
  <2>4. QED
    BY <2>1, <2>3 DEF StreamsTyped
<1>2. CASE Deliveries \/ Hearings
  BY <1>2 DEF StreamsTyped, Deliveries, AutonomyToArbiter, PolicyToArbiter,
     CapabilitiesToServer, Hearings, HearMode, HearSafety, HearLocomotion, schedule, streams
<1>3. CASE StreamChange
  BY <1>3 DEF StreamsTyped, StreamChange, schedule
<1>4. CASE \E n \in Nodes : Crash(n) \/ Recover(n)
  BY <1>4 DEF StreamsTyped, Crash, Recover, streams
<1>5. QED
  BY <1>1, <1>2, <1>3, <1>4 DEF Step, Commands, Deliveries, Hearings

\* A view is what a stream said or what a new process starts with.
LEMMA StepKeepsViewsTyped ==
  ASSUME StreamsTyped, safety \in StreamSafety, ViewsTyped, Step
  PROVE  ViewsTyped'
<1>1. /\ mode \in Modes /\ safety \in SafetyStates
      /\ locomotion \in LocomotionStates \union BR!NotReady
  BY SourcesAssumption DEF StreamsTyped
<1>2. /\ {"INACTIVE", "UNKNOWN"} \subseteq Modes /\ "UNKNOWN" \in SafetyStates
      /\ "UNKNOWN" \in BR!NotReady
  BY DEF Modes, SafetyStates, BR!NotReady
<1>3. CASE Commands
  <2>1. UNCHANGED <<brMode, brSafety, brLocomotion>> /\ brEnabled' \in {brEnabled, ~brEnabled}
    BY <1>3 DEF Commands, BridgeTick, StubTick, ScriptedTick, RegistryTick,
       Nav2Command, SkillRequest, SetEnabled, bridge, BR!Tick, BR!nodeVars,
       BR!HandleCommand, BR!SetEnabled
  <2>2. UNCHANGED <<prMode, prSafety, prSafetySeen>> /\ prEnabled' \in {prEnabled, ~prEnabled}
    BY <1>3 DEF Commands, BridgeTick, StubTick, ScriptedTick, RegistryTick,
       Nav2Command, SkillRequest, SetEnabled, provider, PR!StubTick, PR!nodeVars,
       PR!ScriptedTick, PR!SetEnabled
  <2>3. UNCHANGED <<crMode, crSafety, crLocomotion, skMode, skSafety>>
    BY <1>3 DEF Commands, BridgeTick, StubTick, ScriptedTick, RegistryTick,
       Nav2Command, SkillRequest, SetEnabled, registry, server, CR!Tick, CR!nodeVars,
       SK!OnExecuteSkill
  <2>4. QED
    BY <2>1, <2>2, <2>3 DEF ViewsTyped
<1>4. CASE Deliveries \/ StreamChange
  BY <1>4 DEF ViewsTyped, Deliveries, AutonomyToArbiter, PolicyToArbiter,
     CapabilitiesToServer, StreamChange, SK!OnCapabilities, bridge, provider, registry, server
<1>5. CASE HearMode
  <2>1. /\ UNCHANGED <<brEnabled, brSafety, brLocomotion, prEnabled, prSafety, prSafetySeen>>
        /\ UNCHANGED <<crSafety, crLocomotion, skSafety>>
        /\ brMode' \in {brMode, mode} /\ prMode' \in {prMode, mode}
        /\ crMode' \in {crMode, mode} /\ skMode' \in {skMode, mode}
    BY <1>5 DEF HearMode, bridge, provider, registry, server, BR!OnModeState, PR!OnMode,
       CR!OnModeState, SK!OnModeState
  <2>2. QED
    BY <1>1, <2>1 DEF ViewsTyped
<1>6. CASE HearSafety
  <2>1. /\ UNCHANGED <<brEnabled, brMode, brLocomotion, prEnabled, prMode>>
        /\ UNCHANGED <<crMode, crLocomotion, skMode>>
        /\ prSafetySeen' \in {prSafetySeen, TRUE}
        /\ brSafety' \in {brSafety, safety} /\ prSafety' \in {prSafety, safety}
        /\ crSafety' \in {crSafety, safety} /\ skSafety' \in {skSafety, safety}
    BY <1>6 DEF HearSafety, bridge, provider, registry, server, BR!OnSafetyState, PR!OnSafety,
       CR!OnSafetyState, SK!OnSafetyState
  <2>2. QED
    BY <1>1, <2>1 DEF ViewsTyped
<1>7. CASE HearLocomotion
  <2>1. /\ UNCHANGED <<brEnabled, brMode, brSafety, prEnabled, prMode, prSafety, prSafetySeen>>
        /\ UNCHANGED <<crMode, crSafety, skMode, skSafety>>
        /\ brLocomotion' \in {brLocomotion, locomotion}
        /\ crLocomotion' \in {crLocomotion, locomotion}
    BY <1>7 DEF HearLocomotion, bridge, provider, registry, server, BR!OnLocomotionState,
       CR!OnLocomotionState
  <2>2. QED
    BY <1>1, <2>1 DEF ViewsTyped
<1>8. CASE \E n \in Nodes : Crash(n) \/ Recover(n)
  <2>1. PICK n \in Nodes : Crash(n) \/ Recover(n)
    BY <1>8
  <2>2. \/ UNCHANGED <<brEnabled, brMode, brSafety, brLocomotion>>
        \/ /\ brEnabled' = TRUE /\ brMode' = "INACTIVE" /\ brSafety' = "UNKNOWN"
           /\ brLocomotion' = "UNKNOWN"
    BY <2>1 DEF Crash, Recover, bridge, BR!Restart
  <2>3. \/ UNCHANGED <<prEnabled, prMode, prSafety, prSafetySeen>>
        \/ /\ prEnabled' = FALSE /\ prMode' = "INACTIVE" /\ prSafety' = "UNKNOWN"
           /\ prSafetySeen' = FALSE
    BY <2>1 DEF Crash, Recover, provider, PR!Restart
  <2>4. \/ UNCHANGED <<crMode, crSafety, crLocomotion>>
        \/ crMode' = "UNKNOWN" /\ crSafety' = "UNKNOWN" /\ crLocomotion' = "UNKNOWN"
    BY <2>1 DEF Crash, Recover, registry, CR!Start, CR!Die, CR!nodeVars
  <2>5. UNCHANGED <<skMode, skSafety>> \/ (skMode' = "UNKNOWN" /\ skSafety' = "UNKNOWN")
    BY <2>1 DEF Crash, Recover, server, SK!Restart
  <2>6. {brEnabled', prEnabled', prSafetySeen'} \subseteq BOOLEAN
    BY <2>2, <2>3 DEF ViewsTyped
  <2>7. {brMode', prMode', crMode', skMode'} \subseteq Modes
    BY <1>2, <2>2, <2>3, <2>4, <2>5 DEF ViewsTyped
  <2>8. {brSafety', prSafety', crSafety', skSafety'} \subseteq SafetyStates
    BY <1>2, <2>2, <2>3, <2>4, <2>5 DEF ViewsTyped
  <2>9. {brLocomotion', crLocomotion'} \subseteq LocomotionStates \union BR!NotReady
    BY <1>2, <2>2, <2>4 DEF ViewsTyped
  <2>10. QED
    BY <2>6, <2>7, <2>8, <2>9 DEF ViewsTyped
<1>9. QED
  BY <1>3, <1>4, <1>5, <1>6, <1>7, <1>8 DEF Step, Commands, Deliveries

\* The passing of time changes ages and starts the timers anew.
LEMMA AdvanceKeepsTypes ==
  ASSUME Typed, Advance
  PROVE  Typed'
<1>1. StreamsTyped' /\ ViewsTyped'
  BY SourcesAssumption DEF Typed, StreamsTyped, ViewsTyped, Advance, streams, BR!Age, provider,
     registry, server
<1>2. QED
  BY <1>1, AdvanceKeepsCandidates DEF Typed

\* Every view, queue, memory, count and plan position stays within its type: in
\* particular the index of the scripted provider never leaves its plan and no
\* elapsed time exceeds its waypoint (PolicyProvider!NodeTypeOk).
THEOREM SourcesTyped == Spec => []TypeOk
<1>1. Init => Typed
  <2> SUFFICES ASSUME Init PROVE Typed
    OBVIOUS
  <2>1. StreamsTyped
    BY SourcesAssumption DEF Init, StreamsTyped
  <2>2. ViewsTyped
    <3>1. \E file : PR!NodeInit(file)
      BY DEF Init
    <3>2. QED
      BY <3>1 DEF Init, ViewsTyped, BR!NodeInit, PR!NodeInit, CR!NodeInit, SK!NodeInit,
         BR!NotReady, Modes, SafetyStates
  <2>3. Zero \in Velocities /\ Never \in Ages
    BY DEF Zero, Velocities, Ages
  <2>4. CandidatesTyped
    BY <2>3, SilentType DEF Init, CandidatesTyped
  <2>5. QED
    BY <2>1, <2>2, <2>4 DEF Typed
<1>2. SourcesInv /\ PlanInv /\ Typed /\ [Next]_vars => Typed'
  <2> SUFFICES ASSUME safety \in StreamSafety, PlanInv, Typed, [Next]_vars PROVE Typed'
    BY DEF SourcesInv, Shape
  <2>1. CASE Step
    BY <2>1, StepKeepsStreams, StepKeepsViewsTyped, StepKeepsCandidates DEF Typed
  <2>2. CASE Advance
    BY <2>2, AdvanceKeepsTypes
  <2>3. CASE UNCHANGED vars
    BY <2>3 DEF vars, streams, bridge, provider, registry, server, schedule,
       Typed, StreamsTyped, ViewsTyped, CandidatesTyped
  <2>4. QED
    BY <2>1, <2>2, <2>3 DEF Next
<1>3. SourcesInv /\ PlanInv /\ Converging /\ Typed => TypeOk
  <2> SUFFICES ASSUME SourcesInv, PlanInv, Converging, Typed PROVE TypeOk
    OBVIOUS
  <2>1. BR!NodeTypeOk
    BY DEF BR!NodeTypeOk, Typed, ViewsTyped, SourcesInv, Shape, BR!Ages, BR!Never, Ages, Never,
       BR!Modes, Modes, BR!SafetyStates, SafetyStates, BR!LocomotionStates, LocomotionStates
  <2>2. PR!NodeTypeOk
    <3>1. /\ {prEnabled, prSafetySeen} \subseteq BOOLEAN /\ prMode \in PR!Modes
          /\ prSafety \in PR!SafetyStates
      BY DEF Typed, ViewsTyped, PR!Modes, Modes, PR!SafetyStates, SafetyStates
    <3>2. /\ Len(plan.waypoints) \in Nat /\ DOMAIN plan.waypoints = 1..Len(plan.waypoints)
          /\ plan.waypoints = << >> <=> Len(plan.waypoints) = 0
      BY PlanShape DEF PlanInv
    <3>3. progress.index \in 1..(Len(plan.waypoints) + 1)
      BY <3>2 DEF PlanInv, OnTrack
    <3>4. ~progress.completed =>
            plan.waypoints = << >>
            \/ progress.elapsed \in 0..(plan.waypoints[progress.index].duration - 1)
      BY DEF PlanInv, OnTrack
    <3>5. QED
      BY <3>1, <3>3, <3>4 DEF PR!NodeTypeOk
  <2>3. CR!NodeTypeOk /\ SK!NodeTypeOk
    BY DEF CR!NodeTypeOk, SK!NodeTypeOk, Typed, ViewsTyped, BR!NotReady, CR!Modes, SK!Modes, Modes,
       CR!SafetyStates, SK!SafetyStates, SafetyStates, CR!LocomotionStates, LocomotionStates
  <2>4. QED
    BY <2>1, <2>2, <2>3 DEF TypeOk, Typed, StreamsTyped, CandidatesTyped, Sent, SourcesInv, Shape,
       Converging
<1>4. QED
  BY <1>1, <1>2, <1>3, SourcesInvariant, PlanInvariant, ConvergingInvariant, PTL DEF Spec
=============================================================================
