-------------------------- MODULE CandidateSources ------------------------
(***************************************************************************)
(* The sources of candidate commands other than the teleop node, each with *)
(* its own view of the runtime, and the arbiter's memory that they fill:   *)
(*                                                                         *)
(*   Nav2 --> Nav2 bridge --autonomy/cmd_vel-------------------> arbiter   *)
(*   policy provider (stub or scripted) --policy/cmd_vel-------> arbiter   *)
(*   capability registry --capabilities--> skill server                    *)
(*   client --skills/execute--> skill server --policy/cmd_vel--> arbiter   *)
(*                                                                         *)
(* A launch profile says which of the nodes run.  The mode, safety and     *)
(* locomotion streams change at any moment; a node hears a stream some     *)
(* time after it started or changed, before the unit of time ends.  A      *)
(* candidate may be under way to the arbiter for up to TransportTime       *)
(* units.  Timers and time are as in MotionPipeline.                       *)
(***************************************************************************)
EXTENDS HumaWareMsgs, RosRuntime

CONSTANTS Profiles,        \* the sets of nodes that are launched together
          Crashable, TicksPerUnit,
          StreamModes, StreamSafety,
          StreamLocomotion(_),   \* for each launch, what its robot goes through
          Skills,          \* the names that clients ask for
          Files,           \* the plan files
          BridgeTimeout, ArbiterTimeout, Velocity, TickTime,
          TransportTime    \* the units a candidate is under way at most

VARIABLES
  mode, safety, locomotion,                              \* the streams
  brEnabled, brMode, brSafety, brLocomotion, inputAge,   \* Nav2 bridge
  prEnabled, prMode, prSafety, prSafetySeen, plan, progress,
  crMode, crSafety, crLocomotion,                        \* capability registry
  known, skMode, skSafety,                               \* skill server
  candidates,                                            \* command arbiter
  autonomy, policy, bridgeState, capabilities, latched,  \* topics
  launched, up, ticks,                                   \* scheduling
  \* observers
  closedAge,    \* how long each cause has kept sources from driving
  stableAge,    \* how long streams and nodes have not changed
  emitted       \* what the scripted provider played last

BR == INSTANCE Nav2Bridge WITH
  InputTimeout <- BridgeTimeout, enabled <- brEnabled, activeMode <- brMode,
  safetyState <- brSafety, locomotionState <- brLocomotion

PR == INSTANCE PolicyProvider WITH
  StubVelocity <- Velocity, enabled <- prEnabled, activeMode <- prMode,
  safetyState <- prSafety, safetySeen <- prSafetySeen

CR == INSTANCE CapabilityRegistry WITH
  activeMode <- crMode, safetyState <- crSafety, locomotionState <- crLocomotion

SK == INSTANCE SkillServer WITH activeMode <- skMode, safetyState <- skSafety

streams == <<mode, safety, locomotion>>
bridge == <<brEnabled, brMode, brSafety, brLocomotion, inputAge>>
provider == <<prEnabled, prMode, prSafety, prSafetySeen, plan, progress, emitted>>
registry == <<crMode, crSafety, crLocomotion>>
server == <<known, skMode, skSafety>>
capabilityTopic == <<capabilities, latched>>
schedule == <<launched, up, ticks>>
observers == <<closedAge, stableAge>>
vars == <<streams, bridge, provider, registry, server, candidates, autonomy, policy,
          bridgeState, capabilityTopic, schedule, observers>>

Nodes == {"nav2_bridge", "policy_stub", "policy_scripted", "capability_registry",
          "skill_server"}

Providers == {"policy_stub", "policy_scripted"}

\* The safety manager publishes every state but UNKNOWN (SafetyManager!Evaluated).
ASSUME SourcesAssumption ==
  /\ Profiles \subseteq SUBSET Nodes
  /\ \A profile \in Profiles : ~(Providers \subseteq profile)
  /\ Crashable \subseteq Nodes
  /\ TicksPerUnit \in Nat \ {0}
  /\ StreamModes \subseteq Modes /\ StreamSafety \subseteq SafetyStates \ {"UNKNOWN"}
  /\ \A profile \in Profiles :
       StreamLocomotion(profile) \subseteq LocomotionStates \union BR!NotReady
  /\ BR!BridgeConstants /\ PR!ProviderConstants /\ SK!SkillConstants
  /\ Files \subseteq PR!PlanFiles
  /\ {ArbiterTimeout, TransportTime} \subseteq Nat
  /\ ArbiterTimeout + TransportTime < AgeCap

Gated == {"AUTONOMY", "AI_POLICY"}

\* The nodes that send candidates for a mode.
Senders(s) == IF s = "AUTONOMY" THEN {"nav2_bridge"} ELSE Providers \union {"skill_server"}

\* What keeps the launched sources from driving: another mode, or a halt.
Causes == Gated \union {"halt"}

Closes(cause) ==
  IF cause = "halt" THEN safety \notin AllowedSafety
  ELSE mode # cause /\ launched \intersect Senders(cause) # {}

\* The units a source may go on for after its mode or safety is gone: one until
\* every view has caught up, one for a list of capabilities made before that,
\* the way of the last candidate to the arbiter, and the arbiter's timeout.
QuietBound == ArbiterTimeout + TransportTime + 2

\* The units until the capabilities have caught up: one for the registry's views
\* and one for its timer.
ConvergeBound == 2

\* What the observers count stops at a bound.
Longer(age, bound) == IF age = Never \/ age = bound THEN age ELSE age + 1

Init ==
  /\ launched \in Profiles /\ up = launched
  /\ mode \in StreamModes /\ safety \in StreamSafety
  /\ locomotion \in StreamLocomotion(launched)
  /\ BR!NodeInit /\ CR!NodeInit /\ SK!NodeInit
  /\ candidates = [s \in Gated |-> [vel |-> Zero, age |-> Never]]
  /\ IF "policy_scripted" \in launched THEN \E file \in Files : PR!NodeInit(file)
                                     ELSE PR!NodeInit(PR!EmptyPlan)
  /\ autonomy = Silent({"arbiter"}) /\ policy = Silent({"arbiter"})
  /\ bridgeState = Silent({"listener"})
  /\ capabilities = Silent({"skill_server"} \intersect up) /\ latched = << >>
  /\ ticks = [n \in Nodes |-> 0]
  /\ closedAge = [cause \in Causes |-> IF Closes(cause) THEN 0 ELSE Never]
  /\ stableAge = 0
  /\ emitted = {}

(***************************************************************************)
(* Timers, commands and requests.                                          *)
(***************************************************************************)
CountTick(n) ==
  /\ n \in up
  /\ ticks[n] < TicksPerUnit
  /\ ticks' = [ticks EXCEPT ![n] = @ + 1]
  /\ UNCHANGED <<launched, up, streams, candidates>>

BridgeTick ==
  /\ CountTick("nav2_bridge")
  /\ BR!Tick
  /\ UNCHANGED <<provider, registry, server, policy, capabilityTopic>>

StubTick ==
  /\ CountTick("policy_stub")
  /\ PR!StubTick
  /\ UNCHANGED <<emitted, bridge, registry, server, autonomy, bridgeState, capabilityTopic>>

ScriptedTick ==
  /\ CountTick("policy_scripted")
  /\ PR!ScriptedTick
  /\ emitted' = IF PR!ShouldEmitCandidate THEN PR!CurrentCommand(progress', plan) ELSE emitted
  /\ UNCHANGED <<bridge, registry, server, autonomy, bridgeState, capabilityTopic>>

RegistryTick ==
  /\ CountTick("capability_registry")
  /\ CR!Tick
  /\ UNCHANGED <<bridge, provider, server, autonomy, policy, bridgeState>>

Nav2Command ==
  /\ "nav2_bridge" \in up
  /\ BR!HandleCommand(Velocity)
  /\ UNCHANGED <<streams, provider, registry, server, candidates, policy,
                 capabilityTopic, schedule>>

SkillRequest ==
  /\ "skill_server" \in up
  /\ \E name \in Skills, dryRun \in BOOLEAN : SK!OnExecuteSkill(name, dryRun)
  /\ UNCHANGED <<streams, bridge, provider, registry, candidates, autonomy,
                 bridgeState, capabilityTopic, schedule>>

\* An operator turns a source on or off.
SetEnabled ==
  /\ \/ /\ "nav2_bridge" \in up
        /\ BR!SetEnabled(~brEnabled)
        /\ UNCHANGED <<provider, policy>>
     \/ /\ up \intersect Providers # {}
        /\ PR!SetEnabled(~prEnabled)
        /\ UNCHANGED <<emitted, bridge, autonomy, bridgeState>>
  /\ UNCHANGED <<streams, registry, server, candidates, capabilityTopic, schedule>>

(***************************************************************************)
(* Streams and deliveries.                                                 *)
(***************************************************************************)
StreamChange ==
  /\ \/ mode' \in StreamModes \ {mode} /\ UNCHANGED <<safety, locomotion>>
     \/ safety' \in StreamSafety \ {safety} /\ UNCHANGED <<mode, locomotion>>
     \/ locomotion' \in StreamLocomotion(launched) \ {locomotion} /\ UNCHANGED <<mode, safety>>
  /\ UNCHANGED <<bridge, provider, registry, server, candidates, autonomy, policy,
                 bridgeState, capabilityTopic, schedule>>

HearMode ==
  /\ \/ /\ "nav2_bridge" \in up /\ brMode # mode
        /\ BR!OnModeState(mode)
        /\ UNCHANGED <<provider, registry, server, policy, capabilityTopic>>
     \/ /\ up \intersect Providers # {} /\ prMode # mode
        /\ PR!OnMode(mode)
        /\ UNCHANGED <<emitted, bridge, registry, server, autonomy, bridgeState,
                       capabilityTopic>>
     \/ /\ "capability_registry" \in up /\ crMode # mode
        /\ CR!OnModeState(mode)
        /\ UNCHANGED <<bridge, provider, server, autonomy, policy, bridgeState>>
     \/ /\ "skill_server" \in up /\ skMode # mode
        /\ SK!OnModeState(mode)
        /\ UNCHANGED <<bridge, provider, registry, autonomy, bridgeState, capabilityTopic>>
  /\ UNCHANGED <<streams, candidates, schedule>>

HearSafety ==
  /\ \/ /\ "nav2_bridge" \in up /\ brSafety # safety
        /\ BR!OnSafetyState(safety)
        /\ UNCHANGED <<provider, registry, server, policy, capabilityTopic>>
     \/ /\ up \intersect Providers # {} /\ prSafety # safety
        /\ PR!OnSafety(safety)
        /\ UNCHANGED <<emitted, bridge, registry, server, autonomy, bridgeState,
                       capabilityTopic>>
     \/ /\ "capability_registry" \in up /\ crSafety # safety
        /\ CR!OnSafetyState(safety)
        /\ UNCHANGED <<bridge, provider, server, autonomy, policy, bridgeState>>
     \/ /\ "skill_server" \in up /\ skSafety # safety
        /\ SK!OnSafetyState(safety)
        /\ UNCHANGED <<bridge, provider, registry, autonomy, bridgeState, capabilityTopic>>
  /\ UNCHANGED <<streams, candidates, schedule>>

HearLocomotion ==
  /\ \/ /\ "nav2_bridge" \in up /\ brLocomotion # locomotion
        /\ BR!OnLocomotionState(locomotion)
        /\ UNCHANGED <<registry, capabilityTopic>>
     \/ /\ "capability_registry" \in up /\ crLocomotion # locomotion
        /\ CR!OnLocomotionState(locomotion)
        /\ UNCHANGED <<bridge, autonomy, bridgeState>>
  /\ UNCHANGED <<streams, provider, server, candidates, policy, schedule>>

\* Of the arbiter only its memory of candidates matters here.  It stamps one with
\* its own clock when it arrives.
Remember(source, vel) == candidates' = [candidates EXCEPT ![source] = [vel |-> vel, age |-> 0]]

AutonomyToArbiter ==
  /\ autonomy["arbiter"] # << >>
  /\ Remember("AUTONOMY", Head(autonomy["arbiter"]).vel)
  /\ autonomy' = Take(autonomy, "arbiter")
  /\ UNCHANGED <<streams, bridge, provider, registry, server, policy, bridgeState,
                 capabilityTopic, schedule>>

PolicyToArbiter ==
  /\ policy["arbiter"] # << >>
  /\ Remember("AI_POLICY", Head(policy["arbiter"]).vel)
  /\ policy' = Take(policy, "arbiter")
  /\ UNCHANGED <<streams, bridge, provider, registry, server, autonomy, bridgeState,
                 capabilityTopic, schedule>>

CapabilitiesToServer ==
  /\ "skill_server" \in DOMAIN capabilities /\ capabilities["skill_server"] # << >>
  /\ SK!OnCapabilities(Head(capabilities["skill_server"]))
  /\ capabilities' = Take(capabilities, "skill_server")
  /\ UNCHANGED <<streams, bridge, provider, registry, latched, candidates, autonomy,
                 bridgeState, schedule>>

(***************************************************************************)
(* Faults and time.                                                        *)
(***************************************************************************)
Crash(n) ==
  /\ n \in up \intersect Crashable
  /\ IF n = "nav2_bridge" THEN BR!Restart ELSE UNCHANGED bridge
  /\ IF n \in Providers THEN PR!Restart /\ emitted' = {} ELSE UNCHANGED provider
  /\ IF n = "skill_server"
     THEN SK!Restart /\ capabilities' = Leave(capabilities, n) /\ UNCHANGED latched
     ELSE /\ UNCHANGED server
          /\ IF n = "capability_registry" THEN CR!Die ELSE UNCHANGED capabilityTopic
  /\ up' = up \ {n}
  /\ UNCHANGED <<streams, registry, candidates, autonomy, policy, bridgeState,
                 launched, ticks>>

\* A skill server that starts late is given the list kept by a living registry.
Recover(n) ==
  /\ n \in launched \ up
  /\ IF n = "capability_registry" THEN CR!Start
     ELSE /\ UNCHANGED <<registry, latched>>
          /\ capabilities' = IF n = "skill_server"
                             THEN [sub \in {n} |-> latched] ELSE capabilities
  /\ up' = up \union {n}
  /\ UNCHANGED <<streams, bridge, provider, server, candidates, autonomy, policy,
                 bridgeState, launched, ticks>>

Timed == Nodes \ {"skill_server"}

\* Every node that runs has heard what the streams say.
AllHeard ==
  /\ "nav2_bridge" \in up => <<brMode, brSafety, brLocomotion>> = streams
  /\ up \intersect Providers # {} => <<prMode, prSafety>> = <<mode, safety>>
  /\ "capability_registry" \in up => registry = streams
  /\ "skill_server" \in up => <<skMode, skSafety>> = <<mode, safety>>

Delivered(topic) == \A n \in DOMAIN topic : topic[n] = << >>

\* No candidate on the topic has been under way for as long as it may be.
MayWait(topic) ==
  \A n \in DOMAIN topic : \A i \in DOMAIN topic[n] : topic[n][i].age < TransportTime

UnitUnderWay(topic) ==
  [n \in DOMAIN topic |->
     [i \in DOMAIN topic[n] |-> [topic[n][i] EXCEPT !.age = @ + 1]]]

Advance ==
  /\ \A n \in up \intersect Timed : ticks[n] > 0
  /\ AllHeard
  /\ MayWait(autonomy) /\ MayWait(policy) /\ Delivered(capabilities)
  /\ BR!Age
  /\ candidates' = [s \in Gated |-> [candidates[s] EXCEPT !.age = Older(@)]]
  /\ autonomy' = UnitUnderWay(autonomy) /\ policy' = UnitUnderWay(policy)
  /\ ticks' = [n \in Nodes |-> 0]
  /\ closedAge' = [cause \in Causes |-> Longer(closedAge[cause], QuietBound)]
  /\ stableAge' = Longer(stableAge, ConvergeBound)
  /\ UNCHANGED <<streams, provider, registry, server, bridgeState, capabilityTopic,
                 launched, up>>

Observe ==
  /\ closedAge' = [cause \in Causes |-> IF ~Closes(cause)' THEN Never
                     ELSE IF closedAge[cause] = Never THEN 0 ELSE closedAge[cause]]
  /\ stableAge' = IF streams' = streams /\ up' = up THEN stableAge ELSE 0

Step ==
  \/ BridgeTick \/ StubTick \/ ScriptedTick \/ RegistryTick
  \/ Nav2Command \/ SkillRequest \/ SetEnabled
  \/ StreamChange \/ HearMode \/ HearSafety \/ HearLocomotion
  \/ AutonomyToArbiter \/ PolicyToArbiter \/ CapabilitiesToServer
  \/ \E n \in Nodes : Crash(n) \/ Recover(n)

Next == (Step /\ Observe) \/ Advance

Spec == Init /\ [][Next]_vars

-----------------------------------------------------------------------------
TypeOk ==
  /\ BR!NodeTypeOk /\ PR!NodeTypeOk /\ CR!NodeTypeOk /\ SK!NodeTypeOk
  /\ candidates \in [Gated -> [vel : Velocities, age : Ages]]
  /\ autonomy \in Topics({"arbiter"}, Samples(Velocities, TransportTime))
  /\ policy \in Topics({"arbiter"}, Samples(Velocities, TransportTime))
  /\ bridgeState \in Topics({"listener"}, BR!BridgeStates)
  /\ launched \in Profiles /\ up \subseteq launched
  /\ ticks \in [Nodes -> 0..TicksPerUnit]
  /\ closedAge \in [Causes -> {Never} \union 0..QuietBound]
  /\ stableAge \in 0..ConvergeBound

\* The arbiter would still approve the candidate of s.
Fresh(s) == Within(candidates[s].age, ArbiterTimeout)

\* Once another mode, or a halt, has kept a source from driving for QuietBound
\* units, the arbiter remembers no moving candidate of it that it could approve:
\* a return to the mode or the end of the halt never replays motion from before.
\* The bridge, the providers and the skill server each decide with views of
\* their own, and a restarted node starts with none.  (The causes are counted
\* apart: while they alternate, a node may combine an old view of one stream
\* with a new view of the other and see an opening that never was.)
QuietSources ==
  \A s \in Gated :
    QuietBound \in {closedAge[s], closedAge["halt"]}
      => ~Fresh(s) \/ candidates[s].vel = Zero

\* ConvergeBound units after the last change of a stream or a node, the registry's list and
\* the one the skill server judges by are those of the present situation, also
\* when either of them has just been restarted.
CapabilitiesConverge ==
  stableAge = ConvergeBound /\ "capability_registry" \in up =>
    /\ latched = <<CR!CapabilitiesIn(mode, safety, locomotion)>>
    /\ "skill_server" \in up => known = latched[1]

\* The bridge stamps a command of Nav2 when it arrives there, the arbiter when
\* what was passed on arrives at the arbiter: when Nav2 falls silent the bridge
\* may report STALE while the arbiter still approves the last command.  That does
\* not last: however long candidates are under way, once Nav2 has been silent for
\* the arbiter's timeout and that time together the arbiter approves none.
SilenceReachesArbiter ==
  Fresh("AUTONOMY") => inputAge <= ArbiterTimeout + TransportTime

(***************************************************************************)
(* The scripted provider implements the playback of a track, whatever the  *)
(* gate does between its ticks: the position moves on by exactly a tick of *)
(* time whenever the gate is open, no time is lost by an excursion or      *)
(* where a loop starts over, and the segment under the position is played. *)
(* A segment that lies within one tick is passed over unplayed.            *)
(***************************************************************************)
Track == INSTANCE PlanPlayback WITH position <- 0, playing <- {}

Playback == INSTANCE PlanPlayback WITH
  position <- Track!Begins[progress.index] + progress.elapsed, playing <- emitted

PlaybackRefined == Playback!Spec

\* The waypoint after i; the one after the last of a plan that does not loop is
\* the end.
Following(i) == IF i = Len(plan.waypoints) /\ plan.loop THEN 1 ELSE i + 1

\* The comment on advance_progress: to consume the waypoints one by one "keeps
\* coarse tick rates from skipping short waypoints silently".  So a tick leaves
\* a waypoint that has been played, and for the one that follows it.
WaypointsPlayed ==
  [][ScriptedTick /\ progress'.index # progress.index
     => /\ emitted = {plan.waypoints[progress.index].vel}
        /\ progress'.index = Following(progress.index)]_vars
=============================================================================
