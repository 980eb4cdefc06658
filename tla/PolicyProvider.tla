--------------------------- MODULE PolicyProvider -------------------------
(***************************************************************************)
(* The two policy providers.  Both publish on policy/cmd_vel on a timer    *)
(* and only while the same gate is open; the stub repeats one velocity,    *)
(* the scripted provider plays a waypoint plan that stands still while the *)
(* gate is closed.                                                         *)
(***************************************************************************)
EXTENDS HumaWareMsgs, RosRuntime, WaypointPlan

CONSTANTS StubVelocity,    \* linear_x_mps, angular_z_radps of the stub
          TickTime         \* the scripted provider's period

ProviderConstants == StubVelocity \in Velocities /\ TickTime \in Nat \ {0}

\* A file whose entries have the fields of a waypoint.  Every other mapping is
\* refused like one with a duration that is not positive.  Two kinds of file are
\* not among these.  One whose top level is neither empty nor a mapping raises an
\* error that _load_plan does not catch: the node ends in its constructor, and
\* the launch goes on without it.  And durations are integers here: the NaN that
\* passes the validation is left out.
PlanFiles == [waypoints : Seq([vel : Velocities, duration : Int]), loop : BOOLEAN]

VARIABLES enabled,       \* the parameter of that name
          activeMode,    \* _active_mode
          safetyState,   \* _safety_state
          safetySeen,    \* _safety_seen
          plan,          \* _plan of the scripted provider
          progress,      \* _progress of the scripted provider
          policy         \* topic policy/cmd_vel

nodeVars == <<enabled, activeMode, safetyState, safetySeen, plan, progress>>

\* should_emit_candidate
ShouldEmitCandidate ==
  enabled /\ safetySeen /\ safetyState \in AllowedSafety /\ activeMode = "AI_POLICY"

\* The parameter enabled is given at the start and may be set later.
NodeInit(file) ==
  /\ enabled = FALSE
  /\ activeMode = "INACTIVE"
  /\ safetyState = "UNKNOWN"
  /\ safetySeen = FALSE
  /\ plan = LoadPlan(file)
  /\ progress = InitialProgress

\* The next process reads the same plan file and starts it from the beginning.
Restart ==
  /\ enabled' = FALSE
  /\ activeMode' = "INACTIVE"
  /\ safetyState' = "UNKNOWN"
  /\ safetySeen' = FALSE
  /\ progress' = InitialProgress
  /\ UNCHANGED plan

SetEnabled(value) ==
  /\ enabled' = value
  /\ UNCHANGED <<activeMode, safetyState, safetySeen, plan, progress, policy>>

OnMode(mode) ==
  /\ activeMode' = mode
  /\ UNCHANGED <<enabled, safetyState, safetySeen, plan, progress, policy>>

OnSafety(state) ==
  /\ safetyState' = state
  /\ safetySeen' = TRUE
  /\ UNCHANGED <<enabled, activeMode, plan, progress, policy>>

StubTick ==
  /\ policy' = IF ShouldEmitCandidate THEN Publish(policy, Sample(StubVelocity)) ELSE policy
  /\ UNCHANGED nodeVars

\* The plan moves on before the command is looked up.
ScriptedTick ==
  /\ progress' = IF ShouldEmitCandidate
                 THEN AdvanceProgress(progress, plan, TickTime) ELSE progress
  /\ policy' = IF ShouldEmitCandidate /\ CurrentCommand(progress', plan) # {}
               THEN Publish(policy, Sample(CHOOSE vel \in CurrentCommand(progress', plan) : TRUE))
               ELSE policy
  /\ UNCHANGED <<enabled, activeMode, safetyState, safetySeen, plan>>

-----------------------------------------------------------------------------
NodeTypeOk ==
  /\ {enabled, safetySeen} \subseteq BOOLEAN
  /\ activeMode \in Modes
  /\ safetyState \in SafetyStates
  /\ progress.index \in 1..(Len(plan.waypoints) + 1)
  /\ ~progress.completed =>
       plan.waypoints = << >> \/ progress.elapsed \in 0..(plan.waypoints[progress.index].duration - 1)
=============================================================================
