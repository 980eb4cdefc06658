-------------------------- MODULE CommandArbiter --------------------------
(***************************************************************************)
(* The command arbiter node.  It remembers the last candidate command of   *)
(* every source and, on a timer, approves at most one of them.  One action *)
(* per callback; Age is the passing of one clock unit.                     *)
(***************************************************************************)
EXTENDS HumaWareMsgs, RosRuntime

CONSTANTS CommandTimeout,      \* command_timeout_s
          MaxLinear,           \* max_linear_velocity_mps
          MaxAngular,          \* max_angular_velocity_radps
          PublishStopOnBlock,  \* publish_stop_on_block
          Offered              \* the velocities that the sources ask for

ArbiterConstants ==
  /\ CommandTimeout \in Nat /\ CommandTimeout < AgeCap
  /\ MaxLinear \in Nat /\ MaxAngular \in Nat
  /\ PublishStopOnBlock \in BOOLEAN
  /\ Offered \subseteq Velocities

VARIABLES activeMode,    \* _active_mode
          safetyState,   \* _safety_state
          safetySeen,    \* _last_safety is not None
          candidates,    \* _candidates: last command of a source and its age
          approved,      \* topic cmd_vel/approved
          arbitration    \* topic runtime/command_arbitration_state

nodeVars == <<activeMode, safetyState, safetySeen, candidates>>
topicVars == <<approved, arbitration>>
vars == <<nodeVars, topicVars>>

SourcePriority == <<"TELEOP", "AUTONOMY", "AI_POLICY">>
Sources == {"TELEOP", "AUTONOMY", "AI_POLICY"}

\* Each source is named after the one mode it may drive the robot in.
RequiredMode(source) == source

InactiveModes == {"INACTIVE", "MAINTENANCE", "FAULT", "SHUTDOWN"}

\* Variant for mutation: a blocking safety state is no reason to stop.
StopReasonsWithoutSafety ==
  {"safety_state_not_ready", "active_mode_blocks_output",
   "no_fresh_command_for_active_mode"}

\* Variant for mutation: a command that ran out is no reason to stop.
StopReasonsWithoutStale ==
  {"safety_state_blocks_output", "safety_state_not_ready",
   "active_mode_blocks_output"}

StopReasons == {"safety_state_blocks_output", "safety_state_not_ready",
                "active_mode_blocks_output", "no_fresh_command_for_active_mode"}

Reasons == StopReasons \union {"waiting_for_safety_state", "approved"}

NoCandidate == [vel |-> Zero, age |-> Never]

(***************************************************************************)
(* select_candidate: the reason for the next publication and, when it is   *)
(* "approved", the source whose candidate is approved.                     *)
(***************************************************************************)
\* Variants for mutation: one of the two tests is forgotten.
EligibleInAnyMode(source) == Within(candidates[source].age, CommandTimeout)

EligibleForEver(source) ==
  RequiredMode(source) = activeMode /\ candidates[source].age # Never

Eligible(source) ==
  /\ RequiredMode(source) = activeMode
  /\ Within(candidates[source].age, CommandTimeout)

Selected ==
  SourcePriority[CHOOSE i \in 1..3 :
                   /\ Eligible(SourcePriority[i])
                   /\ \A j \in 1..(i - 1) : ~Eligible(SourcePriority[j])]

Reason ==
  IF ~safetySeen THEN "waiting_for_safety_state"
  ELSE IF safetyState \in BlockingSafety THEN "safety_state_blocks_output"
  ELSE IF safetyState \notin AllowedSafety THEN "safety_state_not_ready"
  ELSE IF activeMode \in InactiveModes THEN "active_mode_blocks_output"
  ELSE IF \E s \in Sources : Eligible(s) THEN "approved"
  ELSE "no_fresh_command_for_active_mode"

ShouldPublishStop(reason) == PublishStopOnBlock /\ reason \in StopReasons

(***************************************************************************)
(* The messages.  age is the command_age of the report: how long ago the   *)
(* approved candidate was received.  The approved command carries it too,  *)
(* as a record for the properties; no node reads it.                       *)
(***************************************************************************)
\* Variant for mutation: backward motion is not limited.
ClampAbove(value, limit) == IF value > limit THEN limit ELSE value

Clamp(value, limit) ==
  IF value > limit THEN limit ELSE IF value < -limit THEN -limit ELSE value

ClampVelocity(vel) ==
  [lin |-> Clamp(vel.lin, MaxLinear), ang |-> Clamp(vel.ang, MaxAngular)]

Stop == [vel |-> Zero, age |-> 0]

ApprovedCommand ==
  [vel |-> ClampVelocity(candidates[Selected].vel), age |-> candidates[Selected].age]

Commands == [vel : Velocities, age : Ages]

\* Variant for mutation: the mode is reported in place of the source.
ReportOfMode ==
  [source |-> activeMode, enabled |-> Reason = "approved",
   stop |-> ShouldPublishStop(Reason), reason |-> Reason]

Report ==
  LET stopping == ShouldPublishStop(Reason)
  IN  [source |-> IF Reason = "approved" THEN Selected
                  ELSE IF stopping THEN "SAFETY" ELSE "NONE",
       enabled |-> Reason = "approved",
       stop    |-> stopping,
       reason  |-> Reason]

Reports == [source : Sources \union {"SAFETY", "NONE"}, enabled : BOOLEAN,
            stop : BOOLEAN, reason : Reasons]

(***************************************************************************)
(* The callbacks.                                                          *)
(***************************************************************************)
NodeInit ==
  /\ activeMode = "INACTIVE"
  /\ safetyState = "UNKNOWN"
  /\ safetySeen = FALSE
  /\ candidates = [s \in Sources |-> NoCandidate]

\* The process dies; the next one starts from the constructor.
Restart ==
  /\ activeMode' = "INACTIVE"
  /\ safetyState' = "UNKNOWN"
  /\ safetySeen' = FALSE
  /\ candidates' = [s \in Sources |-> NoCandidate]

OnModeState(mode) ==
  /\ activeMode' = mode
  /\ UNCHANGED <<safetyState, safetySeen, candidates, topicVars>>

OnSafetyState(state) ==
  /\ safetyState' = state
  /\ safetySeen' = TRUE
  /\ UNCHANGED <<activeMode, candidates, topicVars>>

OnCandidate(source, vel) ==
  /\ candidates' = [candidates EXCEPT ![source] = [vel |-> vel, age |-> 0]]
  /\ UNCHANGED <<activeMode, safetyState, safetySeen, topicVars>>

\* Variant for mutation: a stop is reported but not published.
TickWithoutStop ==
  /\ approved' = IF Reason = "approved" THEN Publish(approved, ApprovedCommand)
                                         ELSE approved
  /\ arbitration' = Publish(arbitration, Report)
  /\ UNCHANGED nodeVars

\* The approved command, if any, is published before the report.
Tick ==
  /\ approved' = IF Reason = "approved" THEN Publish(approved, ApprovedCommand)
                 ELSE IF ShouldPublishStop(Reason) THEN Publish(approved, Stop)
                 ELSE approved
  /\ arbitration' = Publish(arbitration, Report)
  /\ UNCHANGED nodeVars

Age ==
  /\ candidates' = [s \in Sources |->
                      [candidates[s] EXCEPT !.age = Older(candidates[s].age)]]
  /\ UNCHANGED <<activeMode, safetyState, safetySeen>>

(***************************************************************************)
(* The node on its own: its inputs arrive in any order and at any time,    *)
(* and one subscriber listens to both of its topics.                       *)
(***************************************************************************)
Init ==
  /\ NodeInit
  /\ approved = Silent({"listener"})
  /\ arbitration = Silent({"listener"})

Next ==
  \/ \E mode \in Modes : OnModeState(mode)
  \/ \E state \in SafetyStates : OnSafetyState(state)
  \/ \E source \in Sources, vel \in Offered : OnCandidate(source, vel)
  \/ Tick
  \/ Restart /\ UNCHANGED topicVars
  \/ Age /\ UNCHANGED topicVars

Spec == Init /\ [][Next]_vars

-----------------------------------------------------------------------------
NodeTypeOk ==
  /\ activeMode \in Modes
  /\ safetyState \in SafetyStates
  /\ safetySeen \in BOOLEAN
  /\ candidates \in [Sources -> [vel : Offered \union {Zero}, age : Ages]]

TypeOk ==
  /\ NodeTypeOk
  /\ approved \in Topics({"listener"}, Commands)
  /\ arbitration \in Topics({"listener"}, Reports)

\* What the listener has last seen on each topic.
LastCommand == Latest(approved["listener"])
LastReport == Latest(arbitration["listener"])
Listening == approved["listener"] # << >> /\ arbitration["listener"] # << >>

\* Every approved command respects the configured limits and approves a
\* candidate that was at most command_timeout_s old, whatever the sources ask
\* for and however the callbacks interleave.
ApprovedWithinContract ==
  \A i \in 1..Len(approved["listener"]) :
    LET command == approved["listener"][i]
    IN  /\ Abs(command.vel.lin) <= MaxLinear
        /\ Abs(command.vel.ang) <= MaxAngular
        /\ command.age \in 0..CommandTimeout

\* The two topics agree: a report that output is enabled comes with a command,
\* a report that a stop was published comes with a stop as the last command.
ReportExplainsOutput ==
  arbitration["listener"] # << >> =>
    /\ LastReport.enabled => /\ approved["listener"] # << >>
                             /\ LastReport.source \in Sources
    /\ LastReport.stop => /\ approved["listener"] # << >>
                          /\ LastCommand = Stop

\* An arbiter configured to publish stops never falls silent on a command that
\* moves the robot, except while it waits for its first safety state.
LastWordIsStop ==
  PublishStopOnBlock /\ Listening /\ LastCommand.vel # Zero =>
    LastReport.enabled \/ LastReport.reason = "waiting_for_safety_state"
=============================================================================
