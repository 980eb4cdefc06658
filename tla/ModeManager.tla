---------------------------- MODULE ModeManager ---------------------------
(***************************************************************************)
(* The mode manager node: it owns the runtime mode, grants or rejects the  *)
(* requests to change it, and announces every request and its outcome.     *)
(***************************************************************************)
EXTENDS HumaWareMsgs, RosRuntime

CONSTANTS InitialMode,   \* initial_mode, already parsed
          Requesters     \* who calls mode/set and mode/takeover

ModeValues == Modes \ {"UNKNOWN"}

ASSUME ModeAssumption == InitialMode \in ModeValues

VARIABLES requestedMode,  \* _requested_mode
          activeMode,     \* _active_mode
          owner,          \* _owner
          safetyState,    \* _safety_state
          safetySeen,     \* _safety_seen
          mode,           \* topic mode/state
          transition      \* topic mode/transition_state

nodeVars == <<requestedMode, activeMode, owner, safetyState, safetySeen>>
topicVars == <<mode, transition>>
vars == <<nodeVars, topicVars>>

AutonomyModes == {"AUTONOMY", "AI_POLICY"}
AiPolicyEntryModes == {"TELEOP", "AUTONOMY"}
AutonomyBlockingSafety == BlockingSafety \union {"UNKNOWN"}

(***************************************************************************)
(* evaluate_transition for a mode/set request and for a takeover.  Asking  *)
(* for the mode that is active already is granted before any other test    *)
(* but that of the terminal mode.                                          *)
(***************************************************************************)
Unchanged(requested) == requested = activeMode

\* Variants for mutation: one of the guards is forgotten.
SetModeGrantedUnseen(requested) ==
  \/ Unchanged(requested)
  \/ /\ activeMode # "SHUTDOWN"
     /\ requested \in AutonomyModes => safetyState \in AllowedSafety
     /\ requested = "AI_POLICY" => activeMode \in AiPolicyEntryModes

SetModeGrantedFromMaintenance(requested) ==
  \/ Unchanged(requested)
  \/ /\ activeMode # "SHUTDOWN"
     /\ requested \in ActiveModes => safetySeen
     /\ requested \in AutonomyModes => safetyState \notin AutonomyBlockingSafety
     /\ requested = "AI_POLICY" => activeMode \in AiPolicyEntryModes

SetModeGranted(requested) ==
  \/ Unchanged(requested)
  \/ /\ activeMode # "SHUTDOWN"
     /\ requested \in ActiveModes => safetySeen
     /\ requested \in AutonomyModes =>
          safetyState \notin AutonomyBlockingSafety /\ activeMode # "MAINTENANCE"
     /\ requested = "AI_POLICY" => activeMode \in AiPolicyEntryModes

TakeoverGranted == Unchanged("TELEOP") \/ activeMode \in ActiveModes

(***************************************************************************)
(* The messages.                                                           *)
(***************************************************************************)
ModeMsg == [requested |-> requestedMode, active |-> activeMode, owner |-> owner]

ModeMsgs == [requested : ModeValues, active : ModeValues,
             owner : Requesters \union {"mode_manager"}]

\* Variants for mutation: the record is made of the requested mode.
TransitionAsRequested(previous, requested, requester, accepted, takeover) ==
  [previous |-> previous, requested |-> requested,
   active |-> IF accepted THEN activeMode' ELSE requestedMode',
   requester |-> requester, accepted |-> accepted, takeover |-> takeover]

TransitionFromRequested(previous, requested, requester, accepted, takeover) ==
  [previous |-> requestedMode, requested |-> requested, active |-> activeMode',
   requester |-> requester, accepted |-> accepted, takeover |-> takeover]

\* The record of a request: activeMode is the mode after it was handled.
Transition(previous, requested, requester, accepted, takeover) ==
  [previous |-> previous, requested |-> requested, active |-> activeMode',
   requester |-> requester, accepted |-> accepted, takeover |-> takeover]

Transitions == [previous : ModeValues, requested : Modes, active : ModeValues,
                requester : Requesters, accepted : BOOLEAN, takeover : BOOLEAN]

PublishState == mode' = Publish(mode, ModeMsg')

(***************************************************************************)
(* The callbacks.                                                          *)
(***************************************************************************)
NodeInit ==
  /\ requestedMode = InitialMode
  /\ activeMode = InitialMode
  /\ owner = "mode_manager"
  /\ safetyState = "UNKNOWN"
  /\ safetySeen = FALSE

\* The process dies; the next one starts from the constructor.
Restart ==
  /\ requestedMode' = InitialMode
  /\ activeMode' = InitialMode
  /\ owner' = "mode_manager"
  /\ safetyState' = "UNKNOWN"
  /\ safetySeen' = FALSE

OnSafetyState(state) ==
  /\ safetyState' = state
  /\ safetySeen' = TRUE
  /\ UNCHANGED <<requestedMode, activeMode, owner, topicVars>>

\* _apply_mode
ApplyMode(requested, requester) ==
  /\ requestedMode' = requested
  /\ activeMode' = requested
  /\ owner' = requester

\* Variant for mutation: even a mode that does not exist is remembered.
SetModeRemembered(requested, requester) ==
  LET granted == requested \in ModeValues /\ SetModeGranted(requested)
  IN  /\ requestedMode' = requested
      /\ activeMode' = IF granted THEN requested ELSE activeMode
      /\ owner' = IF granted THEN requester ELSE owner
      /\ transition' =
           Publish(transition, Transition(activeMode, requested, requester, granted, FALSE))
      /\ IF granted THEN PublishState ELSE UNCHANGED mode
      /\ UNCHANGED <<safetyState, safetySeen>>

\* _handle_set_mode: a rejected request is remembered as the requested mode
\* when the mode exists; the state is published only after a granted one.
SetMode(requested, requester) ==
  LET granted == requested \in ModeValues /\ SetModeGranted(requested)
  IN  /\ IF granted THEN ApplyMode(requested, requester)
         ELSE /\ requestedMode' = IF requested \in ModeValues THEN requested
                                                              ELSE requestedMode
              /\ UNCHANGED <<activeMode, owner>>
      /\ transition' =
           Publish(transition, Transition(activeMode, requested, requester, granted, FALSE))
      /\ IF granted THEN PublishState ELSE UNCHANGED mode
      /\ UNCHANGED <<safetyState, safetySeen>>

\* Variant for mutation: the owner changes whatever the outcome.
TakeoverAnyway(requester) ==
  /\ IF TakeoverGranted THEN requestedMode' = "TELEOP" /\ activeMode' = "TELEOP"
                        ELSE UNCHANGED <<requestedMode, activeMode>>
  /\ owner' = requester
  /\ transition' =
       Publish(transition, Transition(activeMode, "TELEOP", requester, TakeoverGranted, TRUE))
  /\ PublishState
  /\ UNCHANGED <<safetyState, safetySeen>>

\* _handle_takeover: the state is published whatever the outcome.
Takeover(requester) ==
  /\ IF TakeoverGranted THEN ApplyMode("TELEOP", requester)
                        ELSE UNCHANGED <<requestedMode, activeMode, owner>>
  /\ transition' =
       Publish(transition, Transition(activeMode, "TELEOP", requester, TakeoverGranted, TRUE))
  /\ PublishState
  /\ UNCHANGED <<safetyState, safetySeen>>

\* The timer.
Tick ==
  /\ UNCHANGED <<nodeVars, transition>>
  /\ PublishState

(***************************************************************************)
(* The node on its own, with one listener on both of its topics.  The      *)
(* process is not restarted: a listener cannot tell a restarted record.    *)
(***************************************************************************)
Init ==
  /\ NodeInit
  /\ mode = Silent({"listener"})
  /\ transition = Silent({"listener"})

Next ==
  \/ \E state \in SafetyStates : OnSafetyState(state)
  \/ \E requested \in Modes, requester \in Requesters : SetMode(requested, requester)
  \/ \E requester \in Requesters : Takeover(requester)
  \/ Tick

Spec == Init /\ [][Next]_vars

-----------------------------------------------------------------------------
NodeTypeOk ==
  /\ requestedMode \in ModeValues
  /\ activeMode \in ModeValues
  /\ owner \in Requesters \union {"mode_manager"}
  /\ safetyState \in SafetyStates
  /\ safetySeen \in BOOLEAN

TypeOk ==
  /\ NodeTypeOk
  /\ mode \in Topics({"listener"}, ModeMsgs)
  /\ transition \in Topics({"listener"}, Transitions)

LastTransition == Latest(transition["listener"])

\* The record of transitions is complete: the last record names the mode that
\* is active now, and each record continues from the one before it.
RecordIsCurrent ==
  IF transition["listener"] = << >> THEN activeMode = InitialMode
  ELSE LastTransition.active = activeMode

RecordIsAChain ==
  [][transition["listener"] # << >> /\ transition' # transition =>
       Latest(transition'["listener"]).previous = LastTransition.active]_vars

\* README: active modes require a known safety state.  A takeover is granted
\* without looking at the safety state, but only from an active mode.
ActiveNeedsSafety == activeMode \in ActiveModes => safetySeen

\* Autonomy and AI policy are entered only under a safety state that allows
\* them, never straight from maintenance, AI policy only from teleop or
\* autonomy, and shutdown is never left.
EntryGuarded ==
  [][activeMode' # activeMode =>
       /\ activeMode # "SHUTDOWN"
       /\ activeMode' \in AutonomyModes =>
            safetyState \in AllowedSafety /\ activeMode # "MAINTENANCE"
       /\ activeMode' = "AI_POLICY" => activeMode \in AiPolicyEntryModes]_vars

\* Whoever owns the mode has had a request granted, and a listener to the
\* record can tell: the owner changes only with a granted record of theirs.
OwnerIsOnRecord ==
  [][owner' # owner =>
       /\ transition' # transition
       /\ Latest(transition'["listener"]).accepted
       /\ Latest(transition'["listener"]).requester = owner']_vars
=============================================================================
