------------------------------ MODULE MCReports ----------------------------
(***************************************************************************)
(* Small instances of what the runtime says about itself: the locomotion   *)
(* adapter, the arbiter and the safety manager with the topics on which    *)
(* each reports, and the observers of such topics.  The four share no      *)
(* state; subject says which of them a behaviour is about, the others      *)
(* stand still.                                                            *)
(***************************************************************************)
EXTENDS LocomotionAdapter

CONSTANTS MaxLinear, MaxAngular, PublishStopOnBlock, ArbiterTimeout,
          Candidates,     \* the velocities that the arbiter's sources ask for
          RequireTeleop, RequireHardware, MonitorApproved, TeleopTimeout,
          HardwareTimeout, ApprovedTimeout, MrmTriggers, ParameterReason,
          Listened, MonitorNav2, MonitorTeleop, StaleTimeout, MaxGap, Horizon,
          StatesOf(_),    \* what the publisher of a topic may publish
          ShortCap        \* AgeCap of all but the locomotion adapter

VARIABLES arbMode, arbSafety, safetySeen, candidates, approved, arbitration,
          smMode, teleopAge, hardwareAge, approvedAge, serviceMrm, estop, parameterMrm,
          safety, mrm,
          message, receivedAge, health, statuses, summaries, actual, up, now,
          recorded, alarms, upAge, troubleAge,
          subject

\* A stop, a command below walk_epsilon, a walk and a turn.
MCOffered == {[lin |-> 0, ang |-> 0], [lin |-> 1, ang |-> -1],
              [lin |-> 2, ang |-> 0], [lin |-> 0, ang |-> -2]}

\* Beyond the arbiter's limit on both axes, forward and to the right.
MCCandidates == {[lin |-> 2, ang |-> -2]}

\* A good and a bad state of each of the two topics whose content matters.
MCStatesOf(topic) ==
  CASE topic = "safety/state" -> {"OK", "MRM"}
    [] topic = "locomotion/state" -> {"STANDING", "FAULT"}
    [] OTHER -> {"seen"}

Arb == INSTANCE CommandArbiter WITH
  AgeCap <- ShortCap, CommandTimeout <- ArbiterTimeout, Offered <- Candidates,
  activeMode <- arbMode, safetyState <- arbSafety
SM == INSTANCE SafetyManager WITH AgeCap <- ShortCap, activeMode <- smMode
Obs == INSTANCE Observers WITH AgeCap <- ShortCap

ASSUME ReportsAssumption ==
  /\ ShortCap \in Nat
  /\ Arb!ArbiterConstants /\ SM!SafetyConstants /\ Obs!ObserversConstants

arbiterVars == <<arbMode, arbSafety, safetySeen, candidates, approved, arbitration>>
safetyVars == <<smMode, teleopAge, hardwareAge, approvedAge, serviceMrm, estop,
                parameterMrm, safety, mrm>>
observerVars == <<message, receivedAge, health, statuses, summaries, actual, up, now,
                  recorded, alarms, upAge, troubleAge>>

MCInit ==
  /\ Init /\ Arb!Init /\ SM!Init /\ Obs!Init
  /\ \/ subject = "observers"
     \/ /\ subject \in {"locomotion", "arbiter", "safety_manager"}
        /\ up

MCNext ==
  /\ \/ subject = "locomotion" /\ Next
        /\ UNCHANGED <<arbiterVars, safetyVars, observerVars>>
     \/ subject = "arbiter" /\ Arb!Next
        /\ UNCHANGED <<vars, safetyVars, observerVars>>
     \/ subject = "safety_manager" /\ SM!Next
        /\ UNCHANGED <<vars, arbiterVars, observerVars>>
     \/ subject = "observers" /\ Obs!Next
        /\ UNCHANGED <<vars, arbiterVars, safetyVars>>
  /\ UNCHANGED subject

MCSpec == MCInit /\ [][MCNext]_<<vars, arbiterVars, safetyVars, observerVars, subject>>

\* The values of the arbiter's state and messages.
ArbiterTypeOk == Arb!TypeOk

\* See CommandArbiter: an approved command is limited and of a fresh candidate.
ApprovedWithinContract == Arb!ApprovedWithinContract

\* See CommandArbiter: the report and the last command agree.
ReportExplainsOutput == Arb!ReportExplainsOutput

\* See CommandArbiter: it never falls silent on a command that moves the robot.
LastWordIsStop == Arb!LastWordIsStop

\* The values of the safety manager's state and messages.
SafetyTypeOk == SM!TypeOk

\* See SafetyManager: its two topics never contradict each other.
SafetyAndMrmAgree == SM!SafetyAndMrmAgree

\* See SafetyManager: a triggered MRM stays announced until it is cleared.
TriggerHolds == SM!TriggerHolds

\* The values and relations of the observers' state.
ObserversTypeOk == Obs!TypeOk

\* See Observers: the evaluator's judgment of every prefix of a recording is right.
EvaluationIsExact == Obs!EvaluationIsExact

\* See Observers: a dropout reported online is reported offline.
StaleOnRecord == Obs!StaleOnRecord

\* See Observers: a dropout on record was reported online at every period.
DropoutNoticed == Obs!DropoutNoticed

\* See Observers: health passes over no lasting trouble.
TroubleIsReported == Obs!TroubleIsReported
=============================================================================
