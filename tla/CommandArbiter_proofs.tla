----------------------- MODULE CommandArbiter_proofs ----------------------
(***************************************************************************)
(* What the arbiter guarantees for every set of offered velocities, every  *)
(* timeout, every limit and every queue depth, in whatever order its       *)
(* callbacks run and however often it restarts.                            *)
(***************************************************************************)
EXTENDS MCReports, Foundations_proofs

(***************************************************************************)
(* The arbiter is an instance among the nodes that report: what it takes   *)
(* from the runtime bears the instance's name, and its ages have a cap of  *)
(* their own.                                                              *)
(***************************************************************************)

\* Queues are the runtime's queues, and time keeps ages within their cap.
LEMMA ArbiterRuntime ==
  /\ \A topic, msg : Arb!Publish(topic, msg) = Publish(topic, msg)
  /\ \A subs, Msgs : Arb!Topics(subs, Msgs) = Topics(subs, Msgs)
  /\ \A subs : Arb!Silent(subs) = Silent(subs)
  /\ \A queue : Arb!Latest(queue) = Latest(queue)
  /\ \A age \in Arb!Ages : Arb!Older(age) \in Arb!Ages
  /\ 0 \in Arb!Ages
<1>1. /\ \A age \in Arb!Ages : Arb!Older(age) \in Arb!Ages
      /\ 0 \in Arb!Ages
  BY ReportsAssumption DEF Arb!Ages, Arb!Older, Arb!Never
<1>2. QED
  BY <1>1
     DEF Arb!Publish, Publish, Arb!Enqueue, Enqueue, Arb!Topics, Topics, Arb!Silent,
              Silent, Arb!Latest, Latest

\* What the constants are.
LEMMA ArbiterParameters ==
  /\ ArbiterTimeout \in Nat /\ ArbiterTimeout < ShortCap
  /\ MaxLinear \in Nat /\ MaxAngular \in Nat
  /\ PublishStopOnBlock \in BOOLEAN
  /\ Candidates \subseteq Arb!Velocities
BY ReportsAssumption DEF Arb!ArbiterConstants

(***************************************************************************)
(* The decisions.                                                          *)
(***************************************************************************)

\* select_candidate approves only a source that is eligible: the loop over the
\* priorities finds the first one if there is any.
LEMMA SelectedIsEligible ==
  ASSUME \E s \in Arb!Sources : Arb!Eligible(s)
  PROVE  Arb!Selected \in Arb!Sources /\ Arb!Eligible(Arb!Selected)
<1> DEFINE First(i) == /\ Arb!Eligible(Arb!SourcePriority[i])
                       /\ \A j \in 1..(i - 1) : ~Arb!Eligible(Arb!SourcePriority[j])
<1>1. /\ Arb!SourcePriority[1] = "TELEOP" /\ Arb!SourcePriority[2] = "AUTONOMY"
      /\ Arb!SourcePriority[3] = "AI_POLICY"
  BY DEF Arb!SourcePriority
<1>2. \A i \in 1..3 : Arb!SourcePriority[i] \in Arb!Sources
  BY <1>1 DEF Arb!Sources
<1>3. Arb!Eligible("TELEOP") \/ Arb!Eligible("AUTONOMY") \/ Arb!Eligible("AI_POLICY")
  BY DEF Arb!Sources
<1>4. \E i \in 1..3 : First(i)
  <2>1. CASE Arb!Eligible("TELEOP")
    <3>1. First(1)
      BY <1>1, <2>1
    <3>2. QED
      BY <3>1
  <2>2. CASE ~Arb!Eligible("TELEOP") /\ Arb!Eligible("AUTONOMY")
    <3>1. First(2)
      BY <1>1, <2>2
    <3>2. QED
      BY <3>1
  <2>3. CASE /\ ~Arb!Eligible("TELEOP") /\ ~Arb!Eligible("AUTONOMY")
             /\ Arb!Eligible("AI_POLICY")
    <3>1. First(3)
      <4>1. \A j \in 1..2 : j = 1 \/ j = 2
        OBVIOUS
      <4>2. QED
        BY <1>1, <2>3, <4>1
    <3>2. QED
      BY <3>1
  <2>4. QED
    BY <1>3, <2>1, <2>2, <2>3
<1>5. PICK i \in 1..3 : i = (CHOOSE k \in 1..3 : First(k)) /\ First(i)
  BY <1>4
<1>6. Arb!Selected = Arb!SourcePriority[i]
  BY <1>5 DEF Arb!Selected
<1>7. QED
  BY <1>2, <1>5, <1>6

\* clamp_twist: whatever is asked for, the result is within the limit on either
\* side, and what is within the limit already is not changed.
LEMMA ClampLimits ==
  ASSUME NEW value \in Int, NEW limit \in Nat
  PROVE  /\ Arb!Clamp(value, limit) \in Int
         /\ Arb!Abs(Arb!Clamp(value, limit)) <= limit
         /\ Arb!Abs(value) <= limit => Arb!Clamp(value, limit) = value
BY DEF Arb!Clamp, Arb!Abs

\* The commands the arbiter may approve: within both limits, and of a candidate
\* no older than command_timeout_s.
Contract == {command \in Arb!Commands : /\ Arb!Abs(command.vel.lin) <= MaxLinear
                                    /\ Arb!Abs(command.vel.ang) <= MaxAngular
                                    /\ command.age \in 0..ArbiterTimeout}

\* A stop is within every contract.
LEMMA StopInContract == Arb!Stop \in Contract
BY ArbiterParameters, ArbiterRuntime
   DEF Arb!Stop, Contract, Arb!Commands, Arb!Velocities, Arb!Ages, Arb!Zero, Arb!Abs

\* An approved command is within the contract: the candidate was tested for its
\* age in the same step that clamps and sends it.
LEMMA ApprovedInContract ==
  ASSUME Arb!NodeTypeOk, Arb!Reason = "approved"
  PROVE  Arb!ApprovedCommand \in Contract
<1>1. \E s \in Arb!Sources : Arb!Eligible(s)
  BY DEF Arb!Reason
<1>2. Arb!Selected \in Arb!Sources /\ Arb!Eligible(Arb!Selected)
  BY <1>1, SelectedIsEligible
<1> DEFINE chosen == candidates[Arb!Selected]
<1>3. chosen \in [vel : Candidates \union {Arb!Zero}, age : Arb!Ages]
  BY <1>2 DEF Arb!NodeTypeOk
<1>4. chosen.age \in 0..ArbiterTimeout
  BY <1>2, <1>3, ArbiterParameters, ArbiterRuntime
     DEF Arb!Eligible, Arb!Within, Arb!Ages, Arb!Never
<1>5. chosen.vel.lin \in Int /\ chosen.vel.ang \in Int
  <2>1. chosen.vel \in Arb!Velocities
    BY <1>3, ArbiterParameters DEF Arb!Velocities, Arb!Zero
  <2>2. QED
    BY <2>1 DEF Arb!Velocities
<1> HIDE DEF chosen
<1>6. MaxLinear \in Nat /\ MaxAngular \in Nat
  BY ArbiterParameters
<1>7. /\ Arb!Clamp(chosen.vel.lin, MaxLinear) \in Int
      /\ Arb!Abs(Arb!Clamp(chosen.vel.lin, MaxLinear)) <= MaxLinear
      /\ Arb!Clamp(chosen.vel.ang, MaxAngular) \in Int
      /\ Arb!Abs(Arb!Clamp(chosen.vel.ang, MaxAngular)) <= MaxAngular
  BY <1>5, <1>6, ClampLimits
<1>8. Arb!ApprovedCommand =
        [vel |-> [lin |-> Arb!Clamp(chosen.vel.lin, MaxLinear),
                  ang |-> Arb!Clamp(chosen.vel.ang, MaxAngular)],
         age |-> chosen.age]
  BY DEF Arb!ApprovedCommand, Arb!ClampVelocity, chosen
<1>9. chosen.age \in Arb!Ages
  BY <1>3
<1>10. QED
  BY <1>4, <1>7, <1>8, <1>9 DEF Contract, Arb!Commands, Arb!Velocities

\* The report names a source that exists and a reason of the node's own.
LEMMA ReportTyped ==
  ASSUME Arb!NodeTypeOk
  PROVE  /\ Arb!Report \in Arb!Reports
         /\ Arb!Reason \in Arb!Reasons
         /\ Arb!Reason = "approved" => Arb!Selected \in Arb!Sources
<1>1. Arb!Reason \in Arb!Reasons
  BY DEF Arb!Reason, Arb!Reasons, Arb!StopReasons
<1>2. Arb!Reason = "approved" => Arb!Selected \in Arb!Sources
  BY SelectedIsEligible DEF Arb!Reason
<1>3. Arb!ShouldPublishStop(Arb!Reason) \in BOOLEAN
  BY ArbiterParameters DEF Arb!ShouldPublishStop
<1>4. QED
  BY <1>1, <1>2, <1>3 DEF Arb!Report, Arb!Reports

(***************************************************************************)
(* The invariant: the types, and a queue that holds only commands within   *)
(* the contract.                                                           *)
(***************************************************************************)
ArbiterInv == Arb!TypeOk /\ approved \in Topics({"listener"}, Contract)

LEMMA ArbiterInvariant == Arb!Spec => []ArbiterInv
<1> USE DEF ArbiterInv, Arb!TypeOk
<1>1. Arb!Init => ArbiterInv
  <2>1. Arb!NoCandidate \in [vel : Candidates \union {Arb!Zero}, age : Arb!Ages]
    BY DEF Arb!NoCandidate, Arb!Ages
  <2>2. Arb!NodeInit => Arb!NodeTypeOk
    BY <2>1 DEF Arb!NodeInit, Arb!NodeTypeOk, Arb!Modes, Arb!SafetyStates
  <2>3. QED
    BY <2>2, SilentType, ArbiterRuntime DEF Arb!Init
<1>2. ArbiterInv /\ [Arb!Next]_(Arb!vars) => ArbiterInv'
  <2> SUFFICES ASSUME ArbiterInv, [Arb!Next]_(Arb!vars) PROVE ArbiterInv'
    OBVIOUS
  <2>1. ASSUME Arb!NodeTypeOk', UNCHANGED Arb!topicVars PROVE ArbiterInv'
    BY <2>1 DEF Arb!topicVars
  <2>2. ASSUME NEW mode \in Arb!Modes, Arb!OnModeState(mode) PROVE ArbiterInv'
    BY <2>1, <2>2 DEF Arb!OnModeState, Arb!NodeTypeOk
  <2>3. ASSUME NEW reported \in Arb!SafetyStates, Arb!OnSafetyState(reported)
        PROVE  ArbiterInv'
    BY <2>1, <2>3 DEF Arb!OnSafetyState, Arb!NodeTypeOk
  <2>4. ASSUME NEW source \in Arb!Sources, NEW vel \in Candidates,
               Arb!OnCandidate(source, vel)
        PROVE  ArbiterInv'
    <3>1. 0 \in Arb!Ages
      BY ArbiterRuntime DEF Arb!Ages
    <3>2. QED
      BY <2>1, <2>4, <3>1 DEF Arb!OnCandidate, Arb!NodeTypeOk
  <2>5. CASE Arb!Tick
    <3>1. Arb!NodeTypeOk'
      BY <2>5 DEF Arb!Tick, Arb!nodeVars, Arb!NodeTypeOk
    <3>2. arbitration' \in Topics({"listener"}, Arb!Reports)
      BY <2>5, ReportTyped, PublishType, ArbiterRuntime DEF Arb!Tick
    <3>3. approved' \in Topics({"listener"}, Contract)
      BY <2>5, ApprovedInContract, StopInContract, PublishType, ArbiterRuntime
         DEF Arb!Tick
    <3>4. approved' \in Topics({"listener"}, Arb!Commands)
      <4>1. Contract \subseteq Arb!Commands
        BY DEF Contract
      <4>2. /\ Arb!Stop \in Arb!Commands
            /\ Arb!Reason = "approved" => Arb!ApprovedCommand \in Arb!Commands
        BY <4>1, ApprovedInContract, StopInContract
      <4>3. QED
        BY <2>5, <4>2, PublishType, ArbiterRuntime DEF Arb!Tick
    <3>5. QED
      BY <3>1, <3>2, <3>3, <3>4, ArbiterRuntime
  <2>6. CASE Arb!Restart /\ UNCHANGED Arb!topicVars
    <3>1. Arb!NodeTypeOk'
      BY <2>6
         DEF Arb!Restart, Arb!NodeTypeOk, Arb!Modes, Arb!SafetyStates, Arb!NoCandidate,
             Arb!Sources, Arb!Ages, Arb!Never
    <3>2. QED
      BY <2>1, <2>6, <3>1
  <2>7. CASE Arb!Age /\ UNCHANGED Arb!topicVars
    <3>1. candidates' \in [Arb!Sources -> [vel : Candidates \union {Arb!Zero}, age : Arb!Ages]]
      BY <2>7, ArbiterRuntime DEF Arb!Age, Arb!NodeTypeOk
    <3>2. QED
      BY <2>1, <2>7, <3>1 DEF Arb!Age, Arb!NodeTypeOk
  <2>8. CASE UNCHANGED Arb!vars
    BY <2>1, <2>8 DEF Arb!vars, Arb!nodeVars, Arb!NodeTypeOk
  <2>9. QED
    BY <2>2, <2>3, <2>4, <2>5, <2>6, <2>7, <2>8 DEF Arb!Next
<1>3. QED
  BY <1>1, <1>2, PTL DEF Arb!Spec

\* Every variable of the node and its two topics keep their types.
THEOREM ArbiterTyped == Arb!Spec => []ArbiterTypeOk
BY ArbiterInvariant, PTL DEF ArbiterInv, ArbiterTypeOk

\* Whatever the sources ask for, every command that leaves the arbiter is
\* within both velocity limits and approves a candidate no older than
\* command_timeout_s.
THEOREM ApprovedCommandsInContract == Arb!Spec => []ApprovedWithinContract
<1>1. ArbiterInv => Arb!ApprovedWithinContract
  <2> SUFFICES ASSUME ArbiterInv, NEW i \in 1..Len(approved["listener"])
               PROVE  approved["listener"][i] \in Contract
    BY DEF Arb!ApprovedWithinContract, Contract
  <2>1. approved["listener"] \in Seq(Contract)
    BY DEF ArbiterInv, Topics
  <2>2. QED
    BY <2>1
<1>2. QED
  BY <1>1, ArbiterInvariant, PTL DEF ApprovedWithinContract

(***************************************************************************)
(* What a listener may conclude from the two topics.                       *)
(***************************************************************************)
Explained == Arb!ReportExplainsOutput /\ Arb!LastWordIsStop

\* One run of the timer leaves a report that explains the last command,
\* whatever the two topics held before.
LEMMA TickExplains ==
  ASSUME ArbiterInv, Arb!Tick
  PROVE  Explained'
<1>1. /\ arbitration'["listener"] # << >>
      /\ Arb!Latest(arbitration'["listener"]) = Arb!Report
  BY ReportTyped, PublishType, ArbiterRuntime DEF Arb!Tick, ArbiterInv, Arb!TypeOk
<1>2. CASE Arb!Reason = "approved"
  <2>1. approved'["listener"] # << >>
    BY <1>2, ApprovedInContract, PublishType, ArbiterRuntime
       DEF Arb!Tick, ArbiterInv, Arb!TypeOk
  <2>2. Arb!Report.enabled /\ ~Arb!Report.stop /\ Arb!Report.source \in Arb!Sources
    BY <1>2, ReportTyped
       DEF Arb!Report, Arb!ShouldPublishStop, Arb!StopReasons, ArbiterInv, Arb!TypeOk
  <2>3. QED
    BY <1>1, <2>1, <2>2
       DEF Explained, Arb!ReportExplainsOutput, Arb!LastWordIsStop, Arb!LastReport,
           Arb!LastCommand
<1>3. CASE Arb!Reason # "approved" /\ Arb!ShouldPublishStop(Arb!Reason)
  <2>1. approved'["listener"] # << >> /\ Arb!Latest(approved'["listener"]) = Arb!Stop
    BY <1>3, StopInContract, PublishType, ArbiterRuntime
       DEF Arb!Tick, ArbiterInv, Arb!TypeOk
  <2>2. ~Arb!Report.enabled
    BY <1>3 DEF Arb!Report
  <2>3. Arb!Stop.vel = Arb!Zero
    BY DEF Arb!Stop
  <2>4. QED
    BY <1>1, <2>1, <2>2, <2>3
       DEF Explained, Arb!ReportExplainsOutput, Arb!LastWordIsStop, Arb!LastReport,
           Arb!LastCommand
<1>4. CASE Arb!Reason # "approved" /\ ~Arb!ShouldPublishStop(Arb!Reason)
  <2>1. ~Arb!Report.enabled /\ ~Arb!Report.stop
    BY <1>4 DEF Arb!Report
  <2>2. PublishStopOnBlock => Arb!Report.reason = "waiting_for_safety_state"
    BY <1>4, ReportTyped
       DEF Arb!Report, Arb!Reasons, Arb!ShouldPublishStop, ArbiterInv, Arb!TypeOk
  <2>3. QED
    BY <1>1, <2>1, <2>2
       DEF Explained, Arb!ReportExplainsOutput, Arb!LastWordIsStop, Arb!LastReport,
           Arb!LastCommand
<1>5. QED
  BY <1>2, <1>3, <1>4

\* The report and the command agree, and with publish_stop_on_block the arbiter
\* never falls silent on a moving command once it has seen a safety state: an
\* adapter that obeys the last command it got is not left moving by an arbiter
\* that stopped approving.
THEOREM OutputExplained == Arb!Spec => [](ReportExplainsOutput /\ LastWordIsStop)
<1>1. Arb!Init => Explained
  BY
     DEF Arb!Init, Arb!Silent, Explained, Arb!ReportExplainsOutput, Arb!LastWordIsStop,
         Arb!Listening
<1>2. ArbiterInv /\ Explained /\ [Arb!Next]_(Arb!vars) => Explained'
  <2> SUFFICES ASSUME ArbiterInv, Explained, [Arb!Next]_(Arb!vars) PROVE Explained'
    OBVIOUS
  <2>1. Arb!Tick \/ UNCHANGED Arb!topicVars
    BY DEF Arb!Next, Arb!OnModeState, Arb!OnSafetyState, Arb!OnCandidate, Arb!vars
  <2>2. CASE UNCHANGED Arb!topicVars
    BY <2>2
       DEF Arb!topicVars, Explained, Arb!ReportExplainsOutput, Arb!LastWordIsStop,
           Arb!LastReport, Arb!LastCommand, Arb!Listening
  <2>3. QED
    BY <2>1, <2>2, TickExplains
<1>3. QED
  BY <1>1, <1>2, ArbiterInvariant, PTL
     DEF Arb!Spec, Explained, ReportExplainsOutput, LastWordIsStop

\* The report alone: an enabled report comes with the very command that was
\* approved, a report of a stop with a stop, and no report claims both.
THEOREM ReportExplained == Arb!Spec => []ReportExplainsOutput
<1>1. ReportExplainsOutput /\ LastWordIsStop => ReportExplainsOutput
  OBVIOUS
<1>2. QED
  BY <1>1, OutputExplained, PTL
=============================================================================
