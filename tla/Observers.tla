----------------------------- MODULE Observers ----------------------------
(***************************************************************************)
(* The two observers of the runtime and what they should agree on: the     *)
(* diagnostics aggregator, which reports health while the robot runs, and  *)
(* a recorded bag, which the bag evaluator judges.                         *)
(*                                                                         *)
(*   publishers --safety/state, locomotion/state, ...--> aggregator        *)
(*        |                                                  |             *)
(*        +-----------> recorder --> bag evaluator <--health-+             *)
(*                                                                         *)
(* A unit is the aggregator's period.  In each unit a publisher publishes  *)
(* its present state once or is silent, and the aggregator's timer fires   *)
(* once; the aggregator may die and return.  The recorder runs throughout, *)
(* for Horizon units, and both observers get a message in the unit in      *)
(* which it was published.                                                 *)
(***************************************************************************)
EXTENDS HumaWareMsgs, RosRuntime

CONSTANTS Listened, MonitorNav2, MonitorTeleop, StaleTimeout,
          MaxGap, Horizon,
          StatesOf(_)    \* what the publisher of a topic may publish

VARIABLES message, receivedAge, health, statuses,    \* diagnostics aggregator
          summaries,                                 \* bag evaluator
          actual,        \* the state that the publisher of each topic is in
          up,            \* whether the aggregator runs
          now,           \* time since the recording began
          \* observers
          recorded,      \* the stamps at which each topic was recorded
          alarms,        \* the topics that health named stale, start-up apart
          upAge,         \* how long the aggregator has been running
          troubleAge     \* how long each publisher has been in trouble

InBag == Listened \union {"runtime/health"}

Agg == INSTANCE Diagnostics
Bag == INSTANCE BagEvaluator WITH Recordable <- InBag

aggregator == <<message, receivedAge, health, statuses>>
vars == <<aggregator, summaries, actual, up, now, recorded, alarms, upAge,
          troubleAge>>

ObserversConstants ==
  /\ Agg!DiagnosticsConstants /\ Bag!EvaluatorConstants
  /\ MaxGap = StaleTimeout
  /\ Horizon \in Nat
  /\ \A topic \in Listened : "none" \notin StatesOf(topic)

\* The state of a publisher that health must not pass over.
Trouble(topic, state) ==
  \/ topic = "safety/state" /\ state \in BlockingSafety
  \/ topic = "locomotion/state" /\ state = "FAULT"

\* What the observers count stops here.
Bound == StaleTimeout + 1

Longer(age) == IF age = Never \/ age = Bound THEN age ELSE age + 1

Init ==
  /\ Agg!NodeInit
  /\ health = [state |-> "UNKNOWN", stale |-> {}] /\ statuses = << >>
  /\ summaries = Bag!NoSummaries
  /\ actual \in [Listened -> UNION {StatesOf(topic) : topic \in Listened}]
  /\ \A topic \in Listened : actual[topic] \in StatesOf(topic) /\ ~Trouble(topic, actual[topic])
  /\ up \in BOOLEAN /\ now = 0
  /\ recorded = [topic \in InBag |-> {}]
  /\ alarms = {}
  /\ upAge = 0
  /\ troubleAge = [topic \in Listened |-> Never]

\* The recorder stores a message, and the evaluator will read it.
Record(topic) ==
  /\ recorded' = [recorded EXCEPT ![topic] = @ \union {now}]
  /\ Bag!Read(topic, now)

Publication(topic) ==
  /\ now \notin recorded[topic]
  /\ IF up THEN Agg!OnTopic(topic, actual[topic]) ELSE UNCHANGED aggregator
  /\ Record(topic)
  /\ UNCHANGED <<actual, up, now, alarms, upAge, troubleAge>>

\* A topic that a young aggregator has not heard yet is stale, but no alarm.
AggregatorTick ==
  /\ up
  /\ now \notin recorded["runtime/health"]
  /\ Agg!Tick
  /\ Record("runtime/health")
  /\ alarms' = alarms \union
                 {topic \in health'.stale : topic \in Agg!Seen \/ upAge > StaleTimeout}
  /\ UNCHANGED <<actual, up, now, upAge, troubleAge>>

\* One publisher at a time gets into trouble; the others may still be telling of
\* an earlier one.
Change(topic, state) ==
  /\ state # actual[topic]
  /\ Trouble(topic, state) => \A other \in Listened : troubleAge[other] = Never
  /\ actual' = [actual EXCEPT ![topic] = state]
  /\ troubleAge' = [troubleAge EXCEPT ![topic] =
                      IF ~Trouble(topic, state) THEN Never ELSE IF @ = Never THEN 0 ELSE @]
  /\ UNCHANGED <<aggregator, summaries, up, now, recorded, alarms, upAge>>

Crash ==
  /\ up /\ up' = FALSE
  /\ Agg!Restart
  /\ UNCHANGED <<health, statuses, summaries, actual, now, recorded, alarms,
                 upAge, troubleAge>>

Recover ==
  /\ ~up /\ up' = TRUE
  /\ upAge' = 0
  /\ UNCHANGED <<aggregator, summaries, actual, now, recorded, alarms, troubleAge>>

Advance ==
  /\ now < Horizon
  /\ up => now \in recorded["runtime/health"]
  /\ Agg!Age
  /\ now' = now + 1
  /\ upAge' = Longer(upAge)
  /\ troubleAge' = [topic \in Listened |-> Longer(troubleAge[topic])]
  /\ UNCHANGED <<health, statuses, summaries, actual, up, recorded, alarms>>

Next ==
  \/ \E topic \in Listened : Publication(topic)
  \/ AggregatorTick
  \/ \E topic \in Listened : \E state \in StatesOf(topic) : Change(topic, state)
  \/ Crash \/ Recover
  \/ Advance

Spec == Init /\ [][Next]_vars

-----------------------------------------------------------------------------
TypeOk ==
  /\ Agg!NodeTypeOk
  /\ DOMAIN summaries \subseteq InBag
  /\ up \in BOOLEAN /\ now \in 0..Horizon /\ upAge \in 0..Bound
  /\ recorded \in [InBag -> SUBSET (0..now)]
  /\ alarms \subseteq Listened

\* The time that the recording covers.
Window ==
  LET stamps == UNION {recorded[topic] : topic \in InBag}
  IN  {time \in 0..now : \E from, to \in stamps : from <= time /\ time <= to}

\* Between two moments of the recording more than MaxGap apart, there was no
\* message of the topic.
FellSilent(topic) ==
  \E from, to \in Window :
    to - from > MaxGap /\ recorded[topic] \intersect (from + 1)..(to - 1) = {}

\* The evaluator, which keeps four numbers per topic, reports exactly the topics
\* that have a silence longer than the limit somewhere in the recording, at its
\* edges as well as inside, and those that are not in the bag at all.
EvaluationIsExact ==
  /\ Bag!StaleInBag = {topic \in InBag : recorded[topic] # {} /\ FellSilent(topic)}
  /\ Bag!MissingInBag =
       {topic \in InBag \intersect Bag!DefaultRequiredTopics : recorded[topic] = {}}

\* What the aggregator reported as stale while the robot ran, the evaluator
\* reports of the bag, whatever was recorded afterwards: no dropout that was seen
\* online is missed offline.  (A topic that a young aggregator has not heard yet
\* is stale online only.)
StaleOnRecord ==
  alarms \intersect Bag!DefaultRequiredTopics
    \subseteq Bag!StaleInBag \union Bag!MissingInBag

\* As long as a required topic has been missing from the recording for more than
\* the timeout, every health report names it, although the aggregator may have
\* crashed since and forgotten when it last heard the topic.
DropoutNoticed ==
  [][AggregatorTick =>
       {topic \in Agg!RequiredTopics :
          \A stamp \in recorded[topic] : now - stamp > StaleTimeout}
         \subseteq health'.stale]_vars

\* When safety blocks or locomotion is in fault for longer than the stale timeout,
\* health is reported as an error or as stale, never as good, even if the publisher
\* never got to say so.
TroubleIsReported ==
  [][AggregatorTick /\ (\E topic \in Listened : troubleAge[topic] = Bound)
       => health'.state \in {"ERROR", "STALE"}]_vars
=============================================================================
