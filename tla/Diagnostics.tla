---------------------------- MODULE Diagnostics ---------------------------
(***************************************************************************)
(* The diagnostics aggregator node.  It keeps the last sample of every     *)
(* monitored topic with the time it arrived and publishes, on a timer, the *)
(* health of the runtime and a status per topic.                           *)
(*                                                                         *)
(* Topics are those that an instance tells apart; the others always arrive *)
(* in time.  What the health message merely echoes is left out.            *)
(***************************************************************************)
EXTENDS HumaWareMsgs, RosRuntime

CONSTANTS Listened,          \* the topics told apart
          MonitorNav2,      \* monitor_nav2_bridge
          MonitorTeleop,    \* monitor_teleop_heartbeat
          StaleTimeout      \* stale_timeout_s

BaseRequiredTopics == {"mode/state", "safety/state", "safety/mrm_state",
                       "locomotion/state", "runtime/command_arbitration_state"}

OptionalTopics == {"navigation/nav2_bridge_state", "teleop/heartbeat"}

DiagnosticsConstants ==
  /\ Listened \subseteq BaseRequiredTopics \union OptionalTopics
  /\ {MonitorNav2, MonitorTeleop} \subseteq BOOLEAN
  /\ StaleTimeout \in Nat /\ StaleTimeout < AgeCap

VARIABLES message,      \* _samples[topic].message, "none" before the first
          receivedAge,  \* _samples[topic].received_at
          health,       \* the last message of topic runtime/health
          statuses      \* the last per-topic statuses of topic /diagnostics

nodeVars == <<message, receivedAge>>
topicVars == <<health, statuses>>

Monitored ==
  (IF MonitorNav2 THEN {"navigation/nav2_bridge_state"} ELSE {})
  \union (IF MonitorTeleop THEN {"teleop/heartbeat"} ELSE {})

RequiredTopics == Listened \intersect (BaseRequiredTopics \union Monitored)

Seen == {topic \in Listened : receivedAge[topic] # Never}

\* diagnostic_topic_list: an optional topic is listed once it has been seen.
DiagnosticTopics == RequiredTopics \union (Seen \intersect OptionalTopics)

\* Variant for mutation: a topic that never arrived is not stale.
SeenAndStale ==
  {topic \in RequiredTopics : Expired(receivedAge[topic], StaleTimeout)}

\* compute_stale_topics
StaleTopics ==
  {topic \in RequiredTopics : ~Within(receivedAge[topic], StaleTimeout)}

State(topic) == IF topic \in Listened THEN message[topic] ELSE "none"

\* Variant for mutation: the last safety state is believed however old it is.
HealthWithoutAge ==
  IF State("safety/state") \in BlockingSafety THEN "ERROR"
  ELSE IF State("locomotion/state") = "FAULT" THEN "ERROR"
  ELSE IF State("safety/state") = "WARN" THEN "WARN"
  ELSE "OK"

\* evaluate_health.  The safety manager lists faults only in a blocking state and
\* warnings only there or in WARN, so the two lists add nothing to the state.
Health ==
  IF StaleTopics # {} THEN "STALE"
  ELSE IF State("safety/state") \in BlockingSafety THEN "ERROR"
  ELSE IF State("locomotion/state") = "FAULT" THEN "ERROR"
  ELSE IF State("safety/state") = "WARN" THEN "WARN"
  ELSE "OK"

\* _topic_status
Status(topic) ==
  IF topic \notin StaleTopics THEN "ok"
  ELSE IF topic \in Seen THEN "stale" ELSE "missing"

NodeInit ==
  /\ message = [topic \in Listened |-> "none"]
  /\ receivedAge = [topic \in Listened |-> Never]

Restart ==
  /\ message' = [topic \in Listened |-> "none"]
  /\ receivedAge' = [topic \in Listened |-> Never]

\* Variant for mutation: the sample is stamped but not stored.
OnTopicStampOnly(topic, msg) ==
  /\ receivedAge' = [receivedAge EXCEPT ![topic] = 0]
  /\ UNCHANGED <<message, topicVars>>

OnTopic(topic, msg) ==
  /\ message' = [message EXCEPT ![topic] = msg]
  /\ receivedAge' = [receivedAge EXCEPT ![topic] = 0]
  /\ UNCHANGED topicVars

\* The timer, _publish.
Tick ==
  /\ health' = [state |-> Health, stale |-> StaleTopics]
  /\ statuses' = [topic \in DiagnosticTopics |-> Status(topic)]
  /\ UNCHANGED nodeVars

Age ==
  /\ receivedAge' = [topic \in Listened |-> Older(receivedAge[topic])]
  /\ UNCHANGED message

NodeTypeOk ==
  /\ receivedAge \in [Listened -> Ages]
  /\ DOMAIN message = Listened
  /\ \A topic \in Listened : message[topic] = "none" <=> receivedAge[topic] = Never
  /\ health.state \in {"UNKNOWN", "OK", "WARN", "ERROR", "STALE"}
  /\ health.stale \subseteq RequiredTopics
  /\ DOMAIN statuses \subseteq Listened
=============================================================================
