---------------------------- MODULE BagEvaluator --------------------------
(***************************************************************************)
(* The bag evaluator: one pass over the messages of a recording in the     *)
(* order of their time stamps, a summary per topic, and the judgment which *)
(* topics are missing and which were silent for too long.  It runs after   *)
(* the recording; here it reads along, so that what it says of every       *)
(* prefix is seen.  The state transitions it lists are left out.           *)
(***************************************************************************)
EXTENDS Integers, FiniteSets, FiniteSetsExt

CONSTANTS Recordable,    \* the topics told apart; all others are recorded in time
          MaxGap         \* max_gap_ns

EvaluatorConstants == MaxGap \in Nat

\* DEFAULT_REQUIRED_TOPICS
DefaultRequiredTopics ==
  {"mode/state", "mode/transition_state", "safety/state", "safety/mrm_state",
   "locomotion/state", "runtime/command_arbitration_state", "runtime/health",
   "cmd_vel/approved"}

VARIABLES summaries    \* from the topics that were read to their TopicSummary

NoSummaries == [topic \in {} |-> {}]

First(stamp) == [count |-> 1, first |-> stamp, last |-> stamp, maxGap |-> 0]

Larger(a, b) == IF a < b THEN b ELSE a

\* Variant for mutation: the last gap replaces the largest.
ContinuedLastGap(summary, stamp) ==
  [summary EXCEPT !.count = @ + 1, !.last = stamp, !.maxGap = stamp - summary.last]

Continued(summary, stamp) ==
  [summary EXCEPT !.count = @ + 1, !.last = stamp,
                  !.maxGap = Larger(@, stamp - summary.last)]

\* One turn of the loop of summarize_topic_freshness.
Read(topic, stamp) ==
  summaries' = [t \in DOMAIN summaries \union {topic} |->
                  IF t # topic THEN summaries[t]
                  ELSE IF t \in DOMAIN summaries THEN Continued(summaries[t], stamp)
                  ELSE First(stamp)]

RecordingStart == Min({summaries[t].first : t \in DOMAIN summaries})
RecordingEnd == Max({summaries[t].last : t \in DOMAIN summaries})

\* Variant for mutation: silence at the edges of the recording does not count.
InnerGap(topic) == summaries[topic].maxGap

\* _coverage_gap
CoverageGap(topic) ==
  Max({summaries[topic].maxGap,
       summaries[topic].first - RecordingStart,
       RecordingEnd - summaries[topic].last})

StaleInBag == {topic \in DOMAIN summaries : CoverageGap(topic) > MaxGap}

MissingInBag == (Recordable \intersect DefaultRequiredTopics) \ DOMAIN summaries
=============================================================================
