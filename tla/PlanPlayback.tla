---------------------------- MODULE PlanPlayback --------------------------
(***************************************************************************)
(* What the scripted policy provider promises, without waypoint indices:   *)
(* a plan is a track of known length, every played tick moves the position *)
(* on by the same time, a looping track starts over without losing a       *)
(* moment, and what is played is the segment under the new position.  A    *)
(* segment that no position falls into is not played.                      *)
(***************************************************************************)
EXTENDS Integers, Sequences

CONSTANTS TickTime    \* the time played per tick

VARIABLES plan,       \* the track: waypoints and the loop flag
          position,   \* the time played, within one pass of a looping track
          playing     \* the segment being played: its velocity, or none

\* When segment i begins; the segment after the last begins at the end.
Begins[i \in Nat \ {0}] ==
  IF i = 1 THEN 0 ELSE Begins[i - 1] + plan.waypoints[i - 1].duration

Length == Begins[Len(plan.waypoints) + 1]

SegmentAt(time) ==
  CHOOSE i \in DOMAIN plan.waypoints : Begins[i] <= time /\ time < Begins[i + 1]

Init == position = 0 /\ playing = {}

Play ==
  /\ Length > 0
  /\ position' = LET reached == position + TickTime
                 IN  IF plan.loop THEN reached % Length
                     ELSE IF reached < Length THEN reached ELSE Length
  /\ playing' = IF position' = Length THEN {}
                ELSE {plan.waypoints[SegmentAt(position')].vel}
  /\ UNCHANGED plan

Over ==
  /\ Length = 0
  /\ playing' = {}
  /\ UNCHANGED <<plan, position>>

\* The process dies: the next one plays from the beginning.
Rewind ==
  /\ position' = 0
  /\ playing' = {}
  /\ UNCHANGED plan

Next == Play \/ Over \/ Rewind

Spec == Init /\ [][Next]_<<plan, position, playing>>
=============================================================================
