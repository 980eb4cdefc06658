------------------------- MODULE MCCandidateSources -----------------------
(***************************************************************************)
(* Small instances of the candidate sources.  Each plan file stands for a  *)
(* way a tick can meet a plan: a waypoint shorter than a tick, a remainder *)
(* at the end of a loop, a loop shorter than a tick, a malformed file.     *)
(***************************************************************************)
EXTENDS CandidateSources

\* Only the bridge tells locomotion states apart other than by their being motion.
MCLocomotion(profile) ==
  IF "nav2_bridge" \in profile THEN {"WALKING", "FAULT"} ELSE {"WALKING"}

MCVelocity == [lin |-> 1, ang |-> 1]

Segment(lin, duration) == [vel |-> [lin |-> lin, ang |-> 0], duration |-> duration]

MCFiles ==
  {[waypoints |-> <<Segment(1, 3), Segment(2, 1), Segment(3, 2)>>, loop |-> FALSE],
   [waypoints |-> <<Segment(1, 3), Segment(2, 1), Segment(3, 3)>>, loop |-> TRUE],
   [waypoints |-> <<Segment(1, 1)>>, loop |-> TRUE],
   [waypoints |-> <<Segment(1, 2), Segment(2, 0)>>, loop |-> FALSE]}
=============================================================================
