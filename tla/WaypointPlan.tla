---------------------------- MODULE WaypointPlan --------------------------
(***************************************************************************)
(* The waypoint plans of the scripted policy provider: parsing a plan and  *)
(* moving through it.  A plan is a sequence of waypoints, each with a      *)
(* velocity and a duration in ticks of the model, and a flag that says     *)
(* whether it starts over.  Waypoints are counted from 1 (0 in the code).  *)
(***************************************************************************)
EXTENDS Integers, Sequences

EmptyPlan == [waypoints |-> << >>, loop |-> FALSE]

InitialProgress == [index |-> 1, elapsed |-> 0, completed |-> FALSE]

\* parse_plan: one waypoint without a positive duration spoils the file, and a
\* file that cannot be used leaves the provider with the empty plan.
LoadPlan(file) ==
  IF \E i \in DOMAIN file.waypoints : file.waypoints[i].duration <= 0
  THEN EmptyPlan ELSE file

\* Where the loop below may be: a waypoint and the time into it.
Place(index, elapsed) == [index |-> index, elapsed |-> elapsed]

Places(plan) == [index : DOMAIN plan.waypoints, elapsed : Nat]

(***************************************************************************)
(* The while loop of advance_progress: from waypoint index, consume every  *)
(* waypoint whose duration is covered by the elapsed time.                 *)
(***************************************************************************)
\* Variant for mutation: the plan starts over without the remainder.
ConsumedFromZero(plan) ==
  LET consume[at \in Places(plan)] ==
        LET rest == at.elapsed - plan.waypoints[at.index].duration
        IN  IF rest < 0 THEN [index |-> at.index, elapsed |-> at.elapsed, completed |-> FALSE]
            ELSE IF at.index < Len(plan.waypoints) THEN consume[Place(at.index + 1, rest)]
            ELSE IF plan.loop THEN consume[Place(1, 0)]
            ELSE [index |-> at.index + 1, elapsed |-> 0, completed |-> TRUE]
  IN  consume

\* Variant for mutation: a waypoint is left when its duration is exceeded.
ConsumedLate(plan) ==
  LET consume[at \in Places(plan)] ==
        LET rest == at.elapsed - plan.waypoints[at.index].duration
        IN  IF rest <= 0 THEN [index |-> at.index, elapsed |-> at.elapsed, completed |-> FALSE]
            ELSE IF at.index < Len(plan.waypoints) THEN consume[Place(at.index + 1, rest)]
            ELSE IF plan.loop THEN consume[Place(1, rest)]
            ELSE [index |-> at.index + 1, elapsed |-> 0, completed |-> TRUE]
  IN  consume

Consumed(plan) ==
  LET consume[at \in Places(plan)] ==
        LET rest == at.elapsed - plan.waypoints[at.index].duration
        IN  IF rest < 0 THEN [index |-> at.index, elapsed |-> at.elapsed, completed |-> FALSE]
            ELSE IF at.index < Len(plan.waypoints) THEN consume[Place(at.index + 1, rest)]
            ELSE IF plan.loop THEN consume[Place(1, rest)]
            ELSE [index |-> at.index + 1, elapsed |-> 0, completed |-> TRUE]
  IN  consume

AdvanceProgress(progress, plan, time) ==
  IF plan.waypoints = << >> THEN [index |-> 1, elapsed |-> 0, completed |-> TRUE]
  ELSE IF progress.completed THEN progress
  ELSE Consumed(plan)[Place(progress.index, progress.elapsed + time)]

\* current_command: the velocities to emit, none when the plan is over.
CurrentCommand(progress, plan) ==
  IF progress.completed \/ plan.waypoints = << >> THEN {} ELSE {plan.waypoints[progress.index].vel}
=============================================================================
