------------------------------ MODULE Interlock ----------------------------
(***************************************************************************)
(* What a halt path promises, whatever nodes and topics it is made of: an  *)
(* order to halt gets through in a bounded time, until it is withdrawn no  *)
(* command moves the robot after that, and time does not pass the bound    *)
(* while the robot moves.  Between orders the robot may do anything.       *)
(***************************************************************************)
EXTENDS Integers

CONSTANTS Still,    \* the output of a robot at rest
          Grace     \* the units after which an order has brought it to rest

VARIABLES asked,    \* how long a halt has been asked for, up to Grace, or Never
          motion    \* the output that is executed

Never == -1

Init == asked = Never /\ motion = Still

\* A command starts or changes the motion: not in the last unit of Grace, when
\* whatever lets commands through has heard of the order.
Move ==
  /\ asked < Grace - 1
  /\ motion' # Still
  /\ UNCHANGED asked

Rest == motion' = Still /\ UNCHANGED asked

Order == asked = Never /\ asked' = 0 /\ UNCHANGED motion

Withdraw == asked' = Never /\ UNCHANGED motion

\* A unit passes.  Silence may be what makes the runtime ask for a halt, and is
\* never a reason to withdraw it.
Wait ==
  /\ asked' \in IF asked = Never THEN {Never, 0}
                ELSE IF asked < Grace THEN {asked + 1} ELSE {Grace}
  /\ motion # Still => asked' < Grace
  /\ UNCHANGED motion

Next == Move \/ Rest \/ Order \/ Withdraw \/ Wait

Spec == Init /\ [][Next]_<<asked, motion>>
=============================================================================
