--------------------------- MODULE HumaWareMsgs ---------------------------
(***************************************************************************)
(* The vocabulary of the humaware_msgs interfaces: the enumerations that   *)
(* the runtime nodes exchange and the value sets the nodes test them       *)
(* against.  A numeric enumerator is written as the string of its name.    *)
(***************************************************************************)
EXTENDS Integers

\* The enumerators of ModeState.msg.
Modes == {"UNKNOWN", "MAINTENANCE", "INACTIVE", "TELEOP", "AUTONOMY",
          "AI_POLICY", "FAULT", "SHUTDOWN"}

\* The enumerators of SafetyState.msg.
SafetyStates == {"UNKNOWN", "OK", "WARN", "FAULT", "ESTOP", "MRM"}

\* The enumerators of MRMState.msg that a node of this repository publishes.
MrmStates == {"NONE", "STOP", "FAULT"}

\* The enumerators of LocomotionState.msg that the mock adapter publishes.
LocomotionStates == {"INACTIVE", "STANDING", "WALKING", "TURNING", "STOPPING"}

\* The three modes in which motion commands may be approved.
ActiveModes == {"TELEOP", "AUTONOMY", "AI_POLICY"}

\* The safety states in which every node blocks motion although it is known.
BlockingSafety == {"FAULT", "ESTOP", "MRM"}

\* The safety states in which motion is allowed.
AllowedSafety == {"OK", "WARN"}

(***************************************************************************)
(* Planar velocities: the x component of twist.linear and the z component  *)
(* of twist.angular, in integer units of the smallest velocity the model   *)
(* distinguishes.                                                          *)
(***************************************************************************)
Zero == [lin |-> 0, ang |-> 0]

Velocities == [lin : Int, ang : Int]

Abs(x) == IF x < 0 THEN -x ELSE x
=============================================================================
