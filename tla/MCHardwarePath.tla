--------------------------- MODULE MCHardwarePath -------------------------
\* A small instance of the hardware path: one velocity that moves the robot.
EXTENDS HardwarePath

MCOffered == {[lin |-> 1, ang |-> 0]}
=============================================================================
