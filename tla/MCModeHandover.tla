--------------------------- MODULE MCModeHandover -------------------------
\* A small handover: the velocity tells which source issued a command.
EXTENDS ModeHandover

MCTeleopVelocity == [lin |-> 1, ang |-> 0]
MCAutonomyVelocity == [lin |-> 2, ang |-> 0]
=============================================================================
