-------------------------- MODULE MCMotionPipeline ------------------------
(***************************************************************************)
(* Small instances of the motion path.  The velocity a source asks for     *)
(* only matters as being zero or not.                                      *)
(***************************************************************************)
EXTENDS MotionPipeline

MCOffered == {[lin |-> 1, ang |-> 0]}
=============================================================================
