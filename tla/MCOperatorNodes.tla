-------------------------- MODULE MCOperatorNodes -------------------------
(***************************************************************************)
(* Small instances of the two nodes that an operator talks to: the mode    *)
(* manager, asked by service calls, and the keyboard teleop node.  They    *)
(* share no state; subject says which of them a behaviour is about.        *)
(***************************************************************************)
EXTENDS ModeManager

CONSTANTS Keys, Step, MaxVelocity, KeyTimeout

VARIABLES velocity, keyAge, stopSent, command, heartbeat, readerPc, key, readerSaw,
          timerPc, timerSaw,
          subject

KB == INSTANCE KeyboardTeleop

ASSUME OperatorNodesAssumption == KB!KeyboardConstants

keyboardVars == <<velocity, keyAge, stopSent, command, heartbeat, readerPc, key,
                  readerSaw, timerPc, timerSaw>>
allVars == <<vars, keyboardVars, subject>>

MCInit == Init /\ KB!Init /\ subject \in {"mode_manager", "keyboard"}

OfKeyboard(action) == subject = "keyboard" /\ action /\ UNCHANGED <<vars, subject>>

MCNext ==
  \/ subject = "mode_manager" /\ Next /\ UNCHANGED <<keyboardVars, subject>>
  \/ OfKeyboard(KB!Next)

MCSpec ==
  /\ MCInit /\ [][MCNext]_allVars
  /\ WF_allVars(OfKeyboard(KB!ReaderStep))
  /\ WF_allVars(OfKeyboard(KB!TimerStep))
  /\ WF_allVars(OfKeyboard(KB!Advance))

\* The values of the keyboard teleop node's state and of what its threads remember.
KeyboardTypeOk == KB!TypeOk

\* See KeyboardTeleop: an operator who stops pressing keys brings the node to rest.
SilenceStops == KB!SilenceStops
=============================================================================
