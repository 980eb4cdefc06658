--------------------------- MODULE KeyboardTeleop -------------------------
(***************************************************************************)
(* The keyboard teleop node.  A reader thread applies keys to the velocity *)
(* target while the executor thread publishes the target on a timer and    *)
(* resets it when no key came for a while.  The two share the target, the  *)
(* time of the last key and a flag that a stop has been sent, without a    *)
(* lock; each reads and writes one attribute at a time.                    *)
(***************************************************************************)
EXTENDS HumaWareMsgs, RosRuntime

CONSTANTS Keys,        \* the motion keys that the operator uses
          Step,        \* linear_step_mps and angular_step_radps
          MaxVelocity, \* max_linear_velocity_mps and max_angular_velocity_radps
          KeyTimeout   \* key_timeout_s

MotionKeys == {"w", "s", "a", "d", "x"}

KeyboardConstants ==
  /\ Keys \subseteq MotionKeys
  /\ Step \in Nat /\ MaxVelocity \in Nat
  /\ KeyTimeout \in Nat /\ KeyTimeout < AgeCap

VARIABLES velocity,    \* _velocity
          keyAge,      \* age of _last_key_at
          stopSent,    \* _stop_sent
          command,     \* topic teleop/cmd_vel
          heartbeat,   \* topic teleop/heartbeat
          readerPc,    \* where the reader thread is, and its locals:
          key,         \*   the key it applies
          readerSaw,   \*   the velocity it has read
          timerPc,     \* where the executor thread is, and its local:
          timerSaw     \*   the velocity it has read for a message

shared == <<velocity, keyAge, stopSent, command, heartbeat>>
reader == <<readerPc, key, readerSaw>>
timer == <<timerPc, timerSaw>>
vars == <<shared, reader, timer>>

Clamp(value) ==
  IF value > MaxVelocity THEN MaxVelocity
  ELSE IF value < -MaxVelocity THEN -MaxVelocity ELSE value

\* Variant for mutation: the target is not clamped.
ApplyKeyUnclamped(k, vel) ==
  CASE k = "x" -> Zero
    [] k = "w" -> [vel EXCEPT !.lin = @ + Step]
    [] k = "s" -> [vel EXCEPT !.lin = @ - Step]
    [] k = "a" -> [vel EXCEPT !.ang = @ + Step]
    [] k = "d" -> [vel EXCEPT !.ang = @ - Step]

\* apply_key
ApplyKey(k, vel) ==
  IF k = "x" THEN Zero
  ELSE [lin |-> Clamp(CASE k = "w" -> vel.lin + Step [] k = "s" -> vel.lin - Step
                        [] OTHER -> vel.lin),
        ang |-> Clamp(CASE k = "a" -> vel.ang + Step [] k = "d" -> vel.ang - Step
                        [] OTHER -> vel.ang)]

Init ==
  /\ velocity = Zero
  /\ keyAge = Never
  /\ stopSent = TRUE
  /\ command = Silent({"arbiter"})
  /\ heartbeat = Silent({"safety_manager"})
  /\ readerPc = "idle" /\ key = "x" /\ readerSaw = Zero
  /\ timerPc = "idle" /\ timerSaw = Zero

(***************************************************************************)
(* The reader thread: _read_keys and _apply_key.                           *)
(***************************************************************************)
ReaderAt(here, next) == readerPc = here /\ readerPc' = next

PressKey ==
  /\ ReaderAt("idle", "apply")
  /\ key' \in Keys
  /\ readerSaw' = velocity
  /\ UNCHANGED <<shared, timer>>

StoreTarget ==
  /\ ReaderAt("apply", "stamp")
  /\ velocity' = ApplyKey(key, readerSaw)
  /\ UNCHANGED <<keyAge, stopSent, command, heartbeat, key, readerSaw, timer>>

StampKey ==
  /\ ReaderAt("stamp", "test")
  /\ keyAge' = 0
  /\ UNCHANGED <<velocity, stopSent, command, heartbeat, key, readerSaw, timer>>

TestTarget ==
  /\ \/ ReaderAt("test", "publish") /\ velocity = Zero
     \/ ReaderAt("test", "clear") /\ velocity # Zero
  /\ UNCHANGED <<shared, key, readerSaw, timer>>

\* _publish_command reads the two components of the target one after the other.
ReaderReadsLinear ==
  /\ ReaderAt("publish", "angular")
  /\ readerSaw' = [readerSaw EXCEPT !.lin = velocity.lin]
  /\ UNCHANGED <<shared, key, timer>>

ReaderReadsAngular ==
  /\ ReaderAt("angular", "send")
  /\ readerSaw' = [readerSaw EXCEPT !.ang = velocity.ang]
  /\ UNCHANGED <<shared, key, timer>>

ReaderPublishes ==
  /\ ReaderAt("send", "mark")
  /\ command' = Publish(command, readerSaw)
  /\ UNCHANGED <<velocity, keyAge, stopSent, heartbeat, key, readerSaw, timer>>

ReaderMarks ==
  /\ \/ ReaderAt("mark", "idle") /\ stopSent' = TRUE
     \/ ReaderAt("clear", "idle") /\ stopSent' = FALSE
  /\ UNCHANGED <<velocity, keyAge, command, heartbeat, key, readerSaw, timer>>

(***************************************************************************)
(* The executor thread: _publish_tick.                                     *)
(***************************************************************************)
TimerAt(here, next) == timerPc = here /\ timerPc' = next

StartTick ==
  /\ \/ TimerAt("idle", "reset") /\ Expired(keyAge, KeyTimeout)
     \/ TimerAt("idle", "test") /\ ~Expired(keyAge, KeyTimeout)
  /\ heartbeat' = Publish(heartbeat, "beat")
  /\ UNCHANGED <<velocity, keyAge, stopSent, command, timerSaw, reader>>

\* Variant for mutation: only the linear target is reset.
ResetLinear ==
  /\ TimerAt("reset", "test")
  /\ velocity' = [velocity EXCEPT !.lin = 0]
  /\ UNCHANGED <<keyAge, stopSent, command, heartbeat, timerSaw, reader>>

ResetTarget ==
  /\ TimerAt("reset", "test")
  /\ velocity' = Zero
  /\ UNCHANGED <<keyAge, stopSent, command, heartbeat, timerSaw, reader>>

TimerTests ==
  /\ \/ TimerAt("test", "checkSent") /\ velocity = Zero
     \/ TimerAt("test", "readMoving") /\ velocity # Zero
  /\ UNCHANGED <<shared, timerSaw, reader>>

TimerChecksSent ==
  /\ \/ TimerAt("checkSent", "idle") /\ stopSent
     \/ TimerAt("checkSent", "readStop") /\ ~stopSent
  /\ UNCHANGED <<shared, timerSaw, reader>>

TimerReadsLinear ==
  /\ \/ TimerAt("readStop", "angularStop")
     \/ TimerAt("readMoving", "angularMoving")
  /\ timerSaw' = [timerSaw EXCEPT !.lin = velocity.lin]
  /\ UNCHANGED <<shared, reader>>

TimerReadsAngular ==
  /\ \/ TimerAt("angularStop", "sendStop")
     \/ TimerAt("angularMoving", "sendMoving")
  /\ timerSaw' = [timerSaw EXCEPT !.ang = velocity.ang]
  /\ UNCHANGED <<shared, reader>>

TimerPublishes ==
  /\ \/ TimerAt("sendStop", "markStop")
     \/ TimerAt("sendMoving", "markMoving")
  /\ command' = Publish(command, timerSaw)
  /\ UNCHANGED <<velocity, keyAge, stopSent, heartbeat, timerSaw, reader>>

TimerMarks ==
  /\ \/ TimerAt("markStop", "idle") /\ stopSent' = TRUE
     \/ TimerAt("markMoving", "idle") /\ stopSent' = FALSE
  /\ UNCHANGED <<velocity, keyAge, command, heartbeat, timerSaw, reader>>

(***************************************************************************)
(* Time passes between any two steps of either thread.                     *)
(***************************************************************************)
Advance ==
  /\ keyAge' = Older(keyAge)
  /\ UNCHANGED <<velocity, stopSent, command, heartbeat, reader, timer>>

ReaderStep ==
  \/ StoreTarget \/ StampKey \/ TestTarget \/ ReaderReadsLinear
  \/ ReaderReadsAngular \/ ReaderPublishes \/ ReaderMarks

TimerStep ==
  \/ StartTick \/ ResetTarget \/ TimerTests \/ TimerChecksSent
  \/ TimerReadsLinear \/ TimerReadsAngular \/ TimerPublishes \/ TimerMarks

Next == PressKey \/ ReaderStep \/ TimerStep \/ Advance

Spec == Init /\ [][Next]_vars

\* Both threads keep running and time keeps passing; keys need not come.
Fairness == WF_vars(ReaderStep) /\ WF_vars(TimerStep) /\ WF_vars(Advance)

FairSpec == Spec /\ Fairness

-----------------------------------------------------------------------------
Targets == [lin : -MaxVelocity..MaxVelocity, ang : -MaxVelocity..MaxVelocity]

TypeOk ==
  /\ velocity \in Targets
  /\ keyAge \in Ages
  /\ stopSent \in BOOLEAN
  /\ command \in Topics({"arbiter"}, Targets)
  /\ heartbeat \in Topics({"safety_manager"}, {"beat"})
  /\ readerPc \in {"idle", "apply", "stamp", "test", "publish", "angular", "send",
                   "mark", "clear"}
  /\ key \in MotionKeys
  /\ readerSaw \in Targets
  /\ timerPc \in {"idle", "reset", "test", "checkSent", "readStop", "angularStop",
                  "sendStop", "markStop", "readMoving", "angularMoving", "sendMoving",
                  "markMoving"}
  /\ timerSaw \in Targets

\* The quiet state: nothing that the timer does will publish another command.
AtRest == velocity = Zero /\ stopSent

\* The dead-man switch.  An operator who stops pressing keys brings the node to
\* rest for good, however the two threads raced before: the target returns to
\* zero and no stale command is repeated for ever.
SilenceStops == <>[](readerPc = "idle") => <>[]AtRest

LastCommand == Latest(command["arbiter"])

\* README and help text: "x or space: stop".  When both threads have finished
\* with a stop key, the last command that left the node is a stop.
StopKeyStops ==
  /\ readerPc = "idle" /\ timerPc = "idle"
  /\ key = "x" /\ command["arbiter"] # << >>
  /\ AtRest
  => LastCommand = Zero
=============================================================================
