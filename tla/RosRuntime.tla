---------------------------- MODULE RosRuntime ----------------------------
(***************************************************************************)
(* What the nodes use of ROS 2: topics and the clock.                      *)
(*                                                                         *)
(* Every topic of the runtime is created with queue depth 10, reliable,    *)
(* volatile, keep-last.  A topic is a function from its subscribers to     *)
(* their queues; a publication is appended to every queue and a full queue *)
(* loses its oldest sample.  Queues of different subscribers and of        *)
(* different topics are drained independently, so samples of two topics    *)
(* may be seen in either order.                                            *)
(*                                                                         *)
(* A time stamp is kept as an age, in clock units, which the passing of    *)
(* time increases up to AgeCap: ages beyond every timeout are alike.       *)
(***************************************************************************)
EXTENDS Integers, Sequences

CONSTANTS Depth,    \* samples a subscription queue holds (10 in the code)
          AgeCap    \* the oldest age that is distinguished

ASSUME DepthAssumption == Depth \in Nat \ {0}
ASSUME AgeCapAssumption == AgeCap \in Nat

Enqueue(queue, msg) ==
  Append(IF Len(queue) < Depth THEN queue ELSE Tail(queue), msg)

Publish(topic, msg) == [sub \in DOMAIN topic |-> Enqueue(topic[sub], msg)]

Latest(queue) == queue[Len(queue)]

Take(topic, sub) == [topic EXCEPT ![sub] = Tail(@)]

\* A process that dies takes its queues along; one that starts has empty ones.
Leave(topic, sub) == [t \in DOMAIN topic \ {sub} |-> topic[t]]

Join(topic, sub) ==
  [t \in DOMAIN topic \union {sub} |-> IF t = sub THEN << >> ELSE topic[t]]

\* A topic nobody has published on yet.
Silent(subs) == [sub \in subs |-> << >>]

Topics(subs, Msgs) == [subs -> Seq(Msgs)]

\* A velocity command whose time under way matters carries its age.
Sample(vel) == [vel |-> vel, age |-> 0]

Samples(Velocity, time) == [vel : Velocity, age : 0..time]

(***************************************************************************)
(* Ages.  Never is the age of an event that has not happened: the None of  *)
(* an optional time stamp.                                                 *)
(***************************************************************************)
Never == -1

Ages == {Never} \union 0..AgeCap

Older(age) == IF age = Never \/ age >= AgeCap THEN age ELSE age + 1

Within(age, timeout) == age # Never /\ age <= timeout

Expired(age, timeout) == age # Never /\ age > timeout

=============================================================================
