------------------------ MODULE Foundations_proofs ------------------------
(***************************************************************************)
(* What the proofs of the other modules rest on: queues, topics and ages,  *)
(* for every queue depth and every cap on ages, and what is needed to      *)
(* reason about a loop: induction, the existence of recursive functions    *)
(* and remainders.                                                         *)
(***************************************************************************)
EXTENDS RosRuntime, WellFoundedInduction, TLAPS

\* A queue of samples stays one when a sample is published on it, and that
\* sample is then the latest, whatever was lost to make room for it (Enqueue,
\* a keep-last subscription).
LEMMA EnqueueType ==
  ASSUME NEW S, NEW queue \in Seq(S), NEW msg \in S
  PROVE  /\ Enqueue(queue, msg) \in Seq(S)
         /\ Enqueue(queue, msg) # << >>
         /\ Latest(Enqueue(queue, msg)) = msg
<1>1. Len(queue) < Depth \/ queue # << >>
  <2>1. ASSUME queue = << >> PROVE Len(queue) < Depth
    BY <2>1, DepthAssumption
  <2>2. QED
    BY <2>1
<1>2. CASE Len(queue) < Depth
  <2>1. Enqueue(queue, msg) = Append(queue, msg)
    BY <1>2 DEF Enqueue
  <2>2. QED
    BY <2>1 DEF Latest
<1>3. CASE ~(Len(queue) < Depth)
  <2>1. Enqueue(queue, msg) = Append(Tail(queue), msg)
    BY <1>3 DEF Enqueue
  <2>2. Tail(queue) \in Seq(S)
    BY <1>1, <1>3
  <2>3. QED
    BY <2>1, <2>2 DEF Latest
<1>4. QED
  BY <1>2, <1>3

\* Publishing keeps a topic a topic, leaves the sample as the latest of every
\* subscriber and leaves nobody's queue empty.
LEMMA PublishType ==
  ASSUME NEW Subs, NEW Msgs, NEW topic \in Topics(Subs, Msgs), NEW msg \in Msgs
  PROVE  /\ Publish(topic, msg) \in Topics(Subs, Msgs)
         /\ \A sub \in Subs : /\ Publish(topic, msg)[sub] # << >>
                              /\ Latest(Publish(topic, msg)[sub]) = msg
<1>1. /\ DOMAIN topic = Subs
      /\ \A sub \in Subs : topic[sub] \in Seq(Msgs)
  BY DEF Topics
<1>2. \A sub \in Subs : Publish(topic, msg)[sub] = Enqueue(topic[sub], msg)
  BY <1>1 DEF Publish
<1>3. \A sub \in Subs : /\ Enqueue(topic[sub], msg) \in Seq(Msgs)
                        /\ Enqueue(topic[sub], msg) # << >>
                        /\ Latest(Enqueue(topic[sub], msg)) = msg
  BY <1>1, EnqueueType
<1>4. Publish(topic, msg) \in [Subs -> Seq(Msgs)]
  BY <1>1, <1>3 DEF Publish
<1>5. QED
  BY <1>2, <1>3, <1>4 DEF Topics

\* A topic nobody has published on is a topic of any kind of message.
LEMMA SilentType ==
  ASSUME NEW Subs, NEW Msgs
  PROVE  Silent(Subs) \in Topics(Subs, Msgs)
<1>1. << >> \in Seq(Msgs)
  OBVIOUS
<1>2. QED
  BY <1>1 DEF Silent, Topics

\* A subscriber that awaits a sample takes one of the topic's messages, and the
\* others keep theirs (Take, a delivery).
LEMMA TakeType ==
  ASSUME NEW Subs, NEW Msgs, NEW topic \in Topics(Subs, Msgs), NEW sub \in Subs,
         topic[sub] # << >>
  PROVE  /\ Head(topic[sub]) \in Msgs
         /\ Take(topic, sub) \in Topics(Subs, Msgs)
         /\ \A other \in Subs \ {sub} : Take(topic, sub)[other] = topic[other]
<1>1. topic \in [Subs -> Seq(Msgs)]
  BY DEF Topics
<1>2. Head(topic[sub]) \in Msgs /\ Tail(topic[sub]) \in Seq(Msgs)
  BY <1>1
<1>3. Take(topic, sub) = [topic EXCEPT ![sub] = Tail(topic[sub])]
  BY DEF Take
<1>4. QED
  BY <1>1, <1>2, <1>3 DEF Topics

\* A process that dies leaves the topic to the other subscribers.
LEMMA LeaveType ==
  ASSUME NEW Subs, NEW Msgs, NEW topic \in Topics(Subs, Msgs), NEW sub
  PROVE  /\ Leave(topic, sub) \in Topics(Subs \ {sub}, Msgs)
         /\ \A other \in Subs \ {sub} : Leave(topic, sub)[other] = topic[other]
BY DEF Leave, Topics

\* A process that starts subscribes with an empty queue.
LEMMA JoinType ==
  ASSUME NEW Subs, NEW Msgs, NEW topic \in Topics(Subs, Msgs), NEW sub
  PROVE  /\ Join(topic, sub) \in Topics(Subs \union {sub}, Msgs)
         /\ Join(topic, sub)[sub] = << >>
         /\ \A other \in Subs \ {sub} : Join(topic, sub)[other] = topic[other]
<1>1. << >> \in Seq(Msgs)
  OBVIOUS
<1>2. QED
  BY <1>1 DEF Join, Topics

\* Time makes an age at most one unit older and never forgets an event.
LEMMA OlderType ==
  ASSUME NEW age \in Ages
  PROVE  /\ Older(age) \in Ages
         /\ Older(age) = Never <=> age = Never
         /\ age <= Older(age) /\ Older(age) <= age + 1
BY AgeCapAssumption DEF Ages, Older, Never

(***************************************************************************)
(* Induction, recursive functions and remainders.                          *)
(***************************************************************************)

\* Induction over the naturals, about a set instead of a predicate: a set that
\* holds n whenever it holds everything below n holds every natural.  (It rests
\* on the least element of the naturals outside of the set.)
LEMMA SetInduction ==
  ASSUME NEW S, \A n \in Nat : (\A k \in Nat : k < n => k \in S) => n \in S
  PROVE  Nat \subseteq S
<1> SUFFICES ASSUME Nat \ S # {} PROVE FALSE
  OBVIOUS
<1>1. PICK least \in Nat \ S : \A n \in Nat \ S : <<n, least>> \notin OpToRel(<, Nat)
  <2>1. Nat \ S \subseteq Nat
    OBVIOUS
  <2>2. QED
    BY <2>1, NatLessThanWellFounded, WFMin
<1>2. \A n \in Nat \ S : /\ <<n, least>> \in Nat \X Nat
                         /\ <<n, least>>[1] = n /\ <<n, least>>[2] = least
  OBVIOUS
<1>3. \A n \in Nat \ S : ~(n < least)
  BY <1>1, <1>2 DEF OpToRel
<1>4. QED
  BY <1>3

\* A loop whose every turn brings a natural measure down has a result for every
\* start: the recursive function that describes it exists.  Near(n) are the
\* starts with a measure of at most n; a function for them is built from one for
\* Near(n - 1), any two of them agree, and f takes a result from each.
LEMMA LoopDefined ==
  ASSUME NEW S, NEW measure \in [S -> Nat], NEW Stop \in SUBSET S, NEW out,
         NEW next \in [S \ Stop -> S],
         \A s \in S \ Stop : measure[next[s]] < measure[s]
  PROVE  \E f : f = [s \in S |-> IF s \in Stop THEN out[s] ELSE f[next[s]]]
<1> DEFINE Near(n) == {s \in S : measure[s] <= n}
           Solves(g, n) == g = [s \in Near(n) |-> IF s \in Stop THEN out[s] ELSE g[next[s]]]
           Solved == {n \in Nat : \E g : Solves(g, n)}
<1>1. ASSUME NEW n \in Nat, NEW s \in Near(n), s \notin Stop
      PROVE  next[s] \in Near(n - 1) /\ next[s] \in Near(n) /\ n # 0
  BY <1>1
<1>2. \A n \in Nat : \E g : Solves(g, n)
  <2>1. ASSUME NEW n \in Nat, \A k \in Nat : k < n => k \in Solved
        PROVE  n \in Solved
    <3>0. n # 0 => n - 1 \in Solved
      <4> HIDE DEF Solved
      <4>1. QED
        BY <2>1
    <3>1. PICK g : n # 0 => Solves(g, n - 1)
      BY <3>0
    <3> DEFINE h == [s \in Near(n) |-> IF s \in Stop THEN out[s] ELSE g[next[s]]]
    <3> HIDE DEF Near
    <3>2. ASSUME NEW s \in Near(n), s \notin Stop
          PROVE  g[next[s]] = h[next[s]]
      <4>1. next[s] \in Near(n - 1) /\ next[s] \in Near(n) /\ n # 0
        BY <1>1, <3>2
      <4>2. QED
        BY <3>1, <4>1
    <3>3. Solves(h, n)
      BY <3>2
    <3>4. QED
      BY <3>3
  <2> HIDE DEF Solved
  <2>2. Nat \subseteq Solved
    BY <2>1, SetInduction
  <2>3. QED
    BY <2>2 DEF Solved
<1>3. ASSUME NEW i \in Nat, NEW j \in Nat, NEW g, NEW h, Solves(g, i), Solves(h, j),
             NEW s \in Near(i) \cap Near(j)
      PROVE  g[s] = h[s]
  <2> DEFINE Agree == {n \in Nat : \A t \in Near(i) \cap Near(j) :
                                     measure[t] = n => g[t] = h[t]}
  <2>1. ASSUME NEW n \in Nat, \A k \in Nat : k < n => k \in Agree
        PROVE  n \in Agree
    <3> SUFFICES ASSUME NEW t \in Near(i) \cap Near(j), measure[t] = n
                 PROVE  g[t] = h[t]
      OBVIOUS
    <3>1. t \in Stop => g[t] = h[t]
      BY <1>3
    <3>2. ASSUME t \notin Stop PROVE g[t] = h[t]
      <4>1. next[t] \in Near(i) \cap Near(j) /\ measure[next[t]] < n
        BY <1>1, <3>2
      <4>2. measure[next[t]] \in Agree
        BY <2>1, <4>1
      <4>3. g[next[t]] = h[next[t]]
        BY <4>1, <4>2
      <4>4. QED
        BY <1>3, <3>2, <4>3
    <3>3. QED
      BY <3>1, <3>2
  <2> HIDE DEF Agree
  <2>2. Nat \subseteq Agree
    BY <2>1, SetInduction
  <2>3. QED
    BY <2>2 DEF Agree
<1> DEFINE Piece(n) == CHOOSE g : Solves(g, n)
           f == [s \in S |-> Piece(measure[s])[s]]
<1> HIDE DEF Solves
<1>4. \A n \in Nat : Solves(Piece(n), n)
  BY <1>2
<1> HIDE DEF Piece, Near
<1>5. ASSUME NEW s \in S
      PROVE  f[s] = IF s \in Stop THEN out[s] ELSE f[next[s]]
  <2>1. s \in Near(measure[s]) /\ Solves(Piece(measure[s]), measure[s])
    BY <1>4 DEF Near
  <2>2. f[s] = IF s \in Stop THEN out[s] ELSE Piece(measure[s])[next[s]]
    BY <2>1 DEF Solves
  <2>3. ASSUME s \notin Stop
        PROVE  Piece(measure[s])[next[s]] = f[next[s]]
    <3>1. next[s] \in S /\ next[s] \in Near(measure[s]) /\ next[s] \in Near(measure[next[s]])
      BY <2>3 DEF Near
    <3>2. f[next[s]] = Piece(measure[next[s]])[next[s]]
      BY <3>1
    <3>3. QED
      BY <1>3, <1>4, <3>1, <3>2
  <2>4. QED
    BY <2>2, <2>3
<1>6. f = [s \in S |-> IF s \in Stop THEN out[s] ELSE f[next[s]]]
  BY <1>5
<1>7. QED
  BY <1>6

\* The running sum of any sizes exists as a recursive function: what comes
\* before each of a sequence of pieces (PlanPlayback!Begins).
LEMMA SumsDefined ==
  ASSUME NEW size
  PROVE  \E f : f = [i \in Nat \ {0} |-> IF i = 1 THEN 0 ELSE f[i - 1] + size[i - 1]]
<1> DEFINE sum(g, i) == IF i = 1 THEN 0 ELSE g[i - 1] + size[i - 1]
           Solves(g, n) == g = [i \in 1..n |-> sum(g, i)]
           Solved == {n \in Nat : \E g : Solves(g, n)}
           Unique == {n \in Nat : \A i, j \in Nat : \A g, h :
                        Solves(g, i) /\ Solves(h, j) /\ n \in 1..i /\ n \in 1..j => g[n] = h[n]}
<1>1. Nat \subseteq Solved
  <2>1. ASSUME NEW n \in Nat, \A k \in Nat : k < n => k \in Solved
        PROVE  n \in Solved
    <3>0. n # 0 => n - 1 \in Solved
      <4> HIDE DEF Solved
      <4>1. QED
        BY <2>1
    <3>1. PICK g : n # 0 => Solves(g, n - 1)
      BY <3>0
    <3> DEFINE h == [i \in 1..n |-> sum(g, i)]
    <3>2. \A i \in 1..n : i # 1 => g[i - 1] = h[i - 1]
      BY <3>1
    <3>3. Solves(h, n)
      BY <3>2
    <3>4. QED
      BY <3>3
  <2> HIDE DEF Solved
  <2>2. QED
    BY <2>1, SetInduction
<1>2. Nat \subseteq Unique
  <2>1. ASSUME NEW n \in Nat, \A k \in Nat : k < n => k \in Unique
        PROVE  n \in Unique
    <3> SUFFICES ASSUME NEW i \in Nat, NEW j \in Nat, NEW g, NEW h,
                        Solves(g, i), Solves(h, j), n \in 1..i, n \in 1..j
                 PROVE  g[n] = h[n]
      OBVIOUS
    <3>1. n # 1 => n - 1 \in 1..i /\ n - 1 \in 1..j /\ n - 1 \in Nat
      OBVIOUS
    <3>2. n # 1 => g[n - 1] = h[n - 1]
      <4>1. n # 1 => n - 1 \in Unique
        <5> HIDE DEF Unique
        <5>1. QED
          BY <2>1
      <4> HIDE DEF Solves
      <4>2. QED
        BY <3>1, <4>1
    <3>3. QED
      BY <3>2
  <2> HIDE DEF Unique
  <2>2. QED
    BY <2>1, SetInduction
<1> DEFINE Piece(n) == CHOOSE g : Solves(g, n)
           f == [i \in Nat \ {0} |-> Piece(i)[i]]
<1> HIDE DEF Solves
<1>3. \A n \in Nat : Solves(Piece(n), n)
  BY <1>1
<1>4. \A i, j \in Nat : \A g, h : \A n \in Nat :
        Solves(g, i) /\ Solves(h, j) /\ n \in 1..i /\ n \in 1..j => g[n] = h[n]
  BY <1>2
<1> HIDE DEF Piece
<1>5. \A i \in Nat \ {0} : f[i] = sum(f, i)
  <2> TAKE i \in Nat \ {0}
  <2>1. Piece(i)[i] = sum(Piece(i), i)
    BY <1>3 DEF Solves
  <2>2. ASSUME i # 1 PROVE Piece(i)[i - 1] = f[i - 1]
    <3>1. i - 1 \in Nat \ {0} /\ i - 1 \in 1..i /\ i - 1 \in 1..(i - 1)
      BY <2>2
    <3>2. Solves(Piece(i), i) /\ Solves(Piece(i - 1), i - 1)
      BY <1>3, <3>1
    <3>3. Piece(i)[i - 1] = Piece(i - 1)[i - 1]
      BY <1>4, <3>1, <3>2
    <3>4. QED
      BY <3>1, <3>3
  <2>3. QED
    BY <2>1, <2>2
<1>6. f = [i \in Nat \ {0} |-> IF i = 1 THEN 0 ELSE f[i - 1] + size[i - 1]]
  BY <1>5
<1>7. QED
  BY <1>6

\* A whole number of rounds more does not change what is left over.
LEMMA RoundLeaves ==
  ASSUME NEW n \in Nat \ {0}, NEW p \in Int, NEW q \in Int,
         NEW r \in 0..(n - 1), NEW s \in 0..(n - 1), n * p + r = n * q + s
  PROVE  r = s
<1>1. n * (p - q) = s - r
  OBVIOUS
<1>2. ASSUME p - q >= 1 PROVE n * (p - q) >= n
  BY <1>2
<1>3. ASSUME p - q <= -1 PROVE n * (p - q) <= -n
  BY <1>3
<1>4. QED
  BY <1>1, <1>2, <1>3

\* The remainder of a time in a round: within the round, the time itself in the
\* first one, and the same again a round later.
LEMMA Remainder ==
  ASSUME NEW time \in Nat, NEW length \in Nat \ {0}
  PROVE  /\ time % length \in 0..(length - 1)
         /\ time < length => time % length = time
         /\ (time + length) % length = time % length
<1> DEFINE after == time + length
<1>1. \A x \in Nat : /\ x = length * (x \div length) + (x % length)
                     /\ x \div length \in Int /\ x % length \in 0..(length - 1)
  OBVIOUS
<1>2. after \in Nat
  OBVIOUS
<1>3. after = length * ((time \div length) + 1) + (time % length)
  BY <1>1
<1>4. after = length * (after \div length) + (after % length)
  BY <1>1, <1>2
<1>5. after \div length \in Int /\ after % length \in 0..(length - 1)
  BY <1>1, <1>2
<1>6. (time \div length) + 1 \in Int /\ time % length \in 0..(length - 1)
  BY <1>1
<1> HIDE DEF after
<1>7. after % length = time % length
  BY <1>3, <1>4, <1>5, <1>6, RoundLeaves
<1>8. QED
  BY <1>1, <1>7 DEF after
=============================================================================
