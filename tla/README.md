# The HumaWare runtime in TLA+

HumaWare is a ROS 2 (rclpy) runtime for humanoid robots. Command sources offer
velocities; an arbiter approves at most one of them; adapters turn the approved
command into motion. A mode manager decides who may drive, a safety manager
decides whether anybody may. This directory models the nodes that decide, offer
and report, the compositions in which they race each other, and proves for all
parameters what the small instances of the core show.

Paths below are relative to `src/src/` unless they say otherwise.

## 1. The system

Every node is a process with a single-threaded executor: its callbacks
(subscriptions, services, timers) never overlap, except in the keyboard node,
which has a second thread. Nodes share nothing but topics (depth 10, reliable,
volatile, keep last; the capability list is latched with depth 1) and services. Nothing is persisted: a restarted node starts
from its constructor, and no sample but the latched list is replayed to it.

| component | state it keeps | operations | status |
|---|---|---|---|
| command arbiter (`humaware_runtime/humaware_command_arbiter`) | active mode, safety state, last candidate of each source and its arrival time | mode, safety and three candidate subscriptions; 20 Hz timer that publishes `cmd_vel/approved` and the arbitration state | modelled |
| mode manager (`humaware_runtime/humaware_mode_manager`) | requested and active mode, owner, safety state and whether one was seen | `mode/set`, `mode/takeover`, safety subscription, 10 Hz timer; publishes `mode/state`, `mode/transition_state` | modelled |
| safety manager (`humaware_safety/humaware_safety_manager`) | active mode, time of the last teleop heartbeat, hardware heartbeat and approved command, service MRM; parameters `estop_engaged`, `mrm_active` | four subscriptions, `trigger_mrm`, `clear_mrm`, 10 Hz timer; publishes `safety/state`, `safety/mrm_state` | modelled |
| mock locomotion adapter (`humaware_locomotion/humaware_mock_locomotion_adapter`) | mode, safety, time of the last command, start of the current stop, locomotion state, velocity, constraints | three subscriptions, 20 Hz timer | modelled |
| hardware adapter template (`humaware_hardware/humaware_hardware_adapter_template`) | mode, safety, MRM state, last command and report with their times | five subscriptions, 20 Hz gate, 10 Hz heartbeat | modelled |
| keyboard teleop (`humaware_teleop/humaware_keyboard_teleop`) | target velocity, time of the last key, stop-sent flag, shared by two threads without a lock | reader thread, 20 Hz timer | modelled |
| nav2 bridge (`humaware_navigation/humaware_nav2_bridge`) | enabled parameter, mode, safety, locomotion state, last command and its time | forwards a command at once if its gate is open (disabled, idle, stale, mode, safety, locomotion tests in that order); 20 Hz state timer | modelled |
| policy providers, stub and scripted (`humaware_policy`) | mode, safety; the scripted one a plan, a waypoint index and the time into it | 10 Hz timer; the gate freezes the plan, which loops with a remainder or completes | modelled |
| skill server (`humaware_runtime/humaware_skill_server`) | last capabilities, mode and safety; last skill state | `skills/execute` evaluates a request, publishes a policy command; timer republishes | partly: the skill state, which repeats the last decision, is left out |
| capability registry (`humaware_runtime/humaware_capability_registry`) | mode, safety, locomotion state | derives a state per capability at its start and on a 1 Hz timer; list service | modelled |
| diagnostics aggregator (`humaware_diagnostics`) | last sample of each monitored topic and its time | 2 Hz timer derives health; staleness is tested before the safety state | modelled |
| bag evaluator (`humaware_tools/humaware_bag_evaluator`) | a summary per topic while it reads | leading, trailing and inner gaps, missing topics, state transitions | partly: the list of transitions and the command line are left out |
| mock robot (`humaware_hardware/humaware_mock_robot`) | none | publishes constants | not modelled: it reads nothing |
| launch files, bag profiles | none | process and topic lists | not modelled: reflected in the constants of the compositions |

How they interact:

    keyboard --teleop/cmd_vel------\                        /--> mock locomotion adapter
    nav2 bridge --autonomy/cmd_vel--> command arbiter --approved
    policy, skills --policy/cmd_vel/    ^       ^   |       \--> hardware adapter --> vendor
                                        |       |   +--report----^
    mode/set, takeover --> mode manager-+ mode  |
                             ^                  | safety state (also to the mode manager,
                             +---- safety manager both adapters, bridge, policies, skills)
                                     ^  watches: teleop and hardware heartbeats,
                                     |  approved commands, mode
                                     operator: E-stop, MRM parameter, trigger, clear

What is hard about it, and what correctness means:

- *Every node decides with its own, older view.* The arbiter, the adapters, the
  bridge and the policies each keep a copy of mode and safety state and never
  test how old the copy is. A halt or a mode change must still reach the motors
  in bounded time.
- *Ages add up.* The arbiter measures a candidate from its arrival, the adapter
  measures the approved command anew. What matters is how old the operator's
  intention is when the robot executes it.
- *Stopping is an event, not a state.* The adapters keep moving on the last
  command until they hear a stop, a block or a timeout. An arbiter that blocks,
  dies or restarts must not leave a moving command as its last word.
- *Feedback.* The approved-command watchdog watches the output of the arbiter
  that the watchdog's own MRM blocks.
- *Sources guard themselves.* Bridge, policies and skill server each test mode and
  safety, by views of their own, before they offer a command, and the arbiter
  remembers what they offered. When mode or safety return, nothing from before
  may be approved.
- *Reports are believed.* The health summary, the capability list and the
  judgment of a recording are all that an operator sees; each is made of samples
  that may be old, missing or from before a restart.
- *Two threads* in the keyboard node share three attributes without a lock.
- *Several holders of an MRM* (parameter, service, watchdogs, E-stop) are set and
  cleared in any order; clearing one must not release another.

`PROJECT.json` lists these as hazards, each at its line, with the properties that
would catch it.

## 2. Modules

| module | models | state and actions |
|---|---|---|
| `HumaWareMsgs` | enumerations of `humaware_msgs`, the state sets the nodes test | - |
| `RosRuntime` | topics and clock, as the nodes use them (external) | a topic is a function from subscribers to queues; a time stamp is an age |
| `CommandArbiter` | `command_arbiter_node.py` | one action per callback; `Reason` and `Selected` are `select_candidate` |
| `ModeManager` | `mode_manager_node.py` | `SetMode`, `Takeover`, `OnSafetyState`, `Tick`; `SetModeGranted` and `TakeoverGranted` are `evaluate_transition` |
| `SafetyManager` | `safety_manager_node.py` | `Fired` is `evaluate_watchdogs`, `MrmReason` is `select_mrm_reason`, `PublishState` is `_publish_state` |
| `LocomotionAdapter` | `mock_locomotion_adapter_node.py` | `OnApprovedCommand`, `Tick`; `BeginStop` and `Settle` are the two helpers |
| `HardwareAdapter` | `template_adapter_node.py` | `GateReason` is `should_release_output`; `applied` is what the vendor was told last |
| `KeyboardTeleop` | `keyboard_teleop_node.py`, `keymap.py` | two program counters; one action per read or write of a shared attribute |
| `MotionPipeline` | operator, safety manager, arbiter and locomotion adapter with crashes | instances of the component modules, their actions reused for timers and deliveries |
| `ModeHandover` | mode manager, arbiter and hardware adapter, two sources | the same |
| `HardwarePath` | safety manager and hardware adapter, each telling the other how it is, with crashes of both | the same; the arbiter is any that may approve and enable at any moment |
| `Interlock` | what a halt path promises, whatever it is made of | how long a halt has been asked for, and the output that is executed |
| `Nav2Bridge` | `nav2_bridge_node.py` | `HandleCommand` is `_handle_command` with its callers; `Status` is `_update_bridge_state` |
| `WaypointPlan` | `plan.py` | `Consumed` is the loop of `advance_progress` as a recursive function over the places of the plan that the loop can be at |
| `PolicyProvider` | both policy provider nodes | one gate, `StubTick` and `ScriptedTick` |
| `PlanPlayback` | what a scripted plan promises, written without waypoint indices | a position on a track and what is played there |
| `CapabilityRegistry` | `capability_registry_node.py` | `CapabilityState` is `capability_state`; `latched` is the sample DDS keeps |
| `SkillServer` | `skill_server_node.py` | `Decision` is `evaluate_request` |
| `CandidateSources` | the five nodes above in four launch sets, the streams they hear and the arbiter's memory of candidates | the same |
| `Diagnostics` | `diagnostics_aggregator_node.py` | `StaleTopics` is `compute_stale_topics`, `Health` is `evaluate_health` |
| `BagEvaluator` | `evaluator.py` | `Read` is one turn of its loop, `CoverageGap` is `_coverage_gap` |
| `Observers` | publishers, aggregator, recorder and evaluator | the same |
| `MC*` | velocities, plans and topic contents for TLC; `MCReports` runs four systems that share nothing as one instance, `MCOperatorNodes` the mode manager and the keyboard node | `subject` says which of them moves |
| `*_proofs` | theorems | - |

Each component module states the node's callbacks as actions over its own
variables and the topics it publishes on, and closes itself (`Init`, `Next`) with
an environment that sends anything at any time to it and one listener on its
topics. A composition instantiates the same module with renamed variables and
calls the same actions, so what is checked together is what is checked alone.
`NodeTypeOk` is the part of the type invariant that composes.

A definition commented *Variant for mutation* is not part of the model: it is a
plausible slip in the code (a forgotten test, a one-sided clamp, a swapped
order). `PROJECT.json` says which definition it replaces and which property then
fails in which run.

What the models leave out: texts, robot ids, headers and stamps; identity
metadata and diagnostics of the adapters; the lateral velocity, which the
arbiter treats like the forward one; reply fields of the services.

### Time

Queues and clocks make the nodes infinite-state, so time is counted in units and
a stamp is kept as its age up to `AgeCap`; beyond every timeout ages are alike.
In the component modules time passes whenever it likes. In the compositions a
unit is at least as long as the slowest timer period: every running node's timer
fires at least once and at most `TicksPerUnit` times in a unit, in any order, and
what was published in a unit is delivered before the unit ends. The bounds
therefore assume that delivery takes less than a unit; they assume nothing on the
order of delivery of different topics or to different nodes. The exception are the
candidates of `CandidateSources`: each may be under way for up to `TransportTime`
units, because its sender and the arbiter stamp it at either end of the way, and
what is claimed there is about the difference. Read with a unit of
500 ms (the timers run at 10 and 20 Hz) and rounded up, the defaults are: arbiter
timeout 1, locomotion timeout 2, settle time 1, approved command timeout of the
hardware adapter 1, its arbitration timeout 2, watchdogs 2. Some runs shorten
them to 1 to stay small, and `mode_handover` lengthens the adapter's command
timeout to 2; the theorems hold for every value. In `candidate_sources` a unit is one
second, the slowest timer there being the capability registry's (1 Hz): the
timeouts of bridge and arbiter are parts of one unit and are set to 0, which the
model reads as "not beyond the unit of the stamp".

A crash removes a node's queues and state; a restart comes at any later moment.
After a restart of any node its timer and its subscriptions work in the same
unit.

## 3. What the runs check

Passing runs:

| run | shows | bounds |
|---|---|---|
| `reports` | Of the arbiter: `ApprovedWithinContract`: each approved command is limited on both axes and its candidate was fresh. `ReportExplainsOutput`: the report and the command of a timer run agree. `LastWordIsStop`: an arbiter that publishes stops never falls silent on a moving command, except while it waits for its first safety state. Of the locomotion adapter: `MotionStateAgrees`: velocity, state, stop and constraints agree. `HoldExplained`: a held robot always says why. `StandsAfterSettling`: standing is reported only after the settle time, which restarts when the robot was moving. Of the safety manager: `SafetyAndMrmAgree`: the two topics never contradict each other and an MRM always has its reason. `TriggerHolds`: a triggered MRM is announced at once and holds until a clear is accepted. Of the observers: `EvaluationIsExact`: the evaluator, which keeps four numbers per topic, flags exactly the topics with a silence beyond the limit anywhere in the recording. `StaleOnRecord`: no dropout seen online is missed offline. `DropoutNoticed`: what has been missing for longer than the timeout is named in every health report, also by an aggregator that has restarted. `TroubleIsReported`: a lasting safety block or fault is never reported as good health | one sample per topic; arbiter: timeout 1, limit 1, one velocity beyond the limit on each axis; adapter: timeout 3, settle time 2, velocities below and above `walk_epsilon` on each axis; safety manager: all timeouts 1, one watchdog triggers an MRM and two warn; observers: two required topics, timeout and gap 1, recordings of up to four units |
| `operator_nodes` | Of the mode manager: `RecordIsCurrent`, `RecordIsAChain`, `OwnerIsOnRecord`: the transition record tells who owns which mode, without gaps. `ActiveNeedsSafety`, `EntryGuarded`: no sequence of requests and takeovers gets past a guard (heard is what the code tests of the safety state: one that says UNKNOWN would pass, and the safety manager never sends it). Of the keyboard node: `SilenceStops`: however the two threads raced, an operator who stops pressing keys lets the node come to rest for good | two requesters, every mode, every safety state; keys forward, left, stop, one step each way |
| `stop_path` | `StopBound`: an E-stop, the only halt of this run, stops the robot within three units and keeps it stopped. `FreshnessBound`: nothing older than both timeouts and one unit is executed. Operator, safety manager and arbiter crash and restart | launch-file timeouts in half seconds, rounded up; AgeCap one beyond every value the bounds name |
| `mrm_path` | `InterlockRefined`: the path implements `Interlock` for an MRM by parameter, by service and with both watchdogs firing meanwhile, set and cleared in any order, in bursts that overrun a queue of one sample | all timeouts 1; the operator crashes |
| `hardware_halt` | `HaltReachesMotors`: three units after the safety manager begins to ask for a halt, for whatever reason, the motors stand, although the arbiter goes on approving and enabling. `AlarmIsTrue`: the hardware watchdog notices an adapter that is gone and trusts one that runs, after every restart of either | all timeouts 1; safety manager and adapter crash |
| `watchdog_recovery` | `WatchdogRecovers`: with published stops, a watchdog MRM ends by itself once operator and arbiter are back, and the robot moves again | all timeouts 1 |
| `mode_handover` | `ModeReachesMotors`: three units after a mode change or takeover the vendor executes no other mode's command, although both sources keep sending. `AppliedCommandFresh`: what the vendor executes is no older than both timeouts and one unit. A source and the adapter crash and restart | one velocity per source, so that its origin is visible; the adapter's timeout is two units, so that an old command could outlive the three units; AgeCap one beyond the sum of the largest ages |
| `candidate_sources` | `QuietSources`: `QuietBound` units after its mode or safety is gone, a source has left the arbiter nothing moving to approve. `CapabilitiesConverge`: two units after the last change, registry, latched list and skill server agree with the streams. `SilenceReachesArbiter`: what the arbiter would still approve, the bridge was sent at most `ArbiterTimeout + TransportTime` units ago. `PlaybackRefined`: the scripted provider implements `PlanPlayback` | two modes, OK and MRM, timeouts 0, candidates under way for up to one unit, requests to stop and to walk, ticks of length 2, four plan files; one launch set at a time, any node of which dies and returns |

`InterlockRefined` is a refinement: with the executed velocity as the motion and the
age of the order counted up to the bound, every step is one that `Interlock` allows
or changes neither. It says more than `StopBound`: no command starts or changes a
motion once the order is two units old, an order can be withdrawn but not made young
again, and no unit beyond the bound passes with the robot in motion.

`SilenceReachesArbiter` bounds a disagreement that the code has. Bridge and arbiter
stamp a Nav2 command at its arrival, each at its own, so a sample that was under
way makes the bridge's clock the older one: in this run there are states in which
the bridge reports STALE and the arbiter still approves the last command. In the
program any delay beyond the difference of the two timeouts does it, 0.25 s by
default. What the property says is that this ends: the arbiter follows after its
own timeout and the time under way, however commands queue or push each other out of
the queue. (A bridge that has just restarted knows of no command and reports none as
stale.)

`PlaybackRefined` is another refinement: with the position mapped to the durations
before the present waypoint plus the time into it, every step of the composition
is a step of `PlanPlayback` or leaves it unchanged, whatever gate, mode, safety and
restarts do. It promises that the position moves on by exactly a tick and that what
is played is the segment under it; it does not promise that every segment is
played, and `skipped_waypoint` shows that it is not. The four plans are those in
which a tick can go wrong: a waypoint shorter than a tick, one consumed exactly, a
remainder carried over the end of a loop, a loop passed more than once by one tick, a
file with a duration that is refused (its plan is empty). Durations and ticks are
integers. In the floats of the program a remainder may be off by a rounding error,
and a waypoint whose duration is NaN, which the test `duration <= 0.0` lets pass,
never ends; neither is in the model. Nor is a file whose top level is not a mapping (a
list, a number): `raw.get` raises an error that `_load_plan` does not catch and the
node ends in its constructor, so that there is no provider to speak of.

`QuietBound` is the arbiter's timeout, the time a candidate is under way and two
units, and TLC finds it violated at one less. Of the two, one unit is the time in
which every view catches up. The second is the skill server's: an instance that restarts under an MRM is given the list from
before the MRM, has not heard any safety state, and `evaluate_request` refuses
FAULT, ESTOP and MRM but not UNKNOWN, so it accepts a walk until the first safety
state arrives. The causes (other mode, halt) are counted apart on purpose: while
they alternate, a node can combine the old value of one stream with the new value
of the other and see an opening that never was.

Two assumptions of the observers. At most one publisher gets into trouble while
another is: with two, one may recover online while the other begins, so that
"for longer than the timeout" speaks of neither. `MaxGap` equals `StaleTimeout`, as
the defaults of both programs do (1.5 s); with a larger gap `StaleOnRecord` says
nothing. What a topic's publisher may say (`StatesOf`) and the cap of the clocks
(`ShortCap`) are constants: the run gives small ones, the theorems hold for all.

Why small bounds are enough. The nodes compare ages with timeouts and velocities
with limits and nothing else, so a value on each side of each comparison shows
every branch. Queues hold one sample in the runs, which makes an overrun the
normal case; the theorems hold for every depth. `TicksPerUnit` is 1 in the runs
and arbitrary in the theorems.

What TLC could not finish: crashes of the arbiter together with those of other
nodes in `ModeHandover`, and the theorem covers them. An arbiter that dies leaves
its last command to age out in the adapter, which makes the bound longer
(`HandoverBound`). In
`CandidateSources`, all nodes at once: the nodes share only streams and the policy
topic, so each launch set is a run of its own inside the one run; and liveness,
whose graph is out of reach, is replaced by bounds, which say more.

Runs that find a violation, each of a sentence in the repository:

- `keyboard_stop_key` - *"`x` or space: stop"*
  (`humaware_teleop/humaware_keyboard_teleop/README.md:17`). The timer thread
  reads the target for a message, the reader thread applies the stop key and
  sends its stop, the timer sends the older command, and the reader marks the
  stop as sent: both threads are idle, the target is zero, and the last command
  on the topic moves the robot. Nothing follows, so the motion ends only by the
  arbiter's timeout. `keyboard_stop_key` shows the interleaving;
  `operator_nodes` shows that the node itself still comes to rest.
- `watchdog_loop` - *"a watchdog-driven MRM clears itself the moment its
  triggering condition is resolved"*
  (`humaware_launch/test/test_watchdog_mrm_auto_recovery_launch.py:4-7`). With
  the arbiter's `publish_stop_on_block` off, the MRM of the approved-command
  watchdog silences the arbiter, whose silence sustains the MRM; every node is
  healthy and the robot never moves again. `watchdog_recovery` is the same
  system with the parameter at its default.
- `handover_stops` - an adapter must *"stop output on [...] mode change"*
  (`humaware_hardware/humaware_hardware_adapter_template/README.md:25-26`). The
  gate tests that the mode is active, not that it is the mode of the command, so
  from one active mode to another the motors go from one source's command to the
  next one's without a stop.

- `skipped_waypoint` - to consume waypoints one by one *"keeps coarse tick rates
  from skipping short waypoints silently"*
  (`humaware_policy/humaware_policy_provider_scripted/humaware_policy_provider_scripted/plan.py:101-103`).
  The loop consumes all that the tick covers and the command is looked up once,
  after it. `WaypointsPlayed` says that a tick which leaves a waypoint leaves one
  that was played, for the one that follows it; with durations 3, 1, 2 and ticks of
  2 the second tick goes from the first waypoint to the third, and no command of
  the second is ever published.

Noticed while modelling, and not run as violations of their own:

- The README of the scripted provider names *"a momentary safety `WARN`"* as an
  excursion that pauses the plan; WARN keeps the gate open.
- A skill `stop` is accepted in every mode, but its command is a policy
  candidate, which the arbiter considers in AI policy mode only.
- The bridge reports ACTIVE, *forwarding*, when a command that was blocked at its
  arrival is still fresh as the gate opens; that command is not forwarded.
- An optional topic that is not monitored gets a diagnostics entry once it has been
  seen and keeps it at *ok* after it has fallen silent.
- The adapter's gate can open on a command of the mode before: command and report
  travel on two topics, and the first enabled report of the new mode may be handled
  before the command that it reports. With an arbiter that publishes stops the
  adapter has dropped the old command by then; with `publish_stop_on_block` off, or
  when the arbiter has just restarted, the old command is executed until it is
  overwritten or its timeout ends. The bound for these cases is the adapter's
  timeout and two units instead of three.
- `mode/transition_state` is published on requests only, and is among the topics
  that the bag evaluator requires: a quiet run is always flagged.
- A recording ends with its last message, so a runtime that dies as a whole leaves
  no gap; a provider that restarts plays its plan from the beginning.

### Fairness

Safety runs assume none. `KeyboardTeleop!FairSpec`: both threads that have
something to do eventually do it (preemptive threads) and time passes; keys need
not come. `MotionPipeline!FairSpec`: executors keep firing timers and delivering
messages, and time passes (`rclpy.spin` loops for ever and timers are periodic);
the console, crashes and restarts are never forced. `WatchdogRecovers` is
conditional: it speaks of behaviours in which all nodes eventually stay up and
nobody asks for a halt.

## 4. What is proved

All proofs are checked by TLAPS (SMT, Zenon, PTL) and use only the assumptions
the modules state about their constants: timeouts are naturals below `AgeCap`,
limits are naturals, flags are Booleans, queues hold at least one sample.

- `Foundations_proofs`, which the other proof modules extend: publishing, taking,
  joining and leaving keep a topic's type. The queue is generic in its messages: the
  contract of the arbiter's output below is an instance. The second half is what
  arguments about a loop need. The library's induction theorems take an operator as
  a parameter, which no installed prover can instantiate; its least-element theorem
  (`WFMin`) speaks of sets. `SetInduction` follows from it (a set of naturals that
  contains n whenever it contains everything below is all of them), and from that
  `LoopDefined` and `SumsDefined`: the recursive functions of the plan model exist,
  so that their equations may be used. `RoundLeaves` and `Remainder` are about time
  modulo the length of a round.
- `OperatorNodes_proofs`. Of the mode manager, for every set of requesters: types; `EntryGuarded` and
  `ActiveNeedsSafety` (the latter for a manager whose initial mode is not an
  active one: the parameter is taken without a guard); and the three record
  properties. Inductive invariant: the last record names the active mode and, if
  it was granted, its requester is the owner (`RecordInv`). That the record
  *chains* is an action property; it needs that the active mode at the start of a
  step is the one the last record names, which is why the invariant comes first.
  Of the keyboard node, for every set of keys, step and limit: `KeyboardTyped`. Its
  content is the clamp: a message may take its two components from two targets
  (`MixedTargets`), and each is within its limit all the same.
- `CommandArbiter_proofs`, stated for the arbiter of the `reports` run (`Arb`), for every limit, timeout and set of offered
  velocities: types (`ArbiterTyped`), `ApprovedWithinContract` (every queued sample belongs to
  `Contract`; every publication is a clamped eligible candidate or a stop) and
  `ReportExplainsOutput` with `LastWordIsStop` (one timer run establishes both
  whatever was there before, everything else leaves the topics alone).
- `MotionPipeline_proofs`, for every operating mode, velocity set, timeout, queue
  depth, number of ticks per unit and *every* set of crashing nodes:
  - `PipelineTyped`.
  - `CommandsStayFresh` (`FreshnessBound`). Inductive invariant: queued commands
    were fresh when approved, a robot whose adapter is down does not move, and a
    moving robot's command is at most one unit past the adapter's timeout, and not
    past it at all once the adapter's timer has run in this unit. The last part is
    what makes it inductive: time passes only after the timer has run.
  - `HaltsInTime` (`StopBound`). Inductive invariant: the order advances one hop a
    unit. From age 1 on every safety state in a queue is a blocking one
    (`Announced`), and one was published after the order (`OnItsWay`); from age 2
    on the adapter has heard it (`Heard`); once its timer has then run, the
    velocity is zero and stays so, since a command that arrives meets a blocked
    gate (`Halted`). The arbiter appears nowhere in the argument: the bound
    does not depend on it. An instance with `AgeCap` below 3 never reaches the age
    the property speaks of, so the runs use at least 3.
  - `MotionInterlocked` (`InterlockRefined`), for an `AgeCap` of at least 3. Every step
    is followed through the refinement with the same invariant and `Counted`: a
    halt that is asked for has an age. A step that changes the velocity leaves the
    order alone (`MotionChanges`), which is why no step of the path has to be split
    into two of `Interlock`.

- `HardwarePath_proofs`, for every operating mode, velocity set, timeout, queue
  depth, number of ticks per unit, choice of triggering watchdogs and *every* set of
  crashing nodes: `HardwarePathTyped`, `HaltStandsMotors` (`HaltReachesMotors`) and
  `AlarmTold` (`AlarmIsTrue`).
  - `HaltInv` follows a halt for three units. In the first whole one every sample on
    its way to the adapter blocks, and once the safety manager's timer has run one is
    on its way or was heard (`HaltAnnounced`); in the second the adapter's gate is
    closed, and its timer, once it has run, has told the motors (`HaltHeard`). An
    adapter that dies or starts in between has its gate closed anyway (`DownHalts`).
    The arbiter is any, so the bound does not rest on it.
  - `AlarmInv` is about one number, the age of the last heartbeat. Of a dead adapter
    nothing is under way after a unit, and the age grows with each one (`DownAges`);
    of a running one each unit brings a heartbeat, which is heard before the unit
    ends (`SteadyHears`), so that the age is at most 1, which is why a timeout of 0
    is excluded. The three bounds (`HaltBound`, `AlarmBound`, `SteadyBound`) are the
    least: with any one a unit shorter TLC finds the property violated.
  - `MotorsInterlocked`: this path implements `Interlock` too, although it shares
    neither the output nor the reasons for a halt with the motion path. Here an order
    may begin with the end of a unit, when a watchdog runs out, and `HaltingLasts` is
    what forbids that one ends so: silence is not broken by time. No run lists this
    refinement: `HaltReachesMotors` is the part of it that the run checks.
- `Reports_proofs`, of the other three systems of the `reports` run.
  - Locomotion adapter, for every timeout, settle time and set of velocities:
    types, `MotionStateAgrees`, `HoldExplained` and `StandsAfterSettling`. Inductive
    invariant: the first two together with `ModeKnown`, that the mode the adapter
    holds is never UNKNOWN. The mode manager never publishes UNKNOWN, and without
    that fact the adapter would hold the robot with no fault code to say why.
  - Safety manager, for every choice of watchdogs, timeouts and MRM triggers
    (`SafetyConstants`): types, `SafetyAndMrmAgree` and `TriggerHolds`. The manager
    evaluates its state anew before each publication, so what is proved once is that
    one evaluation is consistent (`EvaluationAgrees`: reason, state and the two
    messages); the invariant then says that the last two messages come from one
    evaluation. Four callbacks change an input of the evaluation without publishing,
    which is why it speaks of what is announced and not of what the node knows.
  - Observers, for every set of topics, contents of the topics, timeout and length of
    the recording: types and the four properties of the run. `EvaluatorExact`
    (`EvaluationIsExact`) is the correctness of a one-pass algorithm against its
    definition. The invariant (`Summarised`) says what the four numbers of a topic
    mean: first and last stamp bracket all of them, every quiet interval between the
    two is no longer than the largest gap, and that gap is one; whatever is silent at
    either end is between the topic's own bracket and the recording's
    (`RecordingExtends`). `AlarmsOnRecord` (`StaleOnRecord`) needs that a silence once
    there stays in the recording (`SilenceStays`). `DropoutsNoticed` and
    `TroubleReported` rest on two facts about each sample that the aggregator holds:
    it is no fresher than the recording (`HeardAsRecorded`), and one that is younger
    than the trouble tells of it (`TroubleHeard`).

- `CandidateSources_proofs`, for every launch profile, set of crashing nodes,
  timeout, plan file and set of skills, so also for profiles that run the skill
  server beside a provider, which the run leaves out:
  - `SourcesQuiet` (`QuietSources`). Inductive invariant: from age 1 of a cause on
    no view of the bridge or a provider contradicts it, because a restarted node
    starts with a closed gate (`BridgeView`, `ProviderView`); from age 2 of a halt
    on the skill server either knows of it or has no list of capabilities that
    offers motion (`ServerView`), because the registry has announced it by then or
    has taken its last list with it (`RegistryView`); so what is queued or
    remembered without standing still is as old as that, its time under way allowed
    for (`Quiet`). The second unit
    is the skill server's: its gate lets an UNKNOWN safety state pass and relies on
    the list. That the safety manager never publishes UNKNOWN is an assumption
    (`SourcesAssumption`, by `SafetyManager!Evaluated`): in a runtime that does, a
    skill server whose registry has died would go on accepting.
  - `SilenceReaches` (`SilenceReachesArbiter`), for every pair of timeouts and every
    `TransportTime`; no relation of the two timeouts is assumed. Invariant: the
    bridge's clock leads the arbiter's by no more than the time under way
    (`Clocks`), and every sample still on the way has been under way for at least as
    long as the bridge has heard nothing new (`SentSince`), so that whichever arrives
    next brings a clock that obeys the bound too.
  - `CapabilitiesCatchUp` (`CapabilitiesConverge`). Invariant: one unit after the
    last change a living registry sees the streams as they are, and once it has
    ticked after that the present list is kept, and on its way to the skill server
    or known there (`Converging`).
  - `PlaybackImplemented` (`PlaybackRefined`): the scripted provider implements
    `PlanPlayback`, for every set of plan files (`PlanFiles`: any number of waypoints
    of any integer durations, looping or not; one that is refused leaves the plan empty)
    and every tick. The content is what the loop of `advance_progress` computes.
    `ConsumedLands`: from wherever the loop enters, it leaves the plan at the place a clock on the whole
    plan shows, however many waypoints or rounds it passes on the way (those are not played, and
    the theorem does not say they are); by induction on
    the time that is left, of which `ConsumedUnfolds` takes one turn. That the place
    is determined by the clock is `OneSegment` (the segments of a plan do not
    overlap), and that a looping plan's clock may be taken modulo a round is
    `Remainder`. The invariant (`PlanInv`) says that the plan is one that parses and
    the progress a place of it or, of a plan that does not loop, its end.
  - `SourcesTyped` (`TypeOk`), which needs `PlanInv` for the progress.

- `ModeHandover_proofs`, for every timeout, queue depth, number of ticks per unit,
  set of modes that are asked for and initial mode:
  - `HandoverTyped` and `CommandsStayFresh` (`AppliedCommandFresh`), whatever crashes.
    Inductive invariant `Fresh`, as in the motion path: what is executed is within
    both timeouts once the adapter's timer has run in the unit.
  - `ModesReachMotors` (`ModeReachesMotors`), for every set of crashing nodes that
    leaves out the mode manager: a manager that dies takes the mode and its clock
    along. The velocities tell the sources apart (`TellApart`). The invariant
    (`HandedOver`) follows a change of mode hop by hop. The newest mode in the
    arbiter's queue is the active one (`Heard`), so after one unit every mode and
    every command on its way belongs to it (`Settled`). A command of an older mode
    in the adapter is therefore as old as the present mode (`Aging`), which bounds
    its life by the adapter's timeout: the slow case of `HandoverBound`. An arbiter
    that lives and publishes stops has sent something by the end of the next unit
    (`Answered`): the fast case. Either way the adapter's next timer run
    lets no other mode's command through (`Moved`). The run `mode_handover` crashes
    no arbiter: an arbiter that dies in the middle of a mode change (hazard 21) and
    the report that opens the gate on the old command (hazard 5) are covered by this
    theorem alone.

Only model-checked: liveness (`SilenceStops` and `WatchdogRecovers`). Both speak of
`WF` and so of `ENABLED`, which the prover does not handle. Every invariant and
every action property of the passing runs, and both refinements, are proved.

## 5. Plan

Done: every node that decides, offers or reports; both halt paths, the handover,
the candidate sources and the observers; the refinements of `PlanPlayback` and, by
both halt paths, of `Interlock`. Left, in this order:

1. `SafetyModeGate`: safety manager and mode manager in a loop with the arbiter,
   with changing modes. Questions: the approved-command watchdog's baseline
   survives an inactive mode; the runtime returns to autonomy by itself after a
   watchdog MRM, while `PLAN.md:215-216` at the root of the repository asks to
   *"avoid automatic return to autonomy without explicit approval"*.
2. The skill state and the evaluator's list of transitions.

Runs are kept to one per question; component runs that are about the same
question share an instance.

## 6. Running

    tlc -workers 2 -config StopPath.cfg MCMotionPipeline
    tlapm MotionPipeline_proofs.tla

`PROJECT.json` names the module and configuration of each run, the source lines of
each definition, and the mutated definition for each property.
