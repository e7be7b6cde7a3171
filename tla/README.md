# A verification project for the Elite CS ROS 2 driver

TLA+ models of the driver's core, the TLC runs that check them on small instances, and
proofs that TLAPS checks for every value of the constants. Paths are relative to the
repository: `HW` stands for `eli_cs_robot_driver/src/hardware_interface.cpp`, `CN` for
`control_node.cpp` and `TB` for `rt_timebase.cpp` beside it, `CM` for
`elite_controller_manager.hpp`, `SJ` for
`eli_cs_controllers/src/scaled_joint_trajectory_controller.cpp`.

## 1. The system

The driver is a `ros2_control` hardware component for an industrial arm. The arm runs a
script, `external_control.script`, that connects back to the driver and takes targets;
it reports its state over a second connection, RTSI. The driver runs in one process with
the controller manager.

| Part | State it keeps | Operations | Talks to |
|---|---|---|---|
| **Hardware interface, RTSI session** (HW) | `rtsi_interface_`, `rtsi_reconnecting_`, `reconnection_needed_`, `reconnect_failed_`, two clocks, `async_thread_alive_` | `read()`, `reconnectAll()`, `updateAsyncIO()`, `on_configure()`, `on_cleanup()` | the arm; three threads share it without a lock |
| **Hardware interface, command modes** (HW) | three `*_controller_running_` flags, `start_modes_`, `stop_modes_`, command buffers | `prepare_` and `perform_command_mode_switch()`, `write()` | the controller manager, which keeps the claims |
| **Hardware interface, command reset** (HW) | `command_reset_pending_`, `joint_positions_fresh_`, `runtime_state_`, `is_robot_connected_` | `read()`, `write()`, the resend | the script |
| **Asynchronous commands** (HW, `gpio_controller.cpp`) | command and answer buffers, NaN or `ASYNC_WAITING` | the GPIO services, the handlers of `updateAsyncIO()` | each other, through loaned interfaces |
| **External control script** | mode, trajectory buffer and thread, socket time-outs | `runControlLoopIteration`, trajectory threads | the driver's sockets |
| **Freedrive controller** | `is_freedrive_active_`, `is_new_request_` | `~/enable_freedrive`, `update()`, lifecycle callbacks | the hardware interface |
| **Controller stopper** | `robot_running_`, `stopped_controllers_` | `robotRunningCallback()` | the controller manager's services |
| **Control node** (CN, CM) | the control thread, the executor, `exit_code`, `hardware_shutdown_done_` | start-up, loop, orderly shutdown | rclcpp's context, the hardware components |
| **Realtime time base** (TB) | the period grid, statistics behind a sequence lock | `step()`, `record()`, `snapshot()`, `request_window_reset()` | the control thread, a reporter |
| **Scaled trajectory controller** (SJ) | scaled and unscaled time, goal, pending goal, message, hold | `update()`; the callbacks are upstream | action clients, a topic, the arm's speed scaling |
| **Dashboard client** | one SDK client | one service per command, connect with retries | the arm's dashboard server |
| Broadcasters, scheduling and memory locking, script sender, calibration, log handler, launch files | little or none | - | - |

How they interact. The control thread calls `read()`, the controllers' `update()` and
`write()`, one after the other. `async_thread_` runs `updateAsyncIO()` every 40 ms and makes
every slow call: IO, the resend of the script, freedrive, a reconnection. Lifecycle
callbacks come from a service thread; the resource manager keeps them and `read()` apart,
and nothing keeps either from `async_thread_`. Services and controllers leave commands in
plain `double`s that `async_thread_` polls.

What is hard, and what makes each part correct:

- *RTSI session*: the pointer and four flags are stored one by one while another thread
  loads them one by one. Correct: no half-built session is visible; an outage ends in a
  restored session or in an `ERROR`; `on_cleanup()` has the last word and returns.
- *Command modes*: a switch is decided on one thread and carried out on another, with
  losses and refusals in between. Correct: one mode at a time, flags that agree with the
  claims, and no target that nobody stands behind.
- *Command reset*: the arm may be moved by hand while no session drives it. Correct: the
  next session does not bring it back to a target from before.
- *Asynchronous commands*: time-outs race late answers, a command written while the
  previous one is handled disappears, a call that throws leaves its command for the next
  round. Correct: an answer belongs to its question, no command that was dealt with is taken
  again, and none is put together of two.
- *Script*: trajectories finish, time out, are cancelled and replaced. Correct: exactly one
  result each, and every exit leaves the arm stopped.
- *Freedrive, stopper, control node*: requests, list answers and shutdown steps that arrive
  in an order nobody planned. Correct: the arm's mode follows the last request; what was
  stopped is restarted, and nothing else; the hardware is stopped once and the process ends.
- *Time base*: torn copies, overruns. Correct: snapshots are consistent, deadlines stay on
  the grid.
- *Scaled trajectories*: a goal is accepted, cancelled or replaced while the realtime thread
  ends another. Correct: every goal gets one result, one it has earned, and no motion
  outlives its goal.

`PROJECT.json` lists each hazard at its line.

## 2. Modules

### RtsiReconnect - three threads and one session

One action per step that another thread can observe: a load, a store, a change of the
pointer, a blocking call. `rt` and `async` are the program counters of `read()` and of
`async_thread_`, `life` is the callback a lifecycle thread is in.

| Code | Actions |
|---|---|
| `read()`, HW 787-855 | `ReadCheckFlag`, `ReadCheckPointer`, `Receive...`, `ReadTestArmed`, `ReadArms`, `ReadGivesUp`, `ReadToleratesOutage`, `ReadResolves`, `IngestCrashes` |
| the second receive of `read()`, HW 1010-1041 | `PowerOn...` |
| `updateAsyncIO()`, HW 1265-1314 | `AsyncRound`, `AsyncDecides`, `AsyncGivesUp`, `ReconnectResolves` |
| `reconnectAll()`, HW 632-731 | `ReconnectRaisesFlag` to `ReconnectThrows` |
| the rest of a round | `AsyncPerformsIO`, `AsyncFlushes` |
| `on_configure()`, `on_cleanup()` | `BeginConfigure`, `ConfigureSucceeds`, `ConfigureFails`, `BeginCleanup`, `CleanupStops` |

A call on an object that another thread destroyed, or is still constructing, is undefined
in C++. Here it succeeds, fails or ends the process (`crashed`), and the choice is open.
`torn` remembers that a session was torn down under a `read()` past its guards, or after it
had found the session alive; the two conditional properties hold of the histories without.
The recipes are reset with the session, so a `read()` that takes its frame apart meanwhile may
crash as well (`IngestCrashes`). An exception of the driver's `connect()` (713), outside the `try` of
`reconnectAll()`, ends the round with `reconnection_needed_` as it was (`ReconnectThrows`).

Assumptions. `isStarted()` of the SDK stays true for a session whose socket died. An
exception that leaves `read()` takes the component out of service, as the resource manager
does. The link being up lets a connection attempt succeed. Resource-manager locking keeps
`read()` and the lifecycle callbacks apart.

### CommandModes, MCCommandModes - switching controllers

`Prepare` and `Perform` are the two halves of a switch. `Refuses` collects the three grounds
of `prepare_command_mode_switch()`; a refused switch leaves its lists behind, as in the
code. `active` and `request` are what the controller manager knows; `Admissible` is what it
asks for (it never lets two controllers claim one interface). `running` holds the modes
whose flag is set. Of the command buffers the model keeps who wrote the first joint's entry
last, which is what "whose target does `write()` send" needs. `Lose` is an `ERROR` of
`read()`; `Configure` is the reset at the head of `on_configure()`, which leaves the freedrive
commands alone.

Abstracted: no prepared switch survives `on_configure()`, since the controller manager deals
with it in its next cycle and configuring takes at least one retry interval. Whether the
task executes when the freedrive handlers look is a free choice. A call of theirs that throws
leaves the command in its buffer (`AsyncStartThrows`, `AsyncEndThrows`).

The decisions look at the first joint only, as in the code: a mode that runs on other joints
alone is invisible to `prepare_command_mode_switch()`, so `ModesExclusive` says nothing of such
controllers. No shipped configuration has one.

### CommandReset - where the first target comes from

A pose or a target is `current` if nobody moved the arm by hand since it was measured,
`stale` otherwise. The realtime cycle is `ReadFrame` or `ReadFails`, `Update`, `Write`; the
resend, the initial send and the driver's part of `reconnectAll()` are actions of
`async_thread_`, split where the order of the script, the flag and `reconnection_needed_`
matters. `Holds` says whether the active controller writes its own setpoint in every cycle
(a controller that follows a trajectory or holds its last point) or writes only what a new
goal starts with (one that waits, or that the controller stopper has stopped).

Abstracted: moves by hand fall between two cycles, and not after a script was sent. A
script takes about a second to connect back: at least one whole cycle, and not before the
call that sent it returned. One position controller stays active throughout; other modes
do not follow absolute targets. How far is "far" (the script's threshold) is not modelled.

### AsyncCommand - a service and the thread that serves it

`service` is the place of the handler, `async` and `at` the command that `updateAsyncIO()` is
at and the point it has reached there. The handler's loads and stores are `Begins`, `Writes`,
`WritesRest`, `PollEnds`, `Concludes`; a resend goes on with `TaskAwaited` and `TaskDwells`. The
thread tests a buffer, carries out what it found and empties the buffer in separate steps,
because a handler may write in between:

| Code | Actions |
|---|---|
| the digital outputs and the tool voltage, HW 1118-1198 and 1236-1245 | `OutputTested`, `VoltageSent`, `OutputEmptied`, `OutputLoads` |
| the analog outputs, HW 1200-1234 | `AnalogTypeTested`, `AnalogTypeEmptied`, `AnalogValueTested`, `AnalogEnters`, `AnalogRefused`, `AnalogLoads` |
| their flag, HW 1347-1356 | `OutputStores`, `OutputsJudged`, `OutputsConfirmed` |
| the speed slider, HW 1358-1367 and 1475-1482 | `SliderTaken`, `Flushes` |
| the resend, HW 1369-1412 | `ResendStops`, `ResendConfirms`, `ResendSends`, `ResendThrows` |
| hand back, payload, zeroing, HW 1414-1444 | `CommandTaken`, `CommandAnswered`, `CommandEmptied`, `CogEmptied`, `NothingToDo` |
| an exception that `asyncThread()` catches, HW 748-762 | `RoundAborts` |
| `read()`, HW 1018-1040 | `Reads`, `PowerOn` |

A request is named by its number, and writes that number where the code writes a value, so
the model can tell what the code cannot: whose command is in hand and whose answer in the
flag. Three things are remembered of a history, each a condition some property needs:
`clean`, nothing earlier was under way on the request's channel when it began; `expired`, the
handler stopped polling before it was answered; `crossed`, the channels on which a request
began unclean. With the default of 10 retries the handler polls for 0.55 s, with the 200 of
the shipped configuration for about ten; the stop of a resend alone may take five. So
requests do expire, and the next one does begin unclean.

What was found is not always done with. A digital value is emptied as it is looked at,
whatever becomes of it. An analog value leaves its buffer only if the recipe takes it: a refused
one ends the function at 1215 and is found again in the next round. A call of the driver (1240,
1415, 1428, 1441, those for freedrive) may throw; only the resend has a handler, for
`EliteException` (`ResendThrows`), and every other exception ends the round with nothing answered and
nothing emptied. The command is tried again 40 ms later, and what lies behind it waits; if the
call throws every time, for ever. So may the sending of the recipe, and then a speed slider
that is in it is never answered. A command is *settled* once its call has returned, or has thrown into
the handler of the resend, or once its value has entered the recipe or, if digital, was looked at: that is what `NothingTwice` and `NothingDropped` are about. An analog
command is written value first and type second, and found type first and value second, so half
of it may be carried out in one round and the rest in the next. No property says otherwise.

Abstracted: values, pins and refused ranges (a refused request touches nothing). A setting
enters the recipe or not. `setValue()` is taken not to throw. Exceptions ahead of the
outputs (the configured voltage at 1340) only delay the round. The three digital
groups are one channel: their code is the same, and they share the flag with the analog output and the
tool voltage. One analog pin stands for both. A script that was sent comes up at any time or never. The configured tool
voltage and the initial script, which no service asks for, are left out, as are freedrive's
commands (`CommandModes`) and the reset that goes with a resend (`CommandReset`).

### ControllerStopper - exchanges that nobody waits for

`phase` is the place of the constructor, `running` and `stopped` are the node's members, `asked`,
`listed` and `switches` the requests and answers on their way. The callback sends a request and
returns (`FindAndStopControllers`, `StartControllers`); the answer to the first is another
callback (`ControllersListed`), the answers to switches are only logged. The constructor is
`ModeAnswered` to `StartupEnds`; wherever it waits it handles callbacks, except in its sleep
(`Spins`). The controller manager (external) answers each service in order, and refuses a
STRICT switch as a whole (`Accepts`). `found` is what was active when the last stop began;
`disturbed` says that since then a status message met an unfinished exchange, or somebody else
switched other than while the task runs and all is answered.

Abstracted: conflicting claims (a start that is refused for one needs a foreign switch, which
is `disturbed`). `stopped_controllers_` may hold a name twice, which the controller manager ignores, so it is a set. The
subscription holds one message and misses what was published before it.

### ExternalControlScript - the threads on the arm

`main` is the place of the main thread (`runControlLoopIteration()`), `thread` that of
`trajectoryThread()`, `mover` the servo or speed thread. The main thread reads a command,
stops the outgoing mode, enters the new one and applies the command; a drain
(`trajectoryClearPoints()`) is a place of its own where it waits point by point. The script's
variables keep their meaning (`num` is `trajectory_point_num`, and so on). `reverse` and `wire`
are the two sockets, which nothing orders with each other. A point carries no id in the
protocol; the ids on `wire`, `reports`, `cut`, `timedOut` and `mixed` are history.

The host is free: any command at any time, a START before the last trajectory is over.
`habit` says what it does on purpose. An orderly host awaits a result before it starts a
trajectory, a hasty one does not; both write a point before the script's time-out. The points
of a late one may come at any time, which `doc/KnownIssues.md` concedes to be misread.

Assumptions. `stop_thread()` ends a thread between two statements, and not inside a section
that holds a lock: if it may, the script can be left with a lock that nobody releases.
`stopj()` and the moves return. `halt()` ends every thread. A host that has asked for anything
but a NOOP writes no more points of its trajectory.

### Freedrive, MCFreedrive - the modes with their slowest controller

Extends `CommandModes` with the controller (`wanted` is `is_freedrive_active_`, `fresh` is
`is_new_request_`), with what `write()` and `async_thread_` send, and with the arm. Every action
is one of `CommandModes` with its effect on the new variables, or touches only those; that
this really is a refinement is a property of the run (`RefinesModes`) and a theorem.

| Code | Actions |
|---|---|
| `~/enable_freedrive`, `freedrive_controller.cpp` 40-56 | `Enables` |
| `update()`, 119-142 | `TakesStartBack`, `CommandsStart`, `CommandsEnd` |
| `on_activate()`, `on_deactivate()` | `Switches`, `Loses` |
| the handlers of `async_thread_`, HW 1446-1473 | `SkipsStart`, `StartCallBegins`, `SendsStart`, `EndCallBegins`, `SendsEnd`, `CallReturns`, `CallThrows` |
| the dispatch of `write()`, HW 1065-1078 | `WriteSends` |
| the power-on edge, HW 1010-1027 | `PowersOn` |

The arm leaves freedrive with a message of any other mode. Messages arrive in the order in
which they are sent, or do not arrive: the handlers test `runtime_state_` only, which may be
PLAYING before the script has connected its sockets. `freedrive_activated_` is set whatever
`writeFreedrive()` returned (1453-1454), nobody reads `freedrive_async_success_`, and the NOOPs that follow
do not start freedrive; `lost` is history and says that the last START had this fate. A call that throws
(`CallThrows`) may have sent its message or not. It sets no flag, leaves its command in
place and is made again in the next round. The SDK call of a command is a send and a return with cycles in between;
the tests of the start and of the end command may be taken in either order, since
`async_thread_` may be preempted between them. `excused` is history: it names the
races that the code leaves open, and is cleared by the next END or activation.

### Timebase, PeriodStats, AtomicStats, ControlLoop, MCControlLoop - the period grid

`Timebase` has the pure part: the arithmetic of normalised timespecs with the truncating
division of C++ (`AddNs`), classification, `ResyncToGrid`, `NextDeadline` (`step()`), clamping,
what one cycle adds to the statistics (`Fold`) and `Summarize`.

`PeriodStats` is the sequence lock. `record()` is `RecordBegins` (seq becomes odd), `RecordFolds`
(the window asked for is loaded), `RecordStores(f)` per field in any order, `RecordEnds`;
`snapshot()` is `SnapshotBegins`, `SnapshotLoads(f)` in any order, `SnapshotEnds` with its retry;
the timer's callback ends with `Reports`. Fields are relaxed atomics between fences, hence
"any order" on both sides; stores of `seq` and the fences are taken as sequentially consistent.
The counter wraps at `SeqValues`; a pass of `snapshot()` is over before it has gone round, which is
2^31 cycles. `AtomicStats` says what this promises: records, snapshots and resets that take
place at once. `ControlLoop` adds the cycle of the control thread (`Wakes`): when it wakes up
(a little early, since the kernel sleeps on another clock, late, or late by periods), its next
deadline, and the sample it records.

### ControlNode - start-up, loop, orderly shutdown

`main` is the place of `main()`, `control` that of the control thread, `caller` the thread in rclcpp's
`Context::shutdown()`, `hook` the place in `orderly_hardware_shutdown()` (CM 53-97). The hook makes a
list of states and takes each component down by it (`HookLists`, `HookTakes`, `HookDeactivates`,
`HookCleansUp`), while the loop goes on, error handlers take components down themselves
(`ComponentFails`) and services change states (`Operates`, until the list is made). `Terminates` is the
terminate handler, which ends the process anywhere.

Of rclcpp (external): one thread at a time is in `Context::shutdown()`; it runs the hook, then
makes the context invalid, which ends `rclcpp::ok()` and the spinning. Left out: a lifecycle
request carried out after the hook has listed the components, which nothing in the hook would
notice; a shutdown in the instant in which the hook is being registered; an exception of the
last `rclcpp::shutdown()` (CN 376-380), which changes the exit code.

### ScaledTrajectory - time that runs as fast as the arm

`Update(scale, e)` is `update()` (SJ 35-270) up to its stores: it takes a new message unless its goal
is pending (`Adopts`), samples a whole unscaled cycle after the last scaled time, checks tolerances
and goal time, and decides (`Decides`). The stores that follow are steps of their own
(`ReleasesGoal`, `ClearsPending`, `HoldsArm`; SJ 213-219, 227-233, 240-247, 254-260), since nothing
keeps a callback from coming in between; `storing` is the next one, and `raced` has the goals that
were being accepted then. `left` is the scaled time to the last point, `lag` how
far the scaled time is behind the other: `time_difference` (SJ 121) compares the unscaled time
with the trajectory's, so each stretch at reduced speed adds to it. The callbacks of the upstream
controller (external) are steps of one store each (`AcceptMarks` to `AcceptActivates`,
`CancelEnds`, `TopicReplaces`, `Deactivates`).

Abstracted: joint values are three outcomes of the tolerance checks. What `update()` reads it
reads at once. One callback runs at a time, at most one `update()` begins in it, and clients do
not mix goals with the topic.

## 3. What the runs check

| Run | Instance | Shows |
|---|---|---|
| `rtsi_reconnect` | `Grace` 2, `RetryInterval` 1; 25 000 states | `SessionInv`, `PartialInterfaceHidden`, `CleanStopSticks`, `OutageReported`, `SessionRestored`, `JoinReturns` |
| `rtsi_teardown_race` | the same | **violated** `NoReceiveDuringTeardown` |
| `command_modes` | two joints, five controllers; 34 000 states | `ModesInv`, `NoAbandonedTarget` |
| `freedrive` | one joint, three controllers; 439 000 states | `ArmFollows`, `RefinesModes`, `StopObeyed` |
| `command_reset` | `Holds` FALSE; 22 000 states | `ResetInv`, `NoSnapBack`, `ResetInTime` |
| `async_command` | two requests on all eight channels; 5 000 000 states | `BufferInv`, `AnswerIsOwn`, `NothingTwice`, `PayloadWhole`, `ResendConfirmed`, `NothingDropped` |
| `controller_stopper` | three controllers, one of them consistent, three changes of the status, one foreign switch; 67 000 states | `StopperInv`, `AsFound`, `StartupReturns` |
| `external_control_script` | two trajectories of up to two points, a time-out of one step, servo mode; 661 000 states | `ScriptInv`, `OneResult`, `OneMotion`, `OwnPoints`, `LoopReturns`, `TrajectoryEnds` |
| `control_loop` | three cycles and two reports, four fields, a counter of six values; 1 020 000 states | `StatsInv`, `Paced`, `RefinesAtomic`, `ReportExact` |
| `control_node` | two components; 14 000 states | `NodeInv`, `ReleasedAtExit`, `SignalEndsNode` |
| `control_loop_death` | one component | **violated** `LoopDeathEndsNode` |
| `scaled_trajectory` | two goals, one topic trajectory, one length; 580 000 states | `GoalsInv`, `ResultsEarned`, `NoStaleMotion`, `GoalsEnd` |

What the violated ones say of the code:

- `NoReceiveDuringTeardown`: the guards of `read()` are two loads followed by a call, and
  `reconnectAll()` may come in between, so the header's account of `rtsi_reconnecting_`
  promises more than the guard gives.
- `LoopDeathEndsNode`: an exception in the control loop raises SIGUSR1, whose handler sets the exit
  code, and leaves the loop. The comment at CN 65-66 says that the loop then calls
  `rclcpp::shutdown()`; it does not, so the executor spins on and the process stays up without
  a loop until it gets a signal. `SignalEndsNode` shows that a signal does end it.

What the conditions in the other properties stand for. Each names something the code does not do,
and each is needed: without it the run fails.

- *Freedrive* (`excused`): an IDLE that `write()` sends between a START and the return of its call
  voids the start (HW 1453); an END that overtakes its start, or that arrives while an earlier END is
  in its SDK call, is cleared with it (HW 1472); a start command survives a loss of the component
  and the next `on_configure()` (HW 344), and a deactivation. In each the next END heals it, and
  with no freedrive mode running `write()` sends IDLE, so the arm does not stay in freedrive.
- *Freedrive* (`lost`): a START that does not arrive is not repeated. The driver then believes in a
  freedrive that the arm is not in, until the next stop or switch; `ArmFollows` shows that a lost START is
  the only such case, and that a call that throws is not one.
- *Command reset* (`Holds`): a controller that writes its setpoint in every cycle restores it
  one cycle after the reset. If the cycle of the reset gave the session its first target, the
  script vets that one and follows the next.
- *Asynchronous commands*: without `clean` a request reads the answer to an earlier
  one; without `~expired` it reports a success nobody had, since `ASYNC_WAITING` is 2.0 and is
  cast to bool (`gpio_controller.cpp:317`); without `~unsettled` (the stop was not
  confirmed within 500 ms, or a booting script was not reached by it) a resend takes the old
  script for its own; in a `crossed` channel a command vanishes and a payload may be put together of
  two. The outputs are left out of `AnswerIsOwn`, because a round stores the flag it loaded
  before, over a mark that came in between; the digital ones are left out of `NothingDropped`,
  because they are emptied untested. `NothingTwice` is about commands that were dealt with: a
  refused analog value, and a command whose call threw, are taken again by every round until
  they are through.
- *Controller stopper* (`disturbed`): what to restart is known only once `list_controllers` is answered.
  If the status is true again by then, nothing is started, and the answer has everything
  stopped under a running task; the next stop forgets what that was.
- *Script* (a host that awaits results): a trajectory that timed out abandons its points after
  `stopj()`. A START that arrives earlier stops the thread there, and drains the new trajectory's points
  in place of the old one's.
- *Control loop*: a report's extremes are those of the cycles that *began* after the last
  reset. CN 202-203 puts the gap between the two sets at "at most one cycle"; a reporter preempted
  between its snapshot and the reset misses as many as run meanwhile.
- *Scaled trajectories* (`raced`): a goal accepted while `update()` ends another one is released
  with it and never gets a result. One accepted while `update()` holds the arm has its message
  replaced by the hold and may be reported as reached without a motion: the test of
  `rt_has_pending_goal_` at SJ 250 ("we need to ensure that there is no pending goal -> we get a
  race condition otherwise") is made before the store. No goal but that one is harmed. The `lag` in `ResultsEarned`: `goal_time` counts from the end of the trajectory at full speed. An arm that was slowed down by more than that is late the first time
  it is sampled at the end.

*Bounds.* In `RtsiReconnect` the code compares the two clocks with one threshold each, and stops them there;
`Grace` 2 and `RetryInterval` 1 leave room for a retry within the grace period, for an expiry
before and after a retry, and for none. Three changes of the status give a
stop that overlaps a restart and a stop after both; two controllers to stop tell a set from one
of its parts. Two joints tell "the first" from "another"; three
whole-arm controllers, one per mode, and one controller per joint give every combination
the three grounds for refusal distinguish. `CommandReset` has no bound but `boot`, which
stops counting where it no longer matters. A buffer or a flag relates a
request to the one before it on the same channel, and the outputs to one another through their
flag, so two requests on any of the eight channels give every overlap of two. The script only ever relates a trajectory to the
one after it, so two are enough, the second with the remains of the first; two points tell
"some are left" from "the last one"; a time-out of one step lets a wait end before and after
it. The speed threads differ from the servo thread only in that nothing is vetted. `Freedrive` has one controller for each mode; all that it adds
looks at one controller, and the modes on several joints are the matter of `command_modes`. In
`ControlLoop` a second of 10 ns, a microsecond of 3 ns and a period of 4 ns make every carry,
rounding and clamp happen; lateness is -1, 3 or 9: early, within a period, over two of them.
A counter of six values wraps with the third cycle. Three cycles and two reports give a report before the first cycle,
one that is stale, and a window of more than one cycle (the proofs have no bounds). Two
components tell "the one at hand" from "one still to come". Two goals give every overlap of one
with its successor; `GoalTime` 1 is half a cycle, so that an arm at full speed can be in time one
cycle and late the next, and one that was slowed down late at once; length 1 is shorter than a
cycle, and the clocks stop at `MaxLag` 5, where no comparison can change
any more (an assumption in the module, which the run evaluates). No run uses symmetry: the first joint is special
and the controllers differ.

*Deadlock* is checked in every run but those of the script and of the node, which really end;
of the stopper, which has nothing to do when the status stays; of `AsyncCommand`, whose
script may be gone when no request is left; of `ControlLoop`, whose cycles and reports are
bounded; and of `ScaledTrajectory`, where an inactive controller with no goals left may stay so.

*Fairness.* In `RtsiReconnect` the control loop cycles, `async_thread_` is scheduled, a
callback that has begun runs to its end, time passes. Each is a thread that never waits for
another, but for the join. Nothing is assumed of the network, of the arm or of whoever
configures the component, and of the driver's `connect()` that it does not throw for ever: each time it
does, a session that is up is torn down again, and without the assumption `SessionRestored` fails. `SessionRestored` is stated as "again and again", not as "from some
point on": nothing in the code orders a `read()` that was held up between its failed receive
and its stores against `ReconnectResolves`, so a late arming can have a good session rebuilt.
The 40 ms sleep makes it rare; the model has no such times.
In `ExternalControlScript` the main thread and the trajectory thread are scheduled. Nothing is
assumed of the host: it may stop commanding, and never write a point. In `ControllerStopper` the node is scheduled
and the controller manager answers; nothing is assumed of the status. `StartupReturns` starts
where no earlier exchange is under way: a status that goes false, true and false while the
constructor awaits the arm's mode can have everything stopped before it looks, and then it
loops until something else is started. In `Freedrive` the controller's
cycles and `async_thread_` go on (weak fairness); `write()` is strongly fair, since a task that
executes does so for cycles on end, in which messages of `write()` arrive, and `StopObeyed` asks that it executes again and again. In
`ControlNode` every thread goes on: sleeps, cycles, the hook's calls and the steps of `main()` end;
nothing has to fail and nobody has to send a signal. In `ScaledTrajectory` a callback that has begun
ends, `update()` makes its stores, and the arm, which may be slowed down or stopped for any time, runs at full speed again
and again. `CommandModes`, `CommandReset`, `AsyncCommand` and `ControlLoop` state safety only and
assume no fairness.

Each checked property has a mutant in `PROJECT.json`: a plausible slip in one mapped
definition (a variant kept beside it in the module) that the run then refutes.

## 4. What is proved

| Module | Theorems | Assumptions |
|---|---|---|
| `RtsiReconnectProofs` | `SessionInvariant`, `PartialInterfaceIsHidden`, `IoInterfaceIsLive`, `CleanStopHolds`, `GraceIsKept`, `JoinIsShort` | `Grace` and `RetryInterval` are positive |
| `CommandModesProofs` | `ModesInvariant`, `ModesAreExclusive`, `FlagsFollow`, `TargetsAreOwned`, `FreedriveImplements`, `FreedriveModes`, `FreedriveInvariant`, `ArmFollowsRequests` | the first joint is a joint; a controller claims one mode; freedrive claims every joint, and one controller has that mode |
| `CommandResetProofs` | `ResetInvariant`, `ArmDoesNotSnapBack`, `ResetsAreInTime`, `ResetsAreFresh` | `~Holds`, since with `Holds` the second is false; none for `ResetsAreFresh` |
| `AsyncCommandProofs` | `BuffersInvariant`, `CarriedOutOnce`, `AnswersInvariant`, `AnswersAreOwn`, `ApartInvariant`, `PayloadsAreWhole`, `NothingIsDropped`, `RenewedInvariant`, `ResendsAreConfirmed` | the channels are channels; the bound on the requests is a number |
| `ControllerStopperProofs` | `StopperInvariant`, `StoppedAndRestarted` | the consistent controllers are among the loaded ones; the bounds are numbers |
| `ExternalControlScriptProofs` | `ScriptInvariant`, `OneMotionAtATime`, `OneResultEach`, `PointsInvariant`, `PointsAreOwn` | the time-out is a number; motion modes are servoj, speedj, speedl |
| `ControlProofs`, of `ControlLoop` | `StatsInvariant`, `Refinement`, `PacedInvariant`, `LoopPaced`, `LoopRefines`, `ReportInvariant`, `ReportsAreExact` | the units and the period are positive; the counter has an even number of values, at least four; no wake-up is earlier than the slew |
| `ControlProofs`, of `ControlNode` | `NodeInvariant`, `HardwareReleased`, `HookIsShort` | the components are finitely many |
| `ScaledTrajectoryProofs` | `UpdateInvariant`, `GoalsAreKept`, `ResultsAreEarned`, `NoMotionIsStale` | the clocks stop where no comparison can change; goals, topics and the two marks are distinct; `ResultsAreEarned` alone: `CmdTimeout = 0`, as shipped |

*RtsiReconnect.* `PartialInterfaceHidden` is not inductive: a step of `reconnectAll()` keeps it
only because of where the thread is. `PointerInv` ties the thread's place to the pointer,
`FlagInv` ties it to the flag, `CallbackInv` says that a stopped arm has no `async_thread_`,
and `TeardownInv` says that, in histories without a torn-down session, a session that is gone
keeps `reconnection_needed_` set and `read()` outside `receiveData()`. Each action is checked
against each part it can disturb.

*CommandModes.* `ModesExclusive` needs that the flags are what the active controllers claim on
the first joint, and `FlagsFollowClaims` needs that a prepared switch is admissible, was not
refused, and has the lists `Perform` will read (`RequestInv`). `SwitchedFlags` is the heart: the
flags after a switch that was not refused are the modes on the first joint of the
controllers active after it. It holds for any number of joints and controllers.

*CommandReset.* `VettingInv`: while a session boots its first target is still to be vetted;
once vetted the target is current, and so is every pose that can replace it. `FlaggedInv`: a
session that a reset was flagged for has a current target or the reset still to come, and the
first frame carries it out (`ResetInTime`). Without a frame, `write()` goes on with the runtime
state of the last one, and may send the old target to the new session, which refuses it.

*AsyncCommand.* `NothingTwice` needs `BuffersFresh`: a buffer whose command was already dealt with
is the one that the thread is at, and the next step there empties it. A command that was refused or
whose call threw is not dealt with, and the invariant lets it lie. `AnswerIsOwn` needs three
things of a clean request: that its number is found on its own channel only (`Places`), that
nothing but it is found there (`HasChannel`), and that the flag holds its outcome, after which
nothing is left to be carried out (`Answered`); so the answer the handler concluded from is
still the answer when it reports it (`Concluded`). The four are proved one after the other,
each action against each; the bound on the requests plays no part.

The other three properties are about what overlapping requests can spoil. `Apart` speaks of a
channel whose requests never overlapped: what is about to be emptied there was dealt with, and while a
handler writes, the thread is not past its test; so nothing is emptied that was not dealt with
(`NothingDropped`), whichever call throws. A payload is two buffers, and needs `Matched` besides: a handler writes the
centre of gravity last and the thread empties it last, and it takes the two only when it finds
both, so they are of one request wherever they can be found (`PayloadWhole`). A request that overlaps
an earlier one makes its channel `crossed`, and the two claim nothing of it any more. `Renewed`
follows a clean resend whose stop was confirmed: there is no task when the script is sent, and
none in the last frame either; hence what is seen to execute is the new one (`ResendConfirmed`).

*ControllerStopper.* `AsFound` speaks of the end of an exchange, so its invariant lists the
points on the way (`Settled`, `Stopping`, `Starting`, `StartingUp`): which queue holds what, and
what that leaves of `stopped` and `active`. A step that is none of the exchange's own leads
out of it, by `disturbed`.

*ExternalControlScript.* `MotionInv` ties each thing that moves the arm to the mode, and says
that nothing moves while a mode is entered. `ReportInv` reads `trajectory_active` as "a result is
owed": the flag holds exactly while the thread may still report, and the STARTs in flight are
counted. `PointsInv` holds for an orderly host: all points in sight belong to the trajectory
it started last, and `Len(wire) + left` never exceeds what the script still counts; so `num = 0`
at a report means that no point is left, and the next trajectory begins with an empty socket.
`TakenIsOwn` is the step that needs it: whoever takes a point takes one of the current
trajectory.

*Freedrive.* `FreedriveImplements` maps each step to one of `CommandModes` or to a stutter, so all
that is proved of the modes holds of the composition (`FreedriveModes`). `ArmFollows` speaks of a
quiet moment; `WayInv` says what leads there: an accepted start is a command, a call, or a mode that
is up on both sides, or on the driver's side after a lost START (`OnWay`); an accepted stop is a command, or nothing is left of the start
(`OffWay`). `EndingInv` is the one fact about calls it needs: an END in its call is the last command
there is.

*ControlLoop.* `StatsInv` is the argument of the sequence lock: the counter is odd exactly during a
record, it is where the stores since the first load have brought it, and while there was none the
copy agrees with the fields; so a counter found unchanged, which cannot have gone round, means a
copy that is not torn. The refinement places a record where it has loaded the window
asked for, and a snapshot where it finds the counter unchanged; the fields are any set. `LoopPaced`
rests on lemmas about the timespec arithmetic (`AddNsCorrect`, `ResyncCorrect`, for a C++ division that
truncates) and on `Ahead`: the deadline is ahead of every earlier wake-up by the periods of the
cycles since, which a late wake-up uses up and an overrun restores.

`ReportExact` speaks of a sum over all cycles between two snapshots, which no induction over data
is needed for: `ReportInv` carries it from cycle to cycle. `TallyInv` says that the statistics,
as soon as they are folded, count the cycles so far, and that the two last snapshots count no
more. `SumInv` says of the previous snapshot, the current one and the statistics that from each to
the next the sum is that of the gaps, up to half a unit for each; rounding keeps this for one more
cycle (`RoundingCorrect`, `CloseAdds`), a snapshot and a report chain the two parts
(`CloseTransitive`). `WindowInv` says that the window last asked for has been applied exactly if a
cycle was folded since, and that then the maximum is that of the cycles since; of a
snapshot that is not reported yet it says the same. `StatsInv` is used for the two steps that depend on
the lock: an accepted copy is what was folded (`AcceptedCopy`), and a record ends with all of its fields
stored (`StoredRecord`); `PacedInv` for the measured period of a cycle, which is the gap between two
wake-ups.

*ControlNode.* `ReleasedAtExit` needs `ProgressInv`: a component that the hook has passed is out of
service, one still to come is by the list. That holds although the list may be old: what left service by itself stays
out, and nothing but the hook brings anything back; the hook does (a component lost after it was listed
active is configured once more) and then cleans it up. `HookInv` and `MainInv` say that with a
controller manager no context becomes invalid before the hook is through, and that `main()`
returns only with an invalid context and a loop that has ended.

*ScaledTrajectory.* The invariants are stated over what is shared once `update()` has made its
stores (`Active`, `Pending`, `Message`, `Holding`). Its stores leave these as they are (`StoresKeep`),
and what a callback stores in between has no effect on them where `update()` will overwrite it, so that
only the goal it is about can suffer. `GoalsInv` is not inductive: it depends on where a callback stands between its
steps. `AcceptInv` says that a goal being accepted is neither the active one nor followed, that a mark
keeps `update()` from its message, and which of the steps are done; `MessageInv` that the last message is
of the active goal, or that a callback is about to replace it; `EndInv` bounds how far
the clocks may be past the end of a trajectory, which is the step to a late result being earned.
`Decisions` lists what `update()` may decide, and the steps are proved against it. With a
`CmdTimeout` the branch at SJ 128-135 sets the hold and leaves the goal active (section 5). So the
clause of `GoalsInv` that nothing holds the active goal is conditional on `CmdTimeout = 0`, the value
shipped, and `ResultsAreEarned` assumes it; all else is proved for any time-out.

`ControlProofs` holds the theorems of the two modules that model CN, which share no variable.

*Progress.* Of three liveness properties the safety half is proved, as action properties that no run
needs to check besides (`GraceRunsOn`, `JoinAdvances`, `HookAdvances`). `GraceIsKept`: nothing begins the
grace period of an outage anew while it lasts, since `read()` arms a reconnection only if it found
none pending (`ArmInv`); what `OutageReported` adds is that time passes and the threads run.
`JoinIsShort` and `HookIsShort` bound by a number (`StepsLeft`, `HookLeft`) how many steps
`async_thread_` has left once it is told to end, and the hook at any time: their own steps lower
it, and no step of anyone else changes it. `JoinReturns` and `SignalEndsNode` add that these steps
are taken.

*Model-checked only*: the liveness properties, since TLAPS does not do fairness and `ENABLED`.
These are `OutageReported`, `SessionRestored`, `JoinReturns`, `StopObeyed`, `StartupReturns`,
`LoopReturns`, `TrajectoryEnds`, `SignalEndsNode` and `GoalsEnd`. Every other property of a passing run
is stated by a theorem.

## 5. What is not modelled

- *Dashboard client*: some thirty services that forward one call each, two timers and a flag, all
  on one thread. After its first grace period it gives up for good, and a later successful
  `~/connect` arms no health check; that is said here rather than modelled.
- *Freedrive's* `on_cleanup()`, which writes through a reference to an interface released at
  deactivation: the lifetime of loaned interfaces belongs to the controller manager.
- *Asynchronous commands*: the configured tool voltage, refused ranges, the publishers of the GPIO controller.
- *Control node*: an `on_deactivate()` of a component that fails in the hook. The component of this
  repository has none of its own.
- *Script*: the thread of script commands (payload, tool voltage, force mode).
- *Scaled trajectories*: interpolation, PID and joint values, callbacks between two reads of
  `update()` (SJ 67-73). The
  branch at SJ 128-135 logs "Aborted due to command timeout", but the goal it meets is not aborted:
  with the hold set, the next checks find nothing outside, and it ends as a success. `cmd_timeout` is 0 as
  shipped, and so in the run. `update()` also integrates unclamped differences of ROS time, although
  CN 316-321 clamps the period that the controllers are given.
- Continuous motion, calibration, message and file formats, the kernel's scheduling and memory
  calls, launch files, the mocked and simulated hardware; in the modelled parts: the contents of
  frames other than the flags above, logging, the values of IO, firmware version checks.

## 6. What could follow

1. A composition of `CommandReset` with a mode switch during a dropout
   (`perform_command_mode_switch()` does not test `joint_positions_fresh_`).
2. `ToolVoltage`: the configured voltage and the commanded one, across dropouts that make
   `read()` see a task start again.
