---------------------------- MODULE ControlNode -----------------------------
(***************************************************************************)
(* The life of the control node: main() creates the controller manager,    *)
(* starts the control loop and spins; a signal, an exception in the loop   *)
(* or one in the executor ends it.  However rclcpp is shut down, its pre-  *)
(* shutdown hook takes the hardware components out of service first, while *)
(* the loop and the executor still run.                                    *)
(*                                                                         *)
(* Of rclcpp: one thread at a time is in Context::shutdown(), which runs   *)
(* the hook, then makes the context invalid, and does nothing if it is.    *)
(* Nothing can be created in an invalid context, and the hook is not       *)
(* registered in the instant between the hooks and the end of the context. *)
(***************************************************************************)
EXTENDS Naturals, FiniteSets

CONSTANT Components      \* the hardware components of the robot description

ASSUME ComponentsAssumption == IsFiniteSet(Components)

VARIABLES
  main,          \* where main() is
  exit,          \* the process is "running", has "returned" or was "terminated"
  exitCode,      \* exit_code, or what main() or the terminate handler returns
  created,       \* the controller manager exists and has registered its hook
  control,       \* where the control thread is
  context,       \* "valid" as long as rclcpp::ok()
  signalled,     \* SIGINT or SIGTERM has come
  caller,        \* the thread in Context::shutdown(), or "none"
  hookDone,      \* hardware_shutdown_done_
  hook,          \* where orderly_hardware_shutdown() is
  listed, todo,  \* the states it was given, the components it has not looked at
  at,            \* the component it is at
  component      \* the lifecycle state of each component

process  == << main, exit, exitCode, created >>
shutdown == << caller, hookDone, hook, listed, todo, at >>
nodeVars == << process, control, context, signalled, shutdown, component >>

Configured == {"active", "inactive"}
Released   == {"unconfigured", "finalized"}

NodeInit ==
  /\ main = "creating" /\ exit = "running" /\ exitCode = 0 /\ created = FALSE
  /\ control = "none" /\ context = "valid" /\ signalled = FALSE
  /\ caller = "none" /\ hookDone = FALSE /\ hook = "idle"
  /\ todo = {} /\ at \in Components
  /\ component = [c \in Components |-> "unconfigured"]
  /\ listed = component

-----------------------------------------------------------------------------
(***************************************************************************)
(* main().                                                                 *)
(***************************************************************************)
\* The controller manager brings its components up as far as it is told to, and the loop
\* is started.
Creates ==
  /\ main = "creating" /\ context = "valid" /\ caller = "none"
  /\ created' = TRUE
  /\ component' \in [Components -> Configured \cup {"unconfigured"}]
  /\ main' = "spinning" /\ control' = "testing"
  /\ UNCHANGED << exit, exitCode, context, signalled, shutdown >>

\* The update rate is of no use.
RefusesPeriod ==
  /\ main = "creating" /\ context = "valid" /\ caller = "none"
  /\ created' = TRUE
  /\ component' \in [Components -> Configured \cup {"unconfigured"}]
  /\ main' = "shutting" /\ exitCode' = 1
  /\ UNCHANGED << exit, control, context, signalled, shutdown >>

CreationFails ==
  /\ main = "creating"
  /\ main' = "shutting" /\ exitCode' = 1
  /\ UNCHANGED << exit, created, control, context, signalled, shutdown, component >>

SpinReturns ==
  /\ main = "spinning" /\ context = "invalid"
  /\ main' = "joining"
  /\ UNCHANGED << exit, exitCode, created, control, context, signalled, shutdown, component >>

SpinThrows ==
  /\ main = "spinning"
  /\ main' = "joining" /\ exitCode' = 1
  /\ UNCHANGED << exit, created, control, context, signalled, shutdown, component >>

\* Variant: the control loop is not waited for.
JoinsNothing ==
  /\ main = "joining"
  /\ main' = "shutting"
  /\ UNCHANGED << exit, exitCode, created, control, context, signalled, shutdown, component >>

Joins ==
  /\ main = "joining" /\ control = "ended"
  /\ main' = "shutting"
  /\ UNCHANGED << exit, exitCode, created, control, context, signalled, shutdown, component >>

\* The last rclcpp::shutdown() has done, or found done, what is to be done.
MainReturns ==
  /\ main = "shutting" /\ context = "invalid" /\ caller = "none"
  /\ main' = "returned" /\ exit' = "returned"
  /\ UNCHANGED << exitCode, created, control, context, signalled, shutdown, component >>

-----------------------------------------------------------------------------
(***************************************************************************)
(* The control loop.                                                       *)
(***************************************************************************)
\* Variant: the loop is ended by an exception alone.
LoopTestsNothing ==
  /\ control = "testing"
  /\ control' = "sleeping"
  /\ UNCHANGED << process, context, signalled, shutdown, component >>

LoopTests ==
  /\ control = "testing"
  /\ control' = IF context = "valid" THEN "sleeping" ELSE "ended"
  /\ UNCHANGED << process, context, signalled, shutdown, component >>

LoopWakes ==
  /\ control = "sleeping"
  /\ control' = "cycling"
  /\ UNCHANGED << process, context, signalled, shutdown, component >>

\* read() or write() of a component fails, and its error handler takes it out of service.
\* The component may have left service since the call began.
ComponentFails(c) ==
  /\ control = "cycling" /\ component[c] # "finalized"
  /\ \E s \in Released : component' = [component EXCEPT ![c] = s]
  /\ UNCHANGED << process, control, context, signalled, shutdown >>

LoopCycles ==
  /\ control = "cycling"
  /\ control' = "testing"
  /\ UNCHANGED << process, context, signalled, shutdown, component >>

\* SIGUSR1 only sets the exit code.
LoopThrows ==
  /\ control = "cycling"
  /\ control' = "ended" /\ exitCode' = 1
  /\ UNCHANGED << main, exit, created, context, signalled, shutdown, component >>

-----------------------------------------------------------------------------
(***************************************************************************)
(* Signals, and Context::shutdown().                                       *)
(***************************************************************************)
Signals ==
  /\ ~signalled
  /\ signalled' = TRUE
  /\ UNCHANGED << process, control, context, shutdown, component >>

ShutdownBegins(thread) ==
  /\ caller = "none" /\ context = "valid"
  /\ caller' = thread
  /\ UNCHANGED << process, control, context, signalled, hookDone, hook, listed, todo, at, component >>

SignalShutsDown == signalled /\ ShutdownBegins("signal")
MainShutsDown   == main = "shutting" /\ ShutdownBegins("main")

\* The hook is registered with the controller manager, and runs once.
RunsHook == created /\ ~hookDone

\* shutdown_controllers() is done when this is: it touches no component.
HookBegins ==
  /\ caller # "none" /\ hook = "idle" /\ RunsHook
  /\ hookDone' = TRUE /\ hook' = "listing"
  /\ UNCHANGED << process, control, context, signalled, caller, listed, todo, at, component >>

HookLists ==
  /\ hook = "listing"
  /\ listed' = component /\ todo' = Components
  /\ hook' = "next"
  /\ UNCHANGED << process, control, context, signalled, caller, hookDone, at, component >>

\* Variant: only what is active is taken out of service.
HookTakesActive ==
  /\ hook = "next" /\ todo # {}
  /\ \E c \in todo :
       /\ at' = c /\ todo' = todo \ {c}
       /\ hook' = IF listed[c] = "active" THEN "deactivating" ELSE "next"
  /\ UNCHANGED << process, control, context, signalled, caller, hookDone, listed, component >>

HookTakes ==
  /\ hook = "next" /\ todo # {}
  /\ \E c \in todo :
       /\ at' = c /\ todo' = todo \ {c}
       /\ hook' = CASE listed[c] = "active" -> "deactivating"
                    [] listed[c] = "inactive" -> "cleaning"
                    [] OTHER -> "next"
  /\ UNCHANGED << process, control, context, signalled, caller, hookDone, listed, component >>

\* set_component_state(): where a component can go from where it is.  One that was lost
\* since it was listed is configured once more.
Reaches(state, target) ==
  CASE state = "finalized" -> {state}
    [] target = "inactive" /\ state = "unconfigured" -> Released \cup {"inactive"}
    [] target = "active" /\ state = "unconfigured" -> Released \cup {"active"}
    [] OTHER -> {target}

SetsState(c, target) ==
  \E s \in Reaches(component[c], target) : component' = [component EXCEPT ![c] = s]

HookDeactivates ==
  /\ hook = "deactivating"
  /\ SetsState(at, "inactive")
  /\ hook' = "cleaning"
  /\ UNCHANGED << process, control, context, signalled, caller, hookDone, listed, todo, at >>

HookCleansUp ==
  /\ hook = "cleaning"
  /\ SetsState(at, "unconfigured")
  /\ hook' = "next"
  /\ UNCHANGED << process, control, context, signalled, caller, hookDone, listed, todo, at >>

HookEnds ==
  /\ hook = "next" /\ todo = {}
  /\ hook' = "done"
  /\ UNCHANGED << process, control, context, signalled, caller, hookDone, listed, todo, at,
                  component >>

ShutdownEnds ==
  /\ caller # "none" /\ ~RunsHook /\ hook \in {"idle", "done"}
  /\ caller' = "none" /\ context' = "invalid"
  /\ UNCHANGED << process, control, signalled, hookDone, hook, listed, todo, at, component >>

-----------------------------------------------------------------------------
(***************************************************************************)
(* The world: the services of the controller manager change the state of a *)
(* component, but not of one that the hook has listed; std::terminate()    *)
(* ends the process wherever it is.                                        *)
(***************************************************************************)
Operates(c, target) ==
  /\ main = "spinning" /\ hook \in {"idle", "listing"}
  /\ SetsState(c, target)
  /\ UNCHANGED << process, control, context, signalled, shutdown >>

Terminates(disposition) ==
  /\ exit' = "terminated" /\ main' = "terminated" /\ control' = "ended"
  /\ exitCode' = IF disposition = "IgnoredShutdownRace" THEN 0 ELSE 1
  /\ UNCHANGED << created, context, signalled, shutdown, component >>

Starts   == Creates \/ RefusesPeriod \/ CreationFails
Ends     == SpinReturns \/ Joins \/ MainShutsDown \/ MainReturns
Loops    == LoopTests \/ LoopWakes \/ LoopCycles
Fails    == SpinThrows \/ LoopThrows \/ \E c \in Components : ComponentFails(c)
Shutdown == \/ HookBegins \/ HookLists \/ HookTakes \/ HookDeactivates \/ HookCleansUp
            \/ HookEnds \/ ShutdownEnds

NodeNext ==
  /\ exit = "running"
  /\ \/ Starts \/ Loops \/ Fails \/ Ends \/ Shutdown \/ Signals \/ SignalShutsDown
     \/ \E c \in Components, target \in Configured \cup {"unconfigured"} : Operates(c, target)
     \/ \E d \in {"FatalBadAlloc", "FatalException", "IgnoredShutdownRace"} : Terminates(d)

NodeSpec == NodeInit /\ [][NodeNext]_nodeVars

\* Every thread goes on: sleeps, cycles and the calls of the hook end.  Nothing has to fail.
Running(A) == exit = "running" /\ A
Fairness ==
  /\ WF_nodeVars(Running(Starts)) /\ WF_nodeVars(Running(Ends)) /\ WF_nodeVars(Running(Loops))
  /\ WF_nodeVars(Running(Shutdown)) /\ WF_nodeVars(Running(SignalShutsDown))

FairSpec == NodeSpec /\ Fairness

-----------------------------------------------------------------------------
(***************************************************************************)
(* Properties.                                                             *)
(***************************************************************************)
NodeTypeOK ==
  /\ main \in {"creating", "spinning", "joining", "shutting", "returned", "terminated"}
  /\ exit \in {"running", "returned", "terminated"} /\ exitCode \in {0, 1}
  /\ control \in {"none", "testing", "sleeping", "cycling", "ended"}
  /\ context \in {"valid", "invalid"} /\ caller \in {"none", "signal", "main"}
  /\ hook \in {"idle", "listing", "next", "deactivating", "cleaning", "done"}
  /\ {created, signalled, hookDone} \subseteq BOOLEAN
  /\ todo \subseteq Components /\ at \in Components
  /\ component \in [Components -> Configured \cup Released]
  /\ listed \in [Components -> Configured \cup Released]

\* The hook runs once, in one thread, while the context is valid; with a controller
\* manager no context becomes invalid before the hook is through.
HookInv ==
  /\ hookDone <=> hook # "idle"
  /\ hook \notin {"idle", "done"} => caller # "none"
  /\ caller # "none" => context = "valid"
  /\ hookDone => created
  /\ hook = "done" => todo = {}
  /\ created /\ context = "invalid" => hook = "done"

\* Where the hook has been no component is in service.
ProgressInv ==
  hook \notin {"idle", "listing"} =>
    \A c \in Components :
      \/ component[c] \in Released
      \/ c \in todo /\ listed[c] \in Configured
      \/ c = at /\ hook \in {"deactivating", "cleaning"}

\* main() waits for the loop before its last shutdown, and for that before it returns.
MainInv ==
  /\ main = "creating" => ~created /\ control = "none"
  /\ main \in {"shutting", "returned"} => control \in {"none", "ended"}
  /\ main = "returned" => context = "invalid"
  /\ exit = "returned" <=> main = "returned"

\* The inductive invariant of the node.
NodeInv == NodeTypeOK /\ HookInv /\ ProgressInv /\ MainInv

\* Whatever ended the node, and whatever failed in between: when main() returns no component
\* is in service, and no thread of it may still read or write one.
ReleasedAtExit ==
  exit = "returned" =>
    /\ control \in {"none", "ended"}
    /\ created => \A c \in Components : component[c] \in Released

\* The steps that the hook still takes at most: up to three for each component.
HookLeft ==
  CASE hook = "done" -> 0
    [] hook = "next" -> 3 * Cardinality(todo) + 1
    [] hook = "cleaning" -> 3 * Cardinality(todo) + 2
    [] hook = "deactivating" -> 3 * Cardinality(todo) + 3
    [] hook = "listing" -> 3 * Cardinality(Components) + 2
    [] hook = "idle" -> 3 * Cardinality(Components) + 3

\* The hook comes to its end, whatever the components are doing meanwhile: each of its steps
\* takes it closer, and nothing takes it back.
HookAdvances ==
  [][IF Shutdown /\ ~ShutdownEnds THEN HookLeft' < HookLeft ELSE HookLeft' = HookLeft]_nodeVars

\* A signal ends the process, whatever the loop, the executor or the components are doing,
\* and also if the loop has died before.
SignalEndsNode == signalled ~> exit # "running"

\* An exception in the loop ends the process.
LoopDeathEndsNode == control = "ended" ~> exit # "running"
=============================================================================
