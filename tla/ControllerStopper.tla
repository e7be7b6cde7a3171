------------------------- MODULE ControllerStopper --------------------------
(***************************************************************************)
(* The node that stops the controllers when the task on the arm stops, and *)
(* restarts them when it runs again.  It asks the controller manager for   *)
(* the active controllers, and from the answer for a switch, both without  *)
(* waiting: the next status message may be handled at any point of the     *)
(* exchange.  Its constructor waits for answers with spin_until_future_    *)
(* complete(), which handles status messages and other answers meanwhile.  *)
(*                                                                         *)
(* The controller manager answers the requests to one service in order;    *)
(* nothing orders its two services with each other.                        *)
(***************************************************************************)
EXTENDS Sequences, Naturals

CONSTANTS
  Controllers,  \* the loaded controllers
  Consistent,   \* consistent_controllers_
  MaxChanges,   \* bound on the changes of the status
  MaxSwitches   \* bound on the switches that others ask for

ASSUME ControllersAssumption == Consistent \subseteq Controllers
ASSUME BoundsAssumption == MaxChanges \in Nat /\ MaxSwitches \in Nat

VARIABLES
  status,     \* what the arm's side published last
  inbox,      \* the status messages not handled yet: the newest one
  phase,      \* where the constructor is; "spin" is past it
  running,    \* robot_running_
  stopped,    \* stopped_controllers_
  asked,      \* the list requests under way, each named for who awaits the answer
  listed,     \* the answers to them
  switches,   \* the switch requests under way
  active,     \* the active controllers
  changes, others,  \* counters for the bounds
  found,      \* history: what was active when the last exchange that stops began
  disturbed   \* history: something interfered with that exchange, or with what followed

stopper == << phase, running, stopped >>
manager == << asked, listed, switches, active >>
history == << found, disturbed >>
vars    == << status, inbox, stopper, manager, changes, others, history >>

Phases   == {"mode", "test", "list", "switch", "spin"}
Awaiting == {"constructor", "callback"}

Answers  == [for : Awaiting, active : SUBSET Controllers]
Requests == [for : Awaiting, start : SUBSET Controllers, stop : SUBSET Controllers]

\* The subscription is volatile: it misses what was published before it.
Init ==
  /\ status \in BOOLEAN /\ inbox = << >>
  /\ phase = "mode" /\ running = TRUE /\ stopped = {}
  /\ asked = << >> /\ listed = << >> /\ switches = << >>
  /\ active \in SUBSET Controllers
  /\ changes = 0 /\ others = 0
  /\ found = active /\ disturbed = TRUE

\* The executor handles messages and answers; not during the constructor's sleep.
Spins == phase # "test"

\* Nothing is under way.
NoExchange == asked = << >> /\ listed = << >> /\ switches = << >>
Calm == NoExchange /\ phase = "spin"

\* The controllers to stop are added to those found before, and never cleared here.
Found(answer) == stopped \union (answer.active \ Consistent)

-----------------------------------------------------------------------------
(***************************************************************************)
(* robotRunningCallback() and the answers it waits for                     *)
(***************************************************************************)
\* The status is true again: the controllers that were stopped are started.
StartControllers ==
  /\ Spins /\ inbox = << TRUE >> /\ ~running
  /\ switches' = IF stopped = {} THEN switches
                 ELSE Append(switches, [for |-> "callback", start |-> stopped, stop |-> {}])
  /\ running' = TRUE /\ inbox' = << >>
  /\ disturbed' = (disturbed \/ ~Calm)
  /\ UNCHANGED << status, phase, stopped, asked, listed, active, changes, others, found >>

\* Variant: the controllers of the last stop are kept.
NotCleared == stopped

\* What was stopped before is forgotten.
Cleared == {}

\* The status is false: the controller manager is asked what is active.
FindAndStopControllers ==
  /\ Spins /\ inbox = << FALSE >> /\ running
  /\ stopped' = Cleared
  /\ asked' = Append(asked, "callback")
  /\ running' = FALSE /\ inbox' = << >>
  /\ found' = active /\ disturbed' = ~Calm
  /\ UNCHANGED << status, phase, listed, switches, active, changes, others >>

\* A status that is no change.
IgnoreStatus ==
  /\ Spins /\ inbox = << running >>
  /\ inbox' = << >>
  /\ UNCHANGED << status, stopper, manager, changes, others, history >>

\* callback_list_controller: what is active is stopped.
ControllersListed ==
  /\ Spins /\ listed # << >> /\ Head(listed).for = "callback"
  /\ stopped' = Found(Head(listed))
  /\ listed' = Tail(listed)
  /\ switches' = IF Found(Head(listed)) = {} THEN switches
                 ELSE Append(switches, [for |-> "callback", start |-> {},
                                        stop |-> Found(Head(listed))])
  /\ UNCHANGED << status, inbox, phase, running, asked, active, changes, others, history >>

-----------------------------------------------------------------------------
(***************************************************************************)
(* The constructor                                                         *)
(***************************************************************************)
\* The mode of the arm is known; an arm without power has its controllers stopped.
ModeAnswered ==
  /\ phase = "mode"
  /\ phase' \in {"test", "spin"}
  /\ UNCHANGED << status, inbox, running, stopped, manager, changes, others, history >>

\* The loop asks again until something to stop was found.
StartupAsks ==
  /\ phase = "test" /\ stopped = {}
  /\ asked' = Append(asked, "constructor")
  /\ phase' = "list"
  /\ found' = active /\ disturbed' = ~NoExchange
  /\ UNCHANGED << status, inbox, running, stopped, listed, switches, active, changes, others >>

\* Variant: the answer is not looked at.
StartupForgets ==
  /\ phase = "list" /\ listed # << >> /\ Head(listed).for = "constructor"
  /\ listed' = Tail(listed)
  /\ phase' = "test"
  /\ UNCHANGED << status, inbox, running, stopped, asked, switches, active, changes, others, history >>

StartupListed ==
  /\ phase = "list" /\ listed # << >> /\ Head(listed).for = "constructor"
  /\ stopped' = Found(Head(listed))
  /\ listed' = Tail(listed)
  /\ phase' = "test"
  /\ UNCHANGED << status, inbox, running, asked, switches, active, changes, others, history >>

StartupStops ==
  /\ phase = "test" /\ stopped # {}
  /\ switches' = Append(switches, [for |-> "constructor", start |-> {}, stop |-> stopped])
  /\ phase' = "switch"
  /\ UNCHANGED << status, inbox, running, stopped, asked, listed, active, changes, others, history >>

\* The answer to the switch is only logged.  Whatever was handled meanwhile is overruled.
StartupEnds ==
  /\ phase = "switch" /\ \A i \in DOMAIN switches : switches[i].for # "constructor"
  /\ running' = FALSE
  /\ phase' = "spin"
  /\ UNCHANGED << status, inbox, stopped, manager, changes, others, history >>

-----------------------------------------------------------------------------
(***************************************************************************)
(* The controller manager, the other users of it, and the arm              *)
(***************************************************************************)
ListsControllers ==
  /\ asked # << >>
  /\ asked' = Tail(asked)
  /\ listed' = Append(listed, [for |-> Head(asked), active |-> active])
  /\ UNCHANGED << status, inbox, stopper, switches, active, changes, others, history >>

\* STRICT: all of it or nothing.
Accepts(request) == request.stop \subseteq active /\ request.start \intersect active = {}

SwitchesControllers ==
  /\ switches # << >>
  /\ switches' = Tail(switches)
  /\ active' = IF Accepts(Head(switches))
                 THEN (active \ Head(switches).stop) \union Head(switches).start
                 ELSE active
  /\ UNCHANGED << status, inbox, stopper, asked, listed, changes, others, history >>

\* Someone else activates or deactivates a controller.
OthersSwitch ==
  /\ others < MaxSwitches /\ others' = others + 1
  /\ \E c \in Controllers :
       active' = IF c \in active THEN active \ {c} ELSE active \union {c}
  /\ IF Calm /\ running
       THEN found' = active' /\ UNCHANGED disturbed
       ELSE disturbed' = TRUE /\ UNCHANGED found
  /\ UNCHANGED << status, inbox, stopper, asked, listed, switches, changes >>

\* The status changes and is published; the queue of the subscription holds one message.
StatusChanges ==
  /\ changes < MaxChanges /\ changes' = changes + 1
  /\ status' = ~status
  /\ inbox' = << status' >>
  /\ UNCHANGED << stopper, manager, others, history >>

Callbacks == StartControllers \/ FindAndStopControllers \/ IgnoreStatus \/ ControllersListed
Startup   == ModeAnswered \/ StartupAsks \/ StartupListed \/ StartupStops \/ StartupEnds
Manager   == ListsControllers \/ SwitchesControllers

Next == Callbacks \/ Startup \/ Manager \/ OthersSwitch \/ StatusChanges

\* The node is scheduled and the controller manager answers.
Fairness ==
  /\ WF_vars(Callbacks) /\ WF_vars(Startup)
  /\ WF_vars(ListsControllers) /\ WF_vars(SwitchesControllers)

Spec == Init /\ [][Next]_vars /\ Fairness

-----------------------------------------------------------------------------
\* Types.
TypeOK ==
  /\ status \in BOOLEAN /\ inbox \in {<< >>, << TRUE >>, << FALSE >>}
  /\ phase \in Phases /\ running \in BOOLEAN /\ stopped \subseteq Controllers
  /\ asked \in Seq(Awaiting) /\ listed \in Seq(Answers) /\ switches \in Seq(Requests)
  /\ active \subseteq Controllers
  /\ changes \in 0..MaxChanges /\ others \in 0..MaxSwitches
  /\ found \subseteq Controllers /\ disturbed \in BOOLEAN

\* The exchange that nothing interfered with, by how far it has come.
Expected == found \ Consistent
Asking(who)  == asked = << who >> /\ listed = << >> /\ switches = << >>
Listing(who) == asked = << >> /\ listed = << [for |-> who, active |-> found] >> /\ switches = << >>
Switching(request) == asked = << >> /\ listed = << >> /\ switches = << request >>

Settled ==
  /\ Calm
  /\ IF running THEN active = found ELSE active = found \intersect Consistent /\ stopped = Expected

Stopping ==
  /\ phase = "spin" /\ ~running /\ active = found
  /\ \/ stopped = {} /\ (Asking("callback") \/ Listing("callback"))
     \/ /\ stopped = Expected
        /\ Switching([for |-> "callback", start |-> {}, stop |-> Expected])

Starting ==
  /\ phase = "spin" /\ running /\ active = found \intersect Consistent
  /\ Switching([for |-> "callback", start |-> Expected, stop |-> {}])

StartingUp ==
  \/ phase = "list" /\ stopped = {} /\ active = found /\ (Asking("constructor") \/ Listing("constructor"))
  \/ phase = "test" /\ NoExchange /\ stopped = Expected /\ active = found
  \/ /\ phase = "switch" /\ stopped = Expected
     /\ \/ active = found /\ Switching([for |-> "constructor", start |-> {}, stop |-> Expected])
        \/ active = found \intersect Consistent /\ NoExchange

\* The inductive invariant.
StopperInv ==
  /\ TypeOK
  /\ phase = "mode" => disturbed
  /\ ~disturbed => Settled \/ Stopping \/ Starting \/ StartingUp

\* When everything is answered after a stop that nothing interfered with, the arm has
\* exactly the controllers it should: those active before the stop while the task runs,
\* the consistent ones of them while it does not.  Nothing that an earlier, interrupted
\* exchange left behind in stopped_controllers_ comes back.
AsFound ==
  Calm /\ ~disturbed => active = IF running THEN found ELSE found \intersect Consistent

\* The constructor ends if there is something to stop when it begins to look for it, although
\* status messages that are handled while it waits clear what was found.  (It does not end if
\* the callback stopped everything before.)
StartupReturns ==
  (phase = "test" /\ NoExchange /\ active \ Consistent # {}) ~> (phase = "spin" \/ others > 0)
=============================================================================
