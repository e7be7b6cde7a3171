---------------------------- MODULE CommandModes ----------------------------
(***************************************************************************)
(* The command modes of EliteCSPositionHardwareInterface.  The controller  *)
(* manager switches controllers in two steps: it calls                     *)
(* prepare_command_mode_switch() on a service thread and, unless that      *)
(* refuses, perform_command_mode_switch() on the realtime thread.  Cycles  *)
(* of read() and write(), the controllers' own writes, async_thread_ and   *)
(* the loss of the component come in between.                              *)
(*                                                                         *)
(* A controller claims one interface per joint it drives, all of one mode. *)
(* The one interface of the freedrive controller stands for every joint.   *)
(* The controller manager keeps the claims, the hardware interface keeps   *)
(* three *_controller_running_ flags, and write() obeys the flags.         *)
(*                                                                         *)
(* Of the command buffers the model keeps who wrote the first joint's      *)
(* entry last.  The controller manager deals with a prepared switch in its *)
(* next cycle, so none survives on_configure(), which takes seconds.       *)
(***************************************************************************)
EXTENDS Naturals

CONSTANTS
  Joints, FirstJoint,   \* info_.joints, and info_.joints[0]
  Controllers,          \* the loaded motion controllers
  ModeOf, JointsOf      \* what each of them claims

Modes == {"position", "velocity", "freedrive"}

ASSUME JointsAssumption == FirstJoint \in Joints
ASSUME ClaimsAssumption ==
  /\ ModeOf \in [Controllers -> Modes]
  /\ JointsOf \in [Controllers -> SUBSET Joints]
  /\ \A c \in Controllers : ModeOf[c] = "freedrive" => JointsOf[c] = Joints
ASSUME NamesAssumption == {"zeros", "actual"} \cap Controllers = {}

VARIABLES
  hw,            \* the component is "configured" or "unconfigured"
  active,        \* the active controllers, as the controller manager knows them
  request,       \* the switch that is prepared and not yet performed
  running,       \* the modes whose *_controller_running_ flag is set
  startModes, stopModes,  \* start_modes_ and stop_modes_, per joint
  posTarget,     \* who wrote position_commands_ last: a controller, "actual", "zeros"
  velTarget,     \* likewise velocity_commands_
  resetPending,  \* command_reset_pending_
  activated,     \* freedrive_activated_
  startCmd, endCmd,  \* freedrive_start_cmd_ and freedrive_end_cmd_ hold a command
  async          \* async_thread_ is "idle", or in the SDK call of "starting" or "ending"

switch  == << request, startModes, stopModes >>
targets == << posTarget, velTarget, resetPending >>
drive   == << activated, startCmd, endCmd, async >>
vars    == << hw, active, switch, running, targets, drive >>

NoRequest == [start |-> {}, stop |-> {}]
NoModes   == [j \in Joints |-> {}]

-----------------------------------------------------------------------------
\* The modes a set of controllers asks for, on each joint.
ModesOn(cs) == [j \in Joints |-> {m \in Modes : \E c \in cs : ModeOf[c] = m /\ j \in JointsOf[c]}]

\* Two controllers that claim one interface are never active together.
Share(c, d) == c # d /\ ModeOf[c] = ModeOf[d] /\ JointsOf[c] \cap JointsOf[d] # {}

\* What the controller manager may ask for.
Admissible(start, stop) ==
  /\ start # {} \/ stop # {}
  /\ stop \subseteq active
  /\ start \cap active = {}
  /\ \A c \in start : \A d \in (active \ stop) \cup start : ~Share(c, d)

\* control_modes[0] once the stopped modes are removed from it: a velocity controller
\* that runs hides a position controller that runs.
RemainingModes(stop) ==
  (running \ (IF "velocity" \in running THEN {"position"} ELSE {}))
    \ ModesOn(stop)[FirstJoint]

\* The three grounds for a refusal: two modes asked for on one joint, joints asked for in
\* different modes, and a mode that meets another one still running.
TwoModesOnJoint(start) ==
  \E j \in Joints : \E m, n \in ModesOn(start)[j] : m # n

JointsDiffer(start) ==
  \E j \in Joints : ModesOn(start)[j] # ModesOn(start)[FirstJoint]

MeetsRunningMode(start, stop) ==
  \E m \in ModesOn(start)[FirstJoint] : RemainingModes(stop) \ {m} # {}

Refuses(start, stop) ==
  \/ TwoModesOnJoint(start)
  \/ JointsDiffer(start)
  \/ MeetsRunningMode(start, stop)

-----------------------------------------------------------------------------
(***************************************************************************)
(* The two halves of a switch.                                             *)
(***************************************************************************)

\* A refused switch leaves its lists behind, and is never performed.
Prepare(start, stop) ==
  /\ hw = "configured" /\ request = NoRequest
  /\ Admissible(start, stop)
  /\ startModes' = ModesOn(start)
  /\ stopModes' = ModesOn(stop)
  /\ request' = IF Refuses(start, stop) THEN NoRequest
                ELSE [start |-> start, stop |-> stop]
  /\ UNCHANGED << hw, active, running, targets, drive >>

Stops(mode)  == mode \in stopModes[FirstJoint]
Starts(mode) == mode \in startModes[FirstJoint]

\* The flags once the stop list, then the start list, is carried out.
RunningAfter ==
  LET left == running \ stopModes[FirstJoint]
  IN  IF Starts("position") THEN (left \ {"velocity"}) \cup {"position"}
      ELSE IF Starts("velocity") THEN (left \ {"position"}) \cup {"velocity"}
      ELSE IF Starts("freedrive")
             THEN (left \ {"position", "velocity"}) \cup {"freedrive"}
      ELSE left

\* Variant: the commands are rebased when a position controller stops, not when one starts.
RebasedOnStop(mode) == Stops(mode)

\* The commands of a mode are rebased when it stops and when it starts.
Rebased(mode) == Stops(mode) \/ Starts(mode)

Perform ==
  /\ hw = "configured" /\ request # NoRequest
  /\ running' = RunningAfter
  /\ posTarget' = IF Rebased("position") THEN "actual" ELSE posTarget
  /\ velTarget' = IF Rebased("velocity") THEN "zeros" ELSE velTarget
  /\ activated' = IF Rebased("freedrive") THEN FALSE ELSE activated
  /\ endCmd' = IF Stops("freedrive") THEN TRUE ELSE endCmd
  /\ active' = (active \ request.stop) \cup request.start
  /\ request' = NoRequest
  /\ startModes' = NoModes
  /\ stopModes' = NoModes
  /\ UNCHANGED << hw, resetPending, startCmd, async >>

-----------------------------------------------------------------------------
(***************************************************************************)
(* The controllers and the realtime cycle.                                 *)
(***************************************************************************)
Drives(c, mode) == c \in active /\ ModeOf[c] = mode /\ FirstJoint \in JointsOf[c]

PositionWrites(c) ==
  /\ Drives(c, "position")
  /\ posTarget' = c
  /\ UNCHANGED << hw, active, switch, running, velTarget, resetPending, drive >>

VelocityWrites(c) ==
  /\ Drives(c, "velocity")
  /\ velTarget' = c
  /\ UNCHANGED << hw, active, switch, running, posTarget, resetPending, drive >>

\* FreedriveController::update() carries out an enable_freedrive message.
FreedriveWrites(c) ==
  /\ Drives(c, "freedrive")
  /\ \/ startCmd' = TRUE /\ ~endCmd /\ UNCHANGED endCmd
     \/ endCmd' = TRUE /\ UNCHANGED startCmd
  /\ UNCHANGED << hw, active, switch, running, targets, activated, async >>

\* read() meets the edge from power off to power on.
PowerOn ==
  /\ hw = "configured"
  /\ posTarget' = "actual" /\ velTarget' = "zeros"
  /\ startCmd' = FALSE /\ endCmd' = FALSE
  /\ UNCHANGED << hw, active, switch, running, resetPending, activated, async >>

\* write() carries out a pending reset, in a cycle with a fresh frame.
WriteResets ==
  /\ hw = "configured" /\ resetPending
  /\ resetPending' = FALSE
  /\ posTarget' = "actual" /\ velTarget' = "zeros"
  /\ UNCHANGED << hw, active, switch, running, drive >>

\* What write() sends while the external control task executes.
Output ==
  IF "position" \in running THEN "servoj"
  ELSE IF "velocity" \in running THEN "speedj"
  ELSE IF "freedrive" \in running /\ activated THEN "freedrive"
  ELSE "idle"

-----------------------------------------------------------------------------
(***************************************************************************)
(* async_thread_: the flags are set after the SDK call returns, and the    *)
(* command is cleared last.  A command that finds the task not executing   *)
(* is skipped.  One whose call throws is left as it was, and tried again.  *)
(***************************************************************************)
AsyncResends ==
  /\ async = "idle" /\ ~resetPending
  /\ resetPending' = TRUE
  /\ UNCHANGED << hw, active, switch, running, posTarget, velTarget, drive >>

AsyncSkipsStart ==
  /\ async = "idle" /\ startCmd
  /\ startCmd' = FALSE
  /\ UNCHANGED << hw, active, switch, running, targets, activated, endCmd, async >>

AsyncStarts ==
  /\ async = "idle" /\ startCmd
  /\ async' = "starting"
  /\ UNCHANGED << hw, active, switch, running, targets, activated, startCmd, endCmd >>

AsyncStarted ==
  /\ async = "starting"
  /\ activated' = TRUE /\ startCmd' = FALSE
  /\ async' = "idle"
  /\ UNCHANGED << hw, active, switch, running, targets, endCmd >>

AsyncStartThrows ==
  /\ async = "starting"
  /\ async' = "idle"
  /\ UNCHANGED << hw, active, switch, running, targets, activated, startCmd, endCmd >>

AsyncEnds ==
  /\ async = "idle" /\ endCmd
  /\ activated' = FALSE
  /\ async' = "ending"
  /\ UNCHANGED << hw, active, switch, running, targets, startCmd, endCmd >>

AsyncEnded ==
  /\ async = "ending"
  /\ endCmd' = FALSE
  /\ async' = "idle"
  /\ UNCHANGED << hw, active, switch, running, targets, activated, startCmd >>

AsyncEndThrows ==
  /\ async = "ending"
  /\ async' = "idle"
  /\ UNCHANGED << hw, active, switch, running, targets, activated, startCmd, endCmd >>

-----------------------------------------------------------------------------
(***************************************************************************)
(* The lifecycle.  When the component is lost, or cleaned up, the          *)
(* controller manager deactivates its controllers without a switch.        *)
(***************************************************************************)
Lose ==
  /\ hw = "configured"
  /\ hw' = "unconfigured"
  /\ active' = {}
  /\ request' = NoRequest
  /\ UNCHANGED << startModes, stopModes, running, targets, drive >>

\* on_configure() joins async_thread_ first.  It resets the modes, not the commands.
\* Variant: the flags survive a reconfiguration.
ConfiguredFlagsKept == running

ConfiguredFlags == {}

Configure ==
  /\ hw = "unconfigured" /\ async = "idle"
  /\ hw' = "configured"
  /\ running' = ConfiguredFlags
  /\ activated' = FALSE
  /\ startModes' = NoModes /\ stopModes' = NoModes
  /\ resetPending' = FALSE
  /\ UNCHANGED << active, request, posTarget, velTarget, startCmd, endCmd, async >>

Init ==
  /\ hw = "unconfigured" /\ active = {}
  /\ request = NoRequest /\ startModes = NoModes /\ stopModes = NoModes
  /\ running = {}
  /\ posTarget = "zeros" /\ velTarget = "zeros" /\ resetPending = FALSE
  /\ activated = FALSE /\ startCmd = FALSE /\ endCmd = FALSE
  /\ async = "idle"

Switching == Perform \/ \E start, stop \in SUBSET Controllers : Prepare(start, stop)
Writing ==
  \/ \E c \in Controllers : PositionWrites(c) \/ VelocityWrites(c) \/ FreedriveWrites(c)
  \/ PowerOn \/ WriteResets
Async ==
  \/ AsyncResends \/ AsyncSkipsStart
  \/ AsyncStarts \/ AsyncStarted \/ AsyncStartThrows
  \/ AsyncEnds \/ AsyncEnded \/ AsyncEndThrows
Lifecycle == Lose \/ Configure

Next == Switching \/ Writing \/ Async \/ Lifecycle

Spec == Init /\ [][Next]_vars

-----------------------------------------------------------------------------
(***************************************************************************)
(* Properties.                                                             *)
(***************************************************************************)
TypeOK ==
  /\ hw \in {"configured", "unconfigured"}
  /\ active \subseteq Controllers
  /\ request \in [start : SUBSET Controllers, stop : SUBSET Controllers]
  /\ running \subseteq Modes
  /\ startModes \in [Joints -> SUBSET Modes] /\ stopModes \in [Joints -> SUBSET Modes]
  /\ posTarget \in {"zeros", "actual"} \cup Controllers
  /\ velTarget \in {"zeros", "actual"} \cup Controllers
  /\ async \in {"idle", "starting", "ending"}

FlagsOK ==
  /\ resetPending \in BOOLEAN /\ activated \in BOOLEAN
  /\ startCmd \in BOOLEAN /\ endCmd \in BOOLEAN

\* No interface is claimed twice.
ClaimsInv == \A c, d \in active : ~Share(c, d)

\* Without a component nothing is claimed and nothing waits.
Unclaimed == hw = "unconfigured" => active = {} /\ request = NoRequest

\* A switch waits only while the component is configured, with the lists that
\* prepare_command_mode_switch() filled in for it and with no ground for a refusal.
RequestInv ==
  request # NoRequest =>
    /\ hw = "configured"
    /\ Admissible(request.start, request.stop)
    /\ ~Refuses(request.start, request.stop)
    /\ startModes = ModesOn(request.start)
    /\ stopModes = ModesOn(request.stop)

\* At most one command mode runs at any time: the three flags, which write() and both
\* halves of a switch test one after the other, are never set together.
ModesExclusive == \A m, n \in running : m = n

\* The flags are what the controller manager believes: a mode is flagged exactly when an
\* active controller claims the first joint in it, after any sequence of switches, of
\* refusals, and of losses of the component.
FlagsFollowClaims ==
  hw = "configured" => running = ModesOn(active)[FirstJoint]

\* Targets left by a controller are left by one of their kind, still active if their
\* mode runs.
TargetInv ==
  /\ posTarget \in Controllers =>
       ModeOf[posTarget] = "position" /\ FirstJoint \in JointsOf[posTarget]
  /\ velTarget \in Controllers =>
       ModeOf[velTarget] = "velocity" /\ FirstJoint \in JointsOf[velTarget]
  /\ hw = "configured" /\ "position" \in running => posTarget \in {"actual"} \cup active
  /\ hw = "configured" /\ "velocity" \in running => velTarget \in {"zeros"} \cup active

\* The inductive invariant: what prepare_command_mode_switch() assumes of the flags, what
\* perform_command_mode_switch() assumes of the lists, and what write() assumes of both.
ModesInv ==
  /\ TypeOK /\ FlagsOK /\ ClaimsInv /\ Unclaimed /\ RequestInv
  /\ ModesExclusive /\ FlagsFollowClaims /\ TargetInv

\* write() never sends a target nobody stands behind: what it sends was computed by an
\* active controller, or is the measured position (zero velocity).
NoAbandonedTarget ==
  hw = "configured" =>
    /\ Output = "servoj" => posTarget \in {"actual"} \cup active
    /\ Output = "speedj" => velTarget \in {"zeros"} \cup active
=============================================================================
