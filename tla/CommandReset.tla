---------------------------- MODULE CommandReset ----------------------------
(***************************************************************************)
(* Where the first servoj target of an external control session comes from.*)
(* While no session drives the arm, somebody may move it by hand, and a    *)
(* target computed before that would snap it back.  Three mechanisms stand *)
(* against it:                                                             *)
(*                                                                         *)
(*   - async_thread_ raises command_reset_pending_ when it resends the     *)
(*     script, on request or in reconnectAll();                            *)
(*   - write() replaces the commands by the measured pose when it finds    *)
(*     the flag in a cycle whose read() received a frame;                  *)
(*   - the script refuses the first target of a session that is far from   *)
(*     the pose it measures itself, and halts.                             *)
(*                                                                         *)
(* A pose or a target is "current" if the arm has not moved by hand since  *)
(* it was measured, and "stale" otherwise.  Moves fall between two cycles, *)
(* and not after a script was sent: an operator who resends it stands back.*)
(* The position controller is active throughout.                           *)
(***************************************************************************)
EXTENDS Naturals

CONSTANT Holds   \* the active controller writes its own setpoint in every cycle

ASSUME HoldsAssumption == Holds \in BOOLEAN

VARIABLES
  cycle,     \* where the realtime thread is: about to "read", "update" or "write"
  stream,    \* the arm's RTSI server delivers frames
  fresh,     \* joint_positions_fresh_
  pose,      \* joint_positions_
  playing, connected,  \* runtime_state_ is PLAYING, is_robot_connected_
  lost,      \* reconnection_needed_
  target,    \* position_commands_
  setpoint,  \* what the controller holds
  pending,   \* command_reset_pending_
  initial,   \* initial_script_needed_
  request,   \* resend_external_script_cmd_ holds a command
  async,     \* async_thread_ is "idle", in the resend, or inside reconnectAll()
  script,    \* the session: "none", "booting", "connected"
  boot,      \* whole cycles since the session was sent, up to 1, as far as it matters
  vetting,   \* servo_start_check_pending of the session
  resent,    \* history: the session is one that a reset was flagged for
  framed,    \* history: a frame came since the session was sent, and its reset flagged
  refused,   \* history: a resent session with a frame had to refuse its first target
  snapped    \* history: the arm followed a stale target

measured == << fresh, pose, playing, connected, lost >>
commands == << target, setpoint >>
asked    == << pending, initial, request >>
session  == << script, boot, vetting, resent, framed >>
history  == << refused, snapped >>
vars     == << cycle, stream, measured, commands, asked, async, session, history >>

Ages == {"current", "stale"}

\* on_configure() has connected and received a first frame, and the controller was
\* activated on it.
Init ==
  /\ cycle = "read" /\ stream = TRUE
  /\ fresh = FALSE /\ pose = "current" /\ playing = FALSE /\ connected = FALSE
  /\ lost = FALSE
  /\ target = "current" /\ setpoint = "current"
  /\ pending = FALSE /\ initial = TRUE /\ request = FALSE
  /\ async = "idle"
  /\ script = "none" /\ boot = "sent" /\ vetting = FALSE /\ resent = FALSE /\ framed = FALSE
  /\ refused = FALSE /\ snapped = FALSE

-----------------------------------------------------------------------------
(***************************************************************************)
(* The realtime cycle: read(), the controller's update(), write().         *)
(***************************************************************************)
\* The arm was moved by hand since the last cycle.
Moved(moved) == moved => script = "none" /\ async # "sending"

Aged(moved, age) == IF moved THEN "stale" ELSE age

\* A cycle that begins after the script was sent, and the reset flagged, counts.
BootRead == boot' = IF script = "booting" /\ async # "flagging" /\ boot = "sent"
                      THEN "cycle" ELSE boot

\* A frame: the pose and both copies are new.  If it shows that the arm was powered on,
\* which no session survives, the commands are reset and a pending resend is dropped.
ReadFrame ==
  /\ cycle = "read" /\ stream
  /\ \E moved, powered \in BOOLEAN :
       /\ Moved(moved)
       /\ powered => script = "none"
       /\ target' = IF powered THEN "current" ELSE Aged(moved, target)
       /\ setpoint' = Aged(moved, setpoint)
       /\ request' = (request /\ ~powered)
  /\ fresh' = TRUE /\ pose' = "current"
  /\ playing' = (script # "none") /\ connected' = (script = "connected")
  /\ lost' = FALSE
  /\ initial' = (initial /\ script = "none")
  /\ framed' = (framed \/ (script = "booting" /\ async # "flagging"))
  /\ BootRead
  /\ cycle' = "update"
  /\ UNCHANGED << stream, pending, async, script, vetting, resent, history >>

\* No frame: everything but the two flags is what it was.
ReadFails ==
  /\ cycle = "read" /\ ~stream
  /\ \E moved \in BOOLEAN :
       /\ Moved(moved)
       /\ target' = Aged(moved, target)
       /\ setpoint' = Aged(moved, setpoint)
       /\ pose' = Aged(moved, pose)
  /\ fresh' = FALSE /\ lost' = TRUE
  /\ BootRead
  /\ cycle' = "update"
  /\ UNCHANGED << stream, playing, connected, asked, async, script, vetting, resent,
                  framed, history >>

\* The controller takes up a new goal, which starts at the measured pose, writes the
\* setpoint it holds, or waits for its first goal and writes nothing.
Update ==
  /\ cycle = "update"
  /\ \/ target' = pose /\ setpoint' = pose
     \/ Holds /\ target' = setpoint /\ UNCHANGED setpoint
     \/ ~Holds /\ UNCHANGED commands
  /\ cycle' = "write"
  /\ UNCHANGED << stream, measured, asked, async, session, history >>

\* write() carries out a pending reset in a cycle with a fresh frame.
Resets == fresh /\ pending

\* Variant: the script takes every target.
NothingVetted == FALSE

\* The script vets the first target of a session.
Vetted == vetting

\* After the reset, the target goes out if both copies say that the task executes, and
\* reaches whatever session is connected by then.
Write ==
  /\ cycle = "write"
  /\ pending' = (pending /\ ~Resets)
  /\ target' = IF Resets THEN pose ELSE target
  /\ LET received == playing /\ connected /\ script = "connected"
         halts    == received /\ Vetted /\ target' = "stale"
     IN  /\ script' = IF halts THEN "none" ELSE script
         /\ vetting' = (vetting /\ ~received)
         /\ refused' = (refused \/ (halts /\ resent /\ framed))
         /\ snapped' = (snapped \/ (received /\ ~Vetted /\ target' = "stale"))
  /\ boot' = IF boot = "cycle" THEN "ready" ELSE boot
  /\ cycle' = "read"
  /\ UNCHANGED << stream, measured, setpoint, initial, request, async, resent, framed >>

-----------------------------------------------------------------------------
(***************************************************************************)
(* updateAsyncIO(): the initial script, the resend, and the driver's part  *)
(* of reconnectAll().                                                      *)
(***************************************************************************)
\* A script that reaches the arm replaces the session, if there was one.
Sends(flagged) ==
  /\ script' = "booting" /\ boot' = "sent" /\ vetting' = TRUE
  /\ resent' = flagged /\ framed' = FALSE

AsyncGoto(from, to) == async = from /\ async' = to

\* Sent until the task is first seen to execute, and without flagging a reset.
AsyncSendsInitial ==
  /\ AsyncGoto("idle", "idle") /\ ~lost
  /\ initial /\ ~playing
  /\ Sends(FALSE)
  /\ UNCHANGED << cycle, stream, measured, commands, asked, history >>

AsyncBeginsResend ==
  /\ AsyncGoto("idle", "stopping") /\ ~lost /\ request
  /\ UNCHANGED << cycle, stream, measured, commands, asked, session, history >>

\* stopControl() ends the session, or times out.
AsyncStopsControl ==
  /\ AsyncGoto("stopping", "confirming")
  /\ script' \in {script, "none"}
  /\ UNCHANGED << cycle, stream, measured, commands, asked, boot, vetting, resent, framed,
                  history >>

\* stopControl() throws: the resend is skipped.
AsyncSkipsResend ==
  /\ AsyncGoto("stopping", "idle")
  /\ request' = FALSE
  /\ UNCHANGED << cycle, stream, measured, commands, pending, initial, session, history >>

\* The wait for STOPPED ends, at the latest after 500 ms, and the reset is flagged.
AsyncFlagsReset ==
  /\ AsyncGoto("confirming", "sending")
  /\ pending' = TRUE
  /\ UNCHANGED << cycle, stream, measured, commands, initial, request, session, history >>

AsyncResends ==
  /\ AsyncGoto("sending", "idle")
  /\ request' = FALSE
  /\ \/ Sends(TRUE)
     \/ UNCHANGED session      \* network delivery fails
  /\ UNCHANGED << cycle, stream, measured, commands, pending, initial, history >>

\* reconnectAll(), once the RTSI session is back: a driver that is not connected is
\* connected, which sends the script.
AsyncReconnects ==
  /\ AsyncGoto("idle", "flagging") /\ lost /\ stream
  /\ script # "connected"
  /\ Sends(TRUE)
  /\ UNCHANGED << cycle, stream, measured, commands, asked, history >>

\* Variant: no reset is flagged.
AsyncForgetsReset ==
  /\ AsyncGoto("flagging", "idle")
  /\ lost' = FALSE
  /\ UNCHANGED << cycle, stream, fresh, pose, playing, connected, commands, asked, session,
                  history >>

\* The reset is flagged and, back in updateAsyncIO(), the reconnection is over.
AsyncFlagsReconnect ==
  /\ AsyncGoto("flagging", "idle")
  /\ pending' = TRUE
  /\ lost' = FALSE
  /\ UNCHANGED << cycle, stream, fresh, pose, playing, connected, commands, initial,
                  request, session, history >>

-----------------------------------------------------------------------------
(***************************************************************************)
(* The arm, the network and the client of the resend service.              *)
(***************************************************************************)
\* The script takes about a second to connect back: no session connects before a whole
\* realtime cycle has passed, nor while the call that sent it has not returned.
ScriptConnects ==
  /\ script = "booting" /\ boot = "ready"
  /\ script' = "connected"
  /\ UNCHANGED << cycle, stream, measured, commands, asked, async, boot, vetting, resent,
                  framed, history >>

\* A fault, a power-off or a lost socket ends the session.
ScriptDies ==
  /\ script # "none"
  /\ script' = "none"
  /\ UNCHANGED << cycle, stream, measured, commands, asked, async, boot, vetting, resent,
                  framed, history >>

StreamChanges ==
  /\ stream' = ~stream
  /\ UNCHANGED << cycle, measured, commands, asked, async, session, history >>

ClientRequests ==
  /\ ~request
  /\ request' = TRUE
  /\ UNCHANGED << cycle, stream, measured, commands, pending, initial, async, session,
                  history >>

Realtime == ReadFrame \/ ReadFails \/ Update \/ Write
Async ==
  \/ AsyncSendsInitial \/ AsyncBeginsResend \/ AsyncStopsControl \/ AsyncSkipsResend
  \/ AsyncFlagsReset \/ AsyncResends \/ AsyncReconnects \/ AsyncFlagsReconnect
Environment == ScriptConnects \/ ScriptDies \/ StreamChanges \/ ClientRequests

Next == Realtime \/ Async \/ Environment
Spec == Init /\ [][Next]_vars

-----------------------------------------------------------------------------
(***************************************************************************)
(* Properties.                                                             *)
(***************************************************************************)
FlagsOK ==
  {stream, fresh, playing, connected, lost, pending, initial, request, vetting, resent,
   framed, refused, snapped} \subseteq BOOLEAN

TypeOK ==
  /\ cycle \in {"read", "update", "write"}
  /\ pose \in Ages /\ target \in Ages /\ setpoint \in Ages
  /\ async \in {"idle", "stopping", "confirming", "sending", "flagging"}
  /\ script \in {"none", "booting", "connected"}
  /\ boot \in {"sent", "cycle", "ready"}

\* What vetting one target per session rests on: a session that is past it holds a current
\* target, and nothing that can replace the target is older than the target.
VettingInv ==
  /\ script = "booting" => vetting
  /\ script = "connected" /\ ~vetting => target = "current"
  /\ target = "current" => pose = "current"
  /\ fresh => pose = "current"
  /\ ~snapped

\* What the reset rests on: a session that a reset is flagged for has a current target, or
\* the reset still to come; and the first frame carries it out.
FlaggedInv ==
  /\ async = "sending" => pending \/ target = "current"
  /\ script # "none" /\ resent /\ async # "flagging" =>
       /\ pending \/ target = "current"
       /\ framed /\ target = "stale" => fresh /\ cycle # "read"
  /\ async = "flagging" => ~framed
  /\ ~refused

ResetInv == TypeOK /\ FlagsOK /\ VettingInv /\ FlaggedInv

\* A reset never uses a pose from before a dropout, although the flag may have been
\* raised in the middle of one.
ResetUsesFreshPose ==
  [][cycle = "write" /\ pending /\ ~pending' => target' = "current"]_vars

\* The arm never snaps back: it follows no target that was computed before somebody
\* moved it by hand, whatever drops out, dies, times out or is sent twice.
NoSnapBack == ~snapped

\* The reset is carried out before the script connects back: a session that a reset was
\* flagged for, before its script was sent or after, has to refuse its first target only if
\* no frame came while it booted.
ResetInTime == ~refused
=============================================================================
