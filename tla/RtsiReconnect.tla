--------------------------- MODULE RtsiReconnect ---------------------------
(***************************************************************************)
(* The RTSI session of EliteCSPositionHardwareInterface, shared by three   *)
(* threads without a lock:                                                 *)
(*                                                                         *)
(*   - the realtime thread calls read() and receives one frame per cycle;  *)
(*   - async_thread_ runs updateAsyncIO() every 40 ms: it tears the session*)
(*     down and rebuilds it (reconnectAll) while reconnection_needed_ is   *)
(*     set, and performs the slow IO otherwise;                            *)
(*   - a lifecycle thread runs on_configure() and on_cleanup(), which join *)
(*     async_thread_.  The resource manager keeps them apart from read().  *)
(*                                                                         *)
(* One action per step that another thread can observe: a load or a store  *)
(* of one of the atomics, a change of the pointer, a call that blocks.     *)
(* Time is counted in ticks, and the network, the arm and the shutdown of  *)
(* the ROS context are the environment.                                    *)
(***************************************************************************)
EXTENDS Naturals

CONSTANTS
  Grace,          \* connect_grace_period_s_, in ticks
  RetryInterval   \* connect_retry_interval_s_, in ticks

ASSUME GraceAssumption == Grace \in Nat \ {0}
ASSUME RetryAssumption == RetryInterval \in Nat \ {0}

VARIABLES
  hw,            \* the component is "configured" (read() is called) or not
  life,          \* the lifecycle thread: "steady" or inside a callback
  alive,         \* async_thread_alive_
  iface,         \* rtsi_interface_: "null", "building", "up", "down"
  reconnecting,  \* rtsi_reconnecting_
  needed,        \* reconnection_needed_
  failed,        \* reconnect_failed_
  elapsed,       \* ticks since reconnect_start_time_, up to Grace
  sinceLast,     \* ticks since reconnect_last_attempt_time_, up to RetryInterval
  rt,            \* where the realtime thread is in read()
  async,         \* where async_thread_ is; "none" when there is no thread
  link,          \* the arm's RTSI server is reachable
  ok,            \* rclcpp::ok()
  script,        \* the last thing the driver told the arm: "none", "sent", "stopped"
  dangling,      \* read() is inside receiveData() of a destroyed interface
  torn,          \* history: a session was torn down under a read() that had
                 \* passed its guards, or after read() had found it alive
  crashed        \* a dangling or null interface was used and the process ended

flags   == << reconnecting, needed, failed >>
clocks  == << elapsed, sinceLast >>
control == << hw, life, alive >>
env     == << link, ok >>
ghosts  == << dangling, torn, crashed >>
vars    == << control, iface, flags, clocks, rt, async, env, script, ghosts >>

RtPc == {"idle", "checked", "receiving", "failed", "arm", "verdict", "received", "again"}
AsyncPc == {"none", "top", "recon", "giveup", "flag", "reset", "pause", "connect",
            "init", "drop", "clearFail", "clear", "driver", "resolve", "io", "flush"}

\* The atomics and the other booleans, and everything else.
FlagsOK ==
  /\ alive \in BOOLEAN
  /\ reconnecting \in BOOLEAN /\ needed \in BOOLEAN /\ failed \in BOOLEAN
  /\ link \in BOOLEAN /\ ok \in BOOLEAN
  /\ dangling \in BOOLEAN /\ torn \in BOOLEAN /\ crashed \in BOOLEAN

TypeOK ==
  /\ FlagsOK
  /\ hw \in {"unconfigured", "configured"}
  /\ life \in {"steady", "cleanup", "configure"}
  /\ iface \in {"null", "building", "up", "down"}
  /\ elapsed \in 0 .. Grace
  /\ sinceLast \in 0 .. RetryInterval
  /\ rt \in RtPc
  /\ async \in AsyncPc
  /\ script \in {"none", "sent", "stopped"}

Init ==
  /\ hw = "unconfigured" /\ life = "steady" /\ alive = FALSE
  /\ iface = "null"
  /\ reconnecting = FALSE /\ needed = FALSE /\ failed = FALSE
  /\ elapsed = Grace /\ sinceLast = RetryInterval
  /\ rt = "idle" /\ async = "none"
  /\ link \in BOOLEAN /\ ok = TRUE
  /\ script = "none"
  /\ dangling = FALSE /\ torn = FALSE /\ crashed = FALSE

-----------------------------------------------------------------------------
(***************************************************************************)
(* read(), on the realtime thread.                                         *)
(***************************************************************************)
RtGoto(from, to) == ~crashed /\ rt = from /\ rt' = to

\* The first guard: rtsi_reconnecting_ is loaded, and nothing else is looked at.
ReadCheckFlag ==
  /\ hw = "configured" /\ life = "steady"
  /\ RtGoto("idle", IF reconnecting THEN "failed" ELSE "checked")
  /\ UNCHANGED << control, iface, flags, clocks, async, env, script, ghosts >>

\* The second guard: the pointer is loaded, and receiveData() entered if it is set.
ReadCheckPointer ==
  /\ RtGoto("checked", IF iface = "null" THEN "failed" ELSE "receiving")
  /\ UNCHANGED << control, iface, flags, clocks, async, env, script, ghosts >>

\* receiveData() works on a session that is up and reachable.
Receives == ~dangling /\ iface = "up" /\ link

\* On an interface destroyed or still being built under it, the call may also fail,
\* bring the process down, or hand over the frame it had already taken in.
Undefined == dangling \/ iface \in {"null", "building"}

ReceiveOk ==
  /\ Receives \/ (Undefined /\ link)
  /\ RtGoto("receiving", "received")
  /\ dangling' = FALSE
  /\ UNCHANGED << control, iface, flags, clocks, async, env, script, torn, crashed >>

ReceiveFails ==
  /\ ~Receives
  /\ RtGoto("receiving", "failed")
  /\ dangling' = FALSE
  /\ UNCHANGED << control, iface, flags, clocks, async, env, script, torn, crashed >>

ReceiveCrashes ==
  /\ ~crashed /\ rt = "receiving" /\ Undefined
  /\ crashed' = TRUE
  /\ UNCHANGED << control, iface, flags, clocks, rt, async, env, script, dangling, torn >>

\* Variant: armed again by every failed receive.
ReadTestArmedEveryCycle ==
  /\ RtGoto("failed", "arm")
  /\ UNCHANGED << control, iface, flags, clocks, async, env, script, ghosts >>

\* A failed receive loads reconnection_needed_ and arms the reconnection only once.
ReadTestArmed ==
  /\ RtGoto("failed", IF needed THEN "verdict" ELSE "arm")
  /\ UNCHANGED << control, iface, flags, clocks, async, env, script, ghosts >>

ReadArms ==
  /\ RtGoto("arm", "verdict")
  /\ elapsed' = 0
  /\ sinceLast' = RetryInterval     \* reconnect_last_attempt_time_ = {}
  /\ failed' = FALSE
  /\ needed' = TRUE
  /\ UNCHANGED << control, iface, reconnecting, async, env, script, ghosts >>

\* read() returns ERROR, and the resource manager takes the component out of service.
ReadGivesUp ==
  /\ RtGoto("verdict", "idle")
  /\ failed \/ elapsed >= Grace
  /\ hw' = "unconfigured"
  /\ UNCHANGED << life, alive, iface, flags, clocks, async, env, script, ghosts >>

ReadToleratesOutage ==
  /\ RtGoto("verdict", "idle")
  /\ ~failed /\ elapsed < Grace
  /\ UNCHANGED << control, iface, flags, clocks, async, env, script, ghosts >>

\* A frame resolves a pending reconnection.  When it also shows that the arm was just
\* powered on, read() receives a second frame.
ReadResolves ==
  /\ \E next \in {"idle", "again"} : RtGoto("received", next)
  /\ needed' = FALSE
  /\ failed' = (failed /\ ~needed)
  /\ UNCHANGED << control, iface, reconnecting, clocks, async, env, script, ghosts >>

\* The frame is taken from rtsi_out_recipe_, which is reset with the session.
IngestCrashes ==
  /\ ~crashed /\ rt = "received" /\ iface \in {"null", "building"}
  /\ crashed' = TRUE
  /\ UNCHANGED << control, iface, flags, clocks, rt, async, env, script, dangling, torn >>

\* The second receiveData() has neither of the guards nor the try/catch of the first.
\* It succeeds or returns false: read() returns OK either way.
PowerOnReceives ==
  /\ iface # "null"
  /\ RtGoto("again", "idle")
  /\ UNCHANGED << control, iface, flags, clocks, async, env, script, ghosts >>

\* It throws: the exception leaves read(), and the component is out of service.
PowerOnThrows ==
  /\ iface # "null" /\ ~Receives
  /\ RtGoto("again", "idle")
  /\ hw' = "unconfigured"
  /\ UNCHANGED << life, alive, iface, flags, clocks, async, env, script, ghosts >>

PowerOnCrashes ==
  /\ ~crashed /\ rt = "again" /\ iface \in {"null", "building"}
  /\ crashed' = TRUE
  /\ UNCHANGED << control, iface, flags, clocks, rt, async, env, script, dangling, torn >>

Read ==
  \/ ReadCheckFlag \/ ReadCheckPointer
  \/ ReceiveOk \/ ReceiveFails \/ ReceiveCrashes
  \/ ReadTestArmed \/ ReadArms \/ ReadGivesUp \/ ReadToleratesOutage
  \/ ReadResolves \/ IngestCrashes
  \/ PowerOnReceives \/ PowerOnThrows \/ PowerOnCrashes

-----------------------------------------------------------------------------
(***************************************************************************)
(* asyncThread() and updateAsyncIO().                                      *)
(***************************************************************************)
AsyncGoto(from, to) == ~crashed /\ async = from /\ async' = to

\* The SDK's isStarted(): the session was started and not disconnected since.
IsStarted == iface \in {"up", "down"}

AsyncExits ==
  /\ ~alive
  /\ AsyncGoto("top", "none")
  /\ UNCHANGED << control, iface, flags, clocks, rt, env, script, ghosts >>

\* Variant: the loop does not test async_thread_alive_.
AsyncRoundForever ==
  /\ iface = "null" \/ IsStarted
  /\ AsyncGoto("top", IF needed THEN "recon" ELSE "io")
  /\ UNCHANGED << control, iface, flags, clocks, rt, env, script, ghosts >>

\* One round of the loop: the started-guard, then the load of reconnection_needed_.
AsyncRound ==
  /\ alive
  /\ iface = "null" \/ IsStarted
  /\ AsyncGoto("top", IF needed THEN "recon" ELSE "io")
  /\ UNCHANGED << control, iface, flags, clocks, rt, env, script, ghosts >>

\* The reconnection block: give up, attempt, or leave it for a later round.
AsyncDecides ==
  /\ AsyncGoto("recon",
       IF ~ok \/ failed THEN "top"
       ELSE IF elapsed >= Grace THEN "giveup"
       ELSE IF sinceLast >= RetryInterval THEN "flag"
       ELSE "top")
  /\ sinceLast' = IF async' = "flag" THEN 0 ELSE sinceLast
  /\ UNCHANGED << control, iface, flags, elapsed, rt, env, script, ghosts >>

AsyncGivesUp ==
  /\ AsyncGoto("giveup", "top")
  /\ failed' = TRUE
  /\ UNCHANGED << control, iface, reconnecting, needed, clocks, rt, env, script, ghosts >>

\* reconnectAll(), store by store.
ReconnectRaisesFlag ==
  /\ AsyncGoto("flag", "reset")
  /\ reconnecting' = TRUE
  /\ UNCHANGED << control, iface, needed, failed, clocks, rt, env, script, ghosts >>

ReconnectResets ==
  /\ AsyncGoto("reset", "pause")
  /\ iface' = "null"
  /\ dangling' = (rt = "receiving")
  /\ torn' = (torn \/ ~needed \/ rt \in {"receiving", "received"})
  /\ UNCHANGED << control, flags, clocks, rt, env, script, crashed >>

\* The pause polls the alive flag and the context: either ends the attempt.
ReconnectAborts ==
  /\ ~alive \/ ~ok
  /\ AsyncGoto("pause", "top")
  /\ reconnecting' = FALSE
  /\ UNCHANGED << control, iface, needed, failed, clocks, rt, env, script, ghosts >>

ReconnectConstructs ==
  /\ alive /\ ok
  /\ AsyncGoto("pause", "connect")
  /\ iface' = "building"
  /\ torn' = (torn \/ rt = "checked")
  /\ UNCHANGED << control, flags, clocks, rt, env, script, dangling, crashed >>

ReconnectConnects ==
  /\ AsyncGoto("connect", IF link THEN "init" ELSE "drop")
  /\ UNCHANGED << control, iface, flags, clocks, rt, env, script, ghosts >>

\* rtsiInit(): negotiation, both recipes, start of the data sync.
ReconnectInits ==
  /\ AsyncGoto("init", IF link THEN "clear" ELSE "drop")
  /\ iface' = IF link THEN "up" ELSE iface
  /\ UNCHANGED << control, flags, clocks, rt, env, script, ghosts >>

\* Variant: a failure path that does not reset the pointer.
ReconnectKeepsPartial ==
  /\ AsyncGoto("drop", "clearFail")
  /\ UNCHANGED << control, iface, flags, clocks, rt, env, script, ghosts >>

\* Every failure path: the pointer is reset first, the flag cleared second.
ReconnectDrops ==
  /\ AsyncGoto("drop", "clearFail")
  /\ iface' = "null"
  /\ UNCHANGED << control, flags, clocks, rt, env, script, ghosts >>

ReconnectFailed ==
  /\ AsyncGoto("clearFail", "top")
  /\ reconnecting' = FALSE
  /\ UNCHANGED << control, iface, needed, failed, clocks, rt, env, script, ghosts >>

\* Variant: the success path does not clear the flag.
ReconnectLeavesFlag ==
  /\ AsyncGoto("clear", "driver")
  /\ UNCHANGED << control, iface, flags, clocks, rt, env, script, ghosts >>

ReconnectClears ==
  /\ AsyncGoto("clear", "driver")
  /\ reconnecting' = FALSE
  /\ UNCHANGED << control, iface, needed, failed, clocks, rt, env, script, ghosts >>

\* The control channel: already connected, connected now (which resends the script in
\* headless mode), refused by the arm, or left alone because the context is gone.
ReconnectDriver ==
  /\ \/ AsyncGoto("driver", "resolve") /\ UNCHANGED script
     \/ ok /\ link /\ AsyncGoto("driver", "resolve") /\ script' = "sent"
     \/ ~ok /\ AsyncGoto("driver", "top") /\ UNCHANGED script
  /\ UNCHANGED << control, iface, flags, clocks, rt, env, ghosts >>

\* connect() throws, outside the try of reconnectAll(): the exception ends the round, and a
\* reconnection that is still needed begins with a teardown again.
ReconnectThrows ==
  /\ AsyncGoto("driver", "top")
  /\ script' \in {script} \cup (IF link THEN {"sent"} ELSE {})
  /\ UNCHANGED << control, iface, flags, clocks, rt, env, ghosts >>

ReconnectResolves ==
  /\ AsyncGoto("resolve", "top")
  /\ needed' = FALSE
  /\ failed' = FALSE
  /\ UNCHANGED << control, iface, reconnecting, clocks, rt, env, script, ghosts >>

\* The IO of a round, which may send the control script, and which an exception ends.
AsyncPerformsIO ==
  /\ \E next \in {"flush", "top"} : AsyncGoto("io", next)
  /\ script' \in {script} \cup (IF link THEN {"sent"} ELSE {})
  /\ UNCHANGED << control, iface, flags, clocks, rt, env, ghosts >>

\* The round ends with rtsi_interface_->isConnected() and send(), with no null check.
AsyncFlushes ==
  /\ iface # "null"
  /\ AsyncGoto("flush", "top")
  /\ UNCHANGED << control, iface, flags, clocks, rt, env, script, ghosts >>

AsyncFlushCrashes ==
  /\ ~crashed /\ async = "flush" /\ iface = "null"
  /\ crashed' = TRUE
  /\ UNCHANGED << control, iface, flags, clocks, rt, async, env, script, dangling, torn >>

Async ==
  \/ AsyncExits \/ AsyncRound \/ AsyncDecides \/ AsyncGivesUp
  \/ ReconnectRaisesFlag \/ ReconnectResets \/ ReconnectAborts \/ ReconnectConstructs
  \/ ReconnectConnects \/ ReconnectInits \/ ReconnectDrops \/ ReconnectFailed
  \/ ReconnectClears \/ ReconnectDriver \/ ReconnectThrows \/ ReconnectResolves
  \/ AsyncPerformsIO \/ AsyncFlushes \/ AsyncFlushCrashes

-----------------------------------------------------------------------------
(***************************************************************************)
(* Lifecycle callbacks.  They hold the component's lock: read() is between *)
(* two cycles while one of them runs.                                      *)
(***************************************************************************)
InCallback(callback) == ~crashed /\ life = callback

BeginConfigure ==
  /\ InCallback("steady") /\ rt = "idle" /\ hw = "unconfigured" /\ ok
  /\ life' = "configure"
  /\ alive' = FALSE
  /\ UNCHANGED << hw, iface, flags, clocks, rt, async, env, script, ghosts >>

\* What the teardown at the head of on_configure() leaves, once async_thread_ is joined.
ConfigureTearsDown ==
  /\ InCallback("configure") /\ async = "none"
  /\ reconnecting' = FALSE /\ needed' = FALSE /\ failed' = FALSE
  /\ dangling' = FALSE /\ torn' = FALSE
  /\ life' = "steady"
  /\ UNCHANGED << clocks, rt, env, crashed >>

\* Driver and session connect within the grace period, and the thread is started.
ConfigureSucceeds ==
  /\ ConfigureTearsDown
  /\ link
  /\ iface' = "up"
  /\ script' = "sent"
  /\ alive' = TRUE /\ async' = "top"
  /\ hw' = "configured"

\* One of them does not connect, or rtsiInit() fails on a session it leaves behind: the
\* callback returns ERROR and starts no thread.
ConfigureFails ==
  /\ ConfigureTearsDown
  /\ iface' \in {"null", "building"}
  /\ script' \in {script, "sent"}
  /\ UNCHANGED << hw, alive, async >>

\* on_cleanup(): as a transition, or called by the destructor in any state.
BeginCleanup ==
  /\ InCallback("steady") /\ rt = "idle"
  /\ life' = "cleanup"
  /\ alive' = FALSE
  /\ UNCHANGED << hw, iface, flags, clocks, rt, async, env, script, ghosts >>

\* Variant: async_thread_ is signalled but not joined.
CleanupStopsUnjoined ==
  /\ InCallback("cleanup")
  /\ script' = "stopped"
  /\ iface' = "null"
  /\ life' = "steady" /\ hw' = "unconfigured"
  /\ UNCHANGED << alive, flags, clocks, rt, async, env, ghosts >>

\* After the join: stopControl(), then the driver and the session are destroyed.
CleanupStops ==
  /\ InCallback("cleanup") /\ async = "none"
  /\ script' = "stopped"
  /\ iface' = "null"
  /\ life' = "steady" /\ hw' = "unconfigured"
  /\ UNCHANGED << alive, flags, clocks, rt, async, env, ghosts >>

Lifecycle ==
  BeginConfigure \/ ConfigureSucceeds \/ ConfigureFails \/ BeginCleanup \/ CleanupStops

-----------------------------------------------------------------------------
(***************************************************************************)
(* The environment.                                                        *)
(***************************************************************************)
\* The socket of a session may die with the link, or survive a short outage.
LinkDown ==
  /\ link /\ link' = FALSE
  /\ iface' \in {iface} \cup (IF iface = "up" THEN {"down"} ELSE {})
  /\ UNCHANGED << control, flags, clocks, rt, async, ok, script, ghosts >>

LinkUp ==
  /\ ~link /\ link' = TRUE
  /\ UNCHANGED << control, iface, flags, clocks, rt, async, ok, script, ghosts >>

ContextShutdown ==
  /\ ok /\ ok' = FALSE
  /\ UNCHANGED << control, iface, flags, clocks, rt, async, link, script, ghosts >>

Tick ==
  /\ elapsed < Grace \/ sinceLast < RetryInterval
  /\ elapsed' = IF elapsed < Grace THEN elapsed + 1 ELSE elapsed
  /\ sinceLast' = IF sinceLast < RetryInterval THEN sinceLast + 1 ELSE sinceLast
  /\ UNCHANGED << control, iface, flags, rt, async, env, script, ghosts >>

Environment == LinkDown \/ LinkUp \/ ContextShutdown \/ Tick

Next == Read \/ Async \/ Lifecycle \/ Environment

\* The realtime loop cycles, async_thread_ is scheduled, a callback that has begun is
\* run to its end, and time passes.  Nothing is assumed of the network, and of the driver's
\* connect() that it does not throw for ever.
Fairness ==
  /\ WF_vars(Read)
  /\ WF_vars(Async) /\ SF_vars(ReconnectDriver)
  /\ WF_vars(ConfigureSucceeds \/ ConfigureFails \/ CleanupStops)
  /\ WF_vars(Tick)

Safety == Init /\ [][Next]_vars
Spec == Safety /\ Fairness

-----------------------------------------------------------------------------
(***************************************************************************)
(* Properties.                                                             *)
(***************************************************************************)

\* The ordering the header asks for: while the component is in service and
\* rtsi_reconnecting_ is clear, rtsi_interface_ never holds a session that reconnectAll()
\* has not finished building.
PartialInterfaceHidden ==
  hw = "configured" /\ ~reconnecting => iface # "building"

\* No IO round uses rtsi_interface_ while it is null, as updateAsyncIO() relies on without
\* a check: reconnection_needed_ stays set for as long as the session is gone.  It holds of
\* every history in which no session was torn down under a read() past its guards.
IoInterfaceLive ==
  async \in {"io", "flush"} /\ ~torn => iface # "null"

\* The inductive invariant behind the two: where async_thread_ is in reconnectAll()
\* determines the pointer and the flag, and a session that is gone keeps
\* reconnection_needed_ set and read() outside receiveData().
PointerInv ==
  /\ async \in {"pause", "clearFail"} => iface = "null"
  /\ async \in {"connect", "init", "drop"} => iface = "building"
  /\ async \in {"clear", "driver", "resolve"} => iface \in {"up", "down"}
  /\ iface = "building"
       => \/ async \in {"connect", "init", "drop"}
          \/ async = "none" /\ hw = "unconfigured"

CallbackInv ==
  /\ life = "configure" => hw = "unconfigured"
  /\ script = "stopped" => async = "none"

FlagInv ==
  async \in {"reset", "pause", "connect", "init", "drop", "clearFail", "clear"}
    => reconnecting

TeardownInv ==
  ~torn /\ async # "none" =>
    /\ iface \in {"null", "building"} => needed /\ rt \notin {"receiving", "received"}
    /\ iface = "building" => rt # "checked"
    /\ async \in {"io", "flush"} => iface \in {"up", "down"}

SessionInv == TypeOK /\ PointerInv /\ CallbackInv /\ FlagInv /\ TeardownInv

\* An outage is never endured in silence: the arm comes back, or read() takes the component
\* out of service, whatever the timing of async_thread_ and of its attempts.
OutageReported ==
  hw = "configured" /\ ~link ~> link \/ hw = "unconfigured" \/ crashed

\* Nor can it be drawn out: however often read() fails, the grace period of an outage runs on
\* until the outage is over.
GraceRunsOn == [][needed /\ needed' => elapsed' >= elapsed]_vars

\* If the arm stays reachable and the component in service, a session that read() may use
\* is rebuilt, and rebuilt again should a late failure of read() have it torn down.
SessionRestored ==
  <>[](link /\ ok /\ hw = "configured" /\ life = "steady" /\ ~crashed)
    => []<>(iface = "up" /\ ~needed /\ ~reconnecting)

\* on_cleanup() has the last word: once it told the arm to stop, nothing sends the control
\* script again before the next on_configure().
CleanStopSticks ==
  [][script = "stopped" /\ script' # "stopped" => life = "configure"]_vars

\* The join in on_configure() and on_cleanup() returns: async_thread_ leaves its loop, its
\* pauses and a reconnection attempt under way.
JoinReturns ==
  ~alive ~> async = "none" \/ alive \/ crashed

\* The steps async_thread_ takes at most to its end, once it has been told to end.
StepsLeft ==
  CASE async = "none" -> 0
    [] async = "top" -> 1
    [] async \in {"giveup", "pause", "clearFail", "resolve", "flush"} -> 2
    [] async \in {"reset", "drop", "driver", "io"} -> 3
    [] async \in {"flag", "clear"} -> 4
    [] async \in {"recon", "init"} -> 5
    [] async = "connect" -> 6

\* What the join waits for comes closer with every step of the thread, wherever it was told to
\* end, and nothing else takes it further away.
JoinAdvances ==
  [][~alive' => IF Async /\ ~crashed' THEN StepsLeft' < StepsLeft
                ELSE async' = async]_vars

\* What the header and the comment on read() say of the guards: receiveData() is not called
\* on an interface that reconnectAll() is tearing down or rebuilding.
NoReceiveDuringTeardown ==
  rt = "receiving" => ~Undefined
=============================================================================
