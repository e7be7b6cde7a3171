------------------------ MODULE RtsiReconnectProofs ------------------------
(***************************************************************************)
(* SessionInv is an inductive invariant of RtsiReconnect for every grace   *)
(* period and retry interval.  The claims of the header about the guards   *)
(* follow from it.                                                         *)
(***************************************************************************)
EXTENDS RtsiReconnect, TLAPS

\* The steps of read() preserve the invariant: they touch no pointer, and they clear
\* reconnection_needed_ only after a receive that no teardown overlapped.
LEMMA ReadPreserves == SessionInv /\ Read => SessionInv'
<1> SUFFICES ASSUME SessionInv, Read PROVE SessionInv'
  OBVIOUS
<1> USE GraceAssumption, RetryAssumption
    DEF SessionInv, TypeOK, RtPc, AsyncPc, RtGoto, flags, clocks, control, env, ghosts
<1>1. CASE ReadCheckFlag
  <2>1. FlagsOK'
    BY <1>1, Zenon DEF ReadCheckFlag, FlagsOK
  <2> QED
    BY <1>1, <2>1 DEF ReadCheckFlag, FlagsOK, PointerInv, CallbackInv, FlagInv, TeardownInv
<1>2. CASE ReadCheckPointer
  <2>1. FlagsOK'
    BY <1>2, Zenon DEF ReadCheckPointer, FlagsOK
  <2> QED
    BY <1>2, <2>1 DEF ReadCheckPointer, FlagsOK, PointerInv, CallbackInv, FlagInv, TeardownInv
<1>3. CASE ReceiveOk
  <2>1. FlagsOK'
    BY <1>3, Zenon DEF ReceiveOk, FlagsOK
  <2> QED
    BY <1>3, <2>1 DEF ReceiveOk, FlagsOK, PointerInv, CallbackInv, FlagInv, TeardownInv
<1>4. CASE ReceiveFails
  <2>1. FlagsOK'
    BY <1>4, Zenon DEF ReceiveFails, FlagsOK
  <2> QED
    BY <1>4, <2>1 DEF ReceiveFails, FlagsOK, PointerInv, CallbackInv, FlagInv, TeardownInv
<1>5. CASE ReceiveCrashes
  <2>1. FlagsOK'
    BY <1>5, Zenon DEF ReceiveCrashes, FlagsOK
  <2> QED
    BY <1>5, <2>1 DEF ReceiveCrashes, FlagsOK, PointerInv, CallbackInv, FlagInv, TeardownInv
<1>6. CASE ReadTestArmed
  <2>1. FlagsOK'
    BY <1>6, Zenon DEF ReadTestArmed, FlagsOK
  <2> QED
    BY <1>6, <2>1 DEF ReadTestArmed, FlagsOK, PointerInv, CallbackInv, FlagInv, TeardownInv
<1>7. CASE ReadArms
  <2>1. FlagsOK'
    BY <1>7, Zenon DEF ReadArms, FlagsOK
  <2> QED
    BY <1>7, <2>1 DEF ReadArms, FlagsOK, PointerInv, CallbackInv, FlagInv, TeardownInv
<1>8. CASE ReadGivesUp
  <2>1. FlagsOK'
    BY <1>8, Zenon DEF ReadGivesUp, FlagsOK
  <2> QED
    BY <1>8, <2>1 DEF ReadGivesUp, FlagsOK, PointerInv, CallbackInv, FlagInv, TeardownInv
<1>9. CASE ReadToleratesOutage
  <2>1. FlagsOK'
    BY <1>9, Zenon DEF ReadToleratesOutage, FlagsOK
  <2> QED
    BY <1>9, <2>1 DEF ReadToleratesOutage, FlagsOK, PointerInv, CallbackInv, FlagInv, TeardownInv
<1>10. CASE ReadResolves
  <2>1. FlagsOK'
    BY <1>10, Zenon DEF ReadResolves, FlagsOK
  <2> QED
    BY <1>10, <2>1 DEF ReadResolves, FlagsOK, PointerInv, CallbackInv, FlagInv, TeardownInv
<1>11. CASE PowerOnReceives
  <2>1. FlagsOK'
    BY <1>11, Zenon DEF PowerOnReceives, FlagsOK
  <2> QED
    BY <1>11, <2>1 DEF PowerOnReceives, FlagsOK, PointerInv, CallbackInv, FlagInv, TeardownInv
<1>12. CASE PowerOnThrows
  <2>1. FlagsOK'
    BY <1>12, Zenon DEF PowerOnThrows, FlagsOK
  <2> QED
    BY <1>12, <2>1 DEF PowerOnThrows, FlagsOK, PointerInv, CallbackInv, FlagInv, TeardownInv
<1>13. CASE PowerOnCrashes
  <2>1. FlagsOK'
    BY <1>13, Zenon DEF PowerOnCrashes, FlagsOK
  <2> QED
    BY <1>13, <2>1 DEF PowerOnCrashes, FlagsOK, PointerInv, CallbackInv, FlagInv, TeardownInv
<1>14. CASE IngestCrashes
  <2>1. FlagsOK'
    BY <1>14, Zenon DEF IngestCrashes, FlagsOK
  <2> QED
    BY <1>14, <2>1 DEF IngestCrashes, FlagsOK, PointerInv, CallbackInv, FlagInv, TeardownInv
<1> QED
  BY <1>1, <1>2, <1>3, <1>4, <1>5, <1>6, <1>7, <1>8, <1>9, <1>10, <1>11, <1>12, <1>13, <1>14
  DEF Read

\* The steps of async_thread_ preserve it: the order of the stores in reconnectAll() is
\* what PointerInv and FlagInv record.
LEMMA AsyncPreserves == SessionInv /\ Async => SessionInv'
<1> SUFFICES ASSUME SessionInv, Async PROVE SessionInv'
  OBVIOUS
<1> USE GraceAssumption, RetryAssumption
    DEF SessionInv, TypeOK, RtPc, AsyncPc, AsyncGoto, flags, clocks, control, env, ghosts
<1>1. CASE AsyncExits
  <2>1. FlagsOK'
    BY <1>1, Zenon DEF AsyncExits, FlagsOK
  <2> QED
    BY <1>1, <2>1 DEF AsyncExits, FlagsOK, PointerInv, CallbackInv, FlagInv, TeardownInv
<1>2. CASE AsyncRound
  <2>1. FlagsOK'
    BY <1>2, Zenon DEF AsyncRound, FlagsOK
  <2> QED
    BY <1>2, <2>1 DEF AsyncRound, IsStarted, FlagsOK, PointerInv, CallbackInv, FlagInv, TeardownInv
<1>3. CASE AsyncDecides
  <2>1. FlagsOK'
    BY <1>3, Zenon DEF AsyncDecides, FlagsOK
  <2> QED
    BY <1>3, <2>1 DEF AsyncDecides, FlagsOK, PointerInv, CallbackInv, FlagInv, TeardownInv
<1>4. CASE AsyncGivesUp
  <2>1. FlagsOK'
    BY <1>4, Zenon DEF AsyncGivesUp, FlagsOK
  <2> QED
    BY <1>4, <2>1 DEF AsyncGivesUp, FlagsOK, PointerInv, CallbackInv, FlagInv, TeardownInv
<1>5. CASE ReconnectRaisesFlag
  <2>1. FlagsOK'
    BY <1>5, Zenon DEF ReconnectRaisesFlag, FlagsOK
  <2> QED
    BY <1>5, <2>1 DEF ReconnectRaisesFlag, FlagsOK, PointerInv, CallbackInv, FlagInv, TeardownInv
<1>6. CASE ReconnectResets
  <2>1. FlagsOK'
    BY <1>6, Zenon DEF ReconnectResets, FlagsOK
  <2>2. ~torn' => needed /\ rt \notin {"receiving", "received"}
    BY <1>6, Zenon DEF ReconnectResets
  <2> QED
    BY <1>6, <2>1, <2>2 DEF ReconnectResets, FlagsOK, PointerInv, CallbackInv, FlagInv, TeardownInv
<1>7. CASE ReconnectAborts
  <2>1. FlagsOK'
    BY <1>7, Zenon DEF ReconnectAborts, FlagsOK
  <2> QED
    BY <1>7, <2>1 DEF ReconnectAborts, FlagsOK, PointerInv, CallbackInv, FlagInv, TeardownInv
<1>8. CASE ReconnectConstructs
  <2>1. FlagsOK'
    BY <1>8, Zenon DEF ReconnectConstructs, FlagsOK
  <2>2. ~torn' => ~torn /\ rt # "checked"
    BY <1>8, Zenon DEF ReconnectConstructs
  <2> QED
    BY <1>8, <2>1, <2>2 DEF ReconnectConstructs, FlagsOK, PointerInv, CallbackInv, FlagInv,
       TeardownInv
<1>9. CASE ReconnectConnects
  <2>1. FlagsOK'
    BY <1>9, Zenon DEF ReconnectConnects, FlagsOK
  <2> QED
    BY <1>9, <2>1 DEF ReconnectConnects, FlagsOK, PointerInv, CallbackInv, FlagInv, TeardownInv
<1>10. CASE ReconnectInits
  <2>1. FlagsOK'
    BY <1>10, Zenon DEF ReconnectInits, FlagsOK
  <2> QED
    BY <1>10, <2>1 DEF ReconnectInits, FlagsOK, PointerInv, CallbackInv, FlagInv, TeardownInv
<1>11. CASE ReconnectDrops
  <2>1. FlagsOK'
    BY <1>11, Zenon DEF ReconnectDrops, FlagsOK
  <2> QED
    BY <1>11, <2>1 DEF ReconnectDrops, FlagsOK, PointerInv, CallbackInv, FlagInv, TeardownInv
<1>12. CASE ReconnectFailed
  <2>1. FlagsOK'
    BY <1>12, Zenon DEF ReconnectFailed, FlagsOK
  <2> QED
    BY <1>12, <2>1 DEF ReconnectFailed, FlagsOK, PointerInv, CallbackInv, FlagInv, TeardownInv
<1>13. CASE ReconnectClears
  <2>1. FlagsOK'
    BY <1>13, Zenon DEF ReconnectClears, FlagsOK
  <2> QED
    BY <1>13, <2>1 DEF ReconnectClears, FlagsOK, PointerInv, CallbackInv, FlagInv, TeardownInv
<1>14. CASE ReconnectDriver
  <2>1. FlagsOK'
    BY <1>14, Zenon DEF ReconnectDriver, FlagsOK
  <2> QED
    BY <1>14, <2>1 DEF ReconnectDriver, FlagsOK, PointerInv, CallbackInv, FlagInv, TeardownInv
<1>15. CASE ReconnectResolves
  <2>1. FlagsOK'
    BY <1>15, Zenon DEF ReconnectResolves, FlagsOK
  <2> QED
    BY <1>15, <2>1 DEF ReconnectResolves, FlagsOK, PointerInv, CallbackInv, FlagInv, TeardownInv
<1>16. CASE AsyncPerformsIO
  <2>1. FlagsOK'
    BY <1>16, Zenon DEF AsyncPerformsIO, FlagsOK
  <2> QED
    BY <1>16, <2>1 DEF AsyncPerformsIO, FlagsOK, PointerInv, CallbackInv, FlagInv, TeardownInv
<1>17. CASE AsyncFlushes
  <2>1. FlagsOK'
    BY <1>17, Zenon DEF AsyncFlushes, FlagsOK
  <2> QED
    BY <1>17, <2>1 DEF AsyncFlushes, FlagsOK, PointerInv, CallbackInv, FlagInv, TeardownInv
<1>18. CASE AsyncFlushCrashes
  <2>1. FlagsOK'
    BY <1>18, Zenon DEF AsyncFlushCrashes, FlagsOK
  <2> QED
    BY <1>18, <2>1 DEF AsyncFlushCrashes, FlagsOK, PointerInv, CallbackInv, FlagInv, TeardownInv
<1>19. CASE ReconnectThrows
  <2>1. FlagsOK'
    BY <1>19, Zenon DEF ReconnectThrows, FlagsOK
  <2> QED
    BY <1>19, <2>1 DEF ReconnectThrows, FlagsOK, PointerInv, CallbackInv, FlagInv, TeardownInv
<1> QED
  BY <1>1, <1>2, <1>3, <1>4, <1>5, <1>6, <1>7, <1>8, <1>9, <1>10, <1>11, <1>12, <1>13, <1>14,
     <1>15, <1>16, <1>17, <1>18, <1>19
  DEF Async

\* The lifecycle callbacks preserve it, because they join async_thread_ before they touch
\* what it uses.
LEMMA LifecyclePreserves == SessionInv /\ Lifecycle => SessionInv'
<1> SUFFICES ASSUME SessionInv, Lifecycle PROVE SessionInv'
  OBVIOUS
<1> USE GraceAssumption, RetryAssumption
    DEF SessionInv, TypeOK, RtPc, AsyncPc, InCallback, ConfigureTearsDown, flags, clocks,
        control, env, ghosts
<1>1. CASE BeginConfigure
  <2>1. FlagsOK'
    BY <1>1, Zenon DEF BeginConfigure, FlagsOK
  <2> QED
    BY <1>1, <2>1 DEF BeginConfigure, FlagsOK, PointerInv, CallbackInv, FlagInv, TeardownInv
<1>2. CASE ConfigureSucceeds
  <2>1. FlagsOK'
    BY <1>2, Zenon DEF ConfigureSucceeds, FlagsOK
  <2> QED
    BY <1>2, <2>1 DEF ConfigureSucceeds, FlagsOK, PointerInv, CallbackInv, FlagInv, TeardownInv
<1>3. CASE ConfigureFails
  <2>1. FlagsOK'
    BY <1>3, Zenon DEF ConfigureFails, FlagsOK
  <2> QED
    BY <1>3, <2>1 DEF ConfigureFails, FlagsOK, PointerInv, CallbackInv, FlagInv, TeardownInv
<1>4. CASE BeginCleanup
  <2>1. FlagsOK'
    BY <1>4, Zenon DEF BeginCleanup, FlagsOK
  <2> QED
    BY <1>4, <2>1 DEF BeginCleanup, FlagsOK, PointerInv, CallbackInv, FlagInv, TeardownInv
<1>5. CASE CleanupStops
  <2>1. FlagsOK'
    BY <1>5, Zenon DEF CleanupStops, FlagsOK
  <2> QED
    BY <1>5, <2>1 DEF CleanupStops, FlagsOK, PointerInv, CallbackInv, FlagInv, TeardownInv
<1> QED
  BY <1>1, <1>2, <1>3, <1>4, <1>5 DEF Lifecycle

\* Nothing the network, the context or the clock does can break it.
LEMMA EnvironmentPreserves == SessionInv /\ Environment => SessionInv'
<1> SUFFICES ASSUME SessionInv, Environment PROVE SessionInv'
  OBVIOUS
<1> USE GraceAssumption, RetryAssumption
    DEF SessionInv, TypeOK, RtPc, AsyncPc, flags, clocks, control, env, ghosts
<1>1. CASE LinkDown
  <2>1. FlagsOK'
    BY <1>1, Zenon DEF LinkDown, FlagsOK
  <2> QED
    BY <1>1, <2>1 DEF LinkDown, FlagsOK, PointerInv, CallbackInv, FlagInv, TeardownInv
<1>2. CASE LinkUp
  <2>1. FlagsOK'
    BY <1>2, Zenon DEF LinkUp, FlagsOK
  <2> QED
    BY <1>2, <2>1 DEF LinkUp, FlagsOK, PointerInv, CallbackInv, FlagInv, TeardownInv
<1>3. CASE ContextShutdown
  <2>1. FlagsOK'
    BY <1>3, Zenon DEF ContextShutdown, FlagsOK
  <2> QED
    BY <1>3, <2>1 DEF ContextShutdown, FlagsOK, PointerInv, CallbackInv, FlagInv, TeardownInv
<1>4. CASE Tick
  <2>1. FlagsOK'
    BY <1>4, Zenon DEF Tick, FlagsOK
  <2> QED
    BY <1>4, <2>1 DEF Tick, FlagsOK, PointerInv, CallbackInv, FlagInv, TeardownInv
<1> QED
  BY <1>1, <1>2, <1>3, <1>4 DEF Environment

\* The invariant holds of every behaviour, fair or not.
THEOREM SessionInvariant == Safety => []SessionInv
<1>1. Init => SessionInv
  <2>1. Init => FlagsOK
    BY Zenon DEF Init, FlagsOK
  <2>2. Init => TypeOK
    BY <2>1, GraceAssumption, RetryAssumption DEF Init, TypeOK, RtPc, AsyncPc
  <2> QED
    BY <2>2 DEF Init, SessionInv, PointerInv, CallbackInv, FlagInv, TeardownInv
<1>2. SessionInv /\ [Next]_vars => SessionInv'
  <2> SUFFICES ASSUME SessionInv, [Next]_vars PROVE SessionInv'
    OBVIOUS
  <2>1. CASE Next
    BY <2>1, ReadPreserves, AsyncPreserves, LifecyclePreserves, EnvironmentPreserves DEF Next
  <2>2. CASE UNCHANGED vars
    BY <2>2 DEF vars, flags, clocks, control, env, ghosts, SessionInv, TypeOK, FlagsOK,
         PointerInv, CallbackInv, FlagInv, TeardownInv
  <2> QED
    BY <2>1, <2>2
<1> QED
  BY <1>1, <1>2, PTL DEF Safety

\* Type correctness.
THEOREM TypeCorrect == Safety => []TypeOK
<1>1. SessionInv => TypeOK
  BY DEF SessionInv
<1> QED
  BY <1>1, SessionInvariant, PTL

\* The ordering invariant of the header: a session under construction is never left to
\* read() with a clear rtsi_reconnecting_.
THEOREM PartialInterfaceIsHidden == Safety => []PartialInterfaceHidden
<1>1. SessionInv => PartialInterfaceHidden
  BY DEF SessionInv, PointerInv, FlagInv, PartialInterfaceHidden
<1> QED
  BY <1>1, SessionInvariant, PTL

\* IO rounds never meet a null rtsi_interface_, provided that no session was torn down
\* under a read() past its guards.
THEOREM IoInterfaceIsLive == Safety => []IoInterfaceLive
<1>1. SessionInv => IoInterfaceLive
  BY DEF SessionInv, TeardownInv, IoInterfaceLive
<1> QED
  BY <1>1, SessionInvariant, PTL

\* Between on_cleanup() and the next on_configure() no control script is sent, because
\* the thread that could send one was joined before stopControl().
THEOREM CleanStopHolds == Safety => CleanStopSticks
<1>1. SessionInv /\ [Next]_vars
        => [script = "stopped" /\ script' # "stopped" => life = "configure"]_vars
  <2> SUFFICES ASSUME SessionInv, Next, script = "stopped", script' # "stopped"
               PROVE  life = "configure"
    BY DEF vars
  <2>1. async = "none"
    BY DEF SessionInv, CallbackInv
  <2>2. CASE Read
    BY <2>2 DEF Read, ReadCheckFlag, ReadCheckPointer, ReceiveOk, ReceiveFails,
       ReceiveCrashes, ReadTestArmed, ReadArms, ReadGivesUp, ReadToleratesOutage,
       ReadResolves, IngestCrashes, PowerOnReceives, PowerOnThrows, PowerOnCrashes
  <2>3. CASE Async
    BY <2>1, <2>3 DEF Async, AsyncExits, AsyncRound, AsyncDecides, AsyncGivesUp,
       ReconnectRaisesFlag, ReconnectResets, ReconnectAborts, ReconnectConstructs,
       ReconnectConnects, ReconnectInits, ReconnectDrops, ReconnectFailed,
       ReconnectClears, ReconnectDriver, ReconnectThrows, ReconnectResolves, AsyncPerformsIO,
       AsyncFlushes, AsyncFlushCrashes, AsyncGoto
  <2>4. CASE Lifecycle
    BY <2>4 DEF Lifecycle, BeginConfigure, BeginCleanup, ConfigureSucceeds,
       ConfigureFails, ConfigureTearsDown, CleanupStops, InCallback
  <2>5. CASE Environment
    BY <2>5 DEF Environment, LinkDown, LinkUp, ContextShutdown, Tick
  <2> QED
    BY <2>2, <2>3, <2>4, <2>5 DEF Next
<1> QED
  BY <1>1, SessionInvariant, PTL DEF Safety, CleanStopSticks

\* read() arms a reconnection only if it found none pending, and nothing else arms one.
ArmInv == rt = "arm" => ~needed

LEMMA ArmsOnce ==
  ASSUME TypeOK, ArmInv, Next
  PROVE  ArmInv' /\ (needed /\ needed' => elapsed' >= elapsed)
<1>1. elapsed \in Nat
  BY GraceAssumption DEF TypeOK
<1>2. CASE ReadArms
  BY <1>2 DEF ReadArms, RtGoto, ArmInv
<1>3. CASE Read /\ ~ReadArms
  BY <1>1, <1>3 DEF Read, ReadCheckFlag, ReadCheckPointer, ReceiveOk, ReceiveFails, ReceiveCrashes,
     ReadTestArmed, ReadGivesUp, ReadToleratesOutage, ReadResolves, IngestCrashes, PowerOnReceives,
     PowerOnThrows, PowerOnCrashes, RtGoto, ArmInv, flags, clocks
<1>4. CASE Async
  BY <1>1, <1>4 DEF Async, AsyncExits, AsyncRound, AsyncDecides, AsyncGivesUp,
     ReconnectRaisesFlag, ReconnectResets, ReconnectAborts, ReconnectConstructs,
     ReconnectConnects, ReconnectInits, ReconnectDrops, ReconnectFailed,
     ReconnectClears, ReconnectDriver, ReconnectThrows, ReconnectResolves, AsyncPerformsIO,
     AsyncFlushes, AsyncFlushCrashes, ArmInv, flags, clocks
<1>5. CASE Lifecycle
  BY <1>1, <1>5 DEF Lifecycle, BeginConfigure, BeginCleanup, ConfigureSucceeds,
     ConfigureFails, ConfigureTearsDown, CleanupStops, ArmInv, flags, clocks
<1>6. CASE Environment
  BY <1>1, <1>6 DEF Environment, LinkDown, LinkUp, ContextShutdown, Tick, ArmInv, flags, clocks
<1> QED
  BY <1>2, <1>3, <1>4, <1>5, <1>6 DEF Next

\* The grace period of an outage is not begun again before the outage is over: GraceRunsOn,
\* for every grace period.
THEOREM GraceIsKept == Safety => GraceRunsOn
<1>1. Init => ArmInv
  BY DEF Init, ArmInv
<1>2. TypeOK /\ ArmInv /\ [Next]_vars => ArmInv'
  BY ArmsOnce DEF ArmInv, vars, flags
<1>3. TypeOK /\ ArmInv /\ [Next]_vars => [needed /\ needed' => elapsed' >= elapsed]_vars
  BY ArmsOnce
<1> QED
  BY <1>1, <1>2, <1>3, TypeCorrect, PTL DEF Safety, GraceRunsOn

\* Told to end, async_thread_ begins no other round, and each of its steps is one less to go.
LEMMA StepIsOneLess ==
  ASSUME Async, ~alive', ~crashed'
  PROVE  StepsLeft' < StepsLeft
<1> USE DEF StepsLeft, AsyncGoto
<1>1. CASE AsyncExits \/ AsyncRound \/ AsyncGivesUp \/ AsyncPerformsIO \/ AsyncFlushes
  BY <1>1 DEF AsyncExits, AsyncRound, AsyncGivesUp, AsyncPerformsIO, AsyncFlushes, control
<1>2. CASE AsyncDecides
  BY <1>2 DEF AsyncDecides
<1>3. CASE \/ ReconnectRaisesFlag \/ ReconnectResets \/ ReconnectAborts \/ ReconnectConstructs
           \/ ReconnectConnects \/ ReconnectInits
  BY <1>3 DEF ReconnectRaisesFlag, ReconnectResets, ReconnectAborts, ReconnectConstructs,
              ReconnectConnects, ReconnectInits, control
<1>4. CASE \/ ReconnectDrops \/ ReconnectFailed \/ ReconnectClears \/ ReconnectDriver
           \/ ReconnectThrows \/ ReconnectResolves
  BY <1>4 DEF ReconnectDrops, ReconnectFailed, ReconnectClears, ReconnectDriver,
              ReconnectThrows, ReconnectResolves
<1>5. CASE AsyncFlushCrashes
  BY <1>5 DEF AsyncFlushCrashes
<1> QED
  BY <1>1, <1>2, <1>3, <1>4, <1>5 DEF Async

\* The join waits for at most six steps of async_thread_: JoinAdvances.
THEOREM JoinIsShort == Safety => JoinAdvances
<1> DEFINE Advances == ~alive' => IF Async /\ ~crashed' THEN StepsLeft' < StepsLeft
                                  ELSE async' = async
<1>1. [Next]_vars => [Advances]_vars
  <2> SUFFICES ASSUME Next, ~alive', ~(Async /\ ~crashed')
               PROVE  async' = async
    BY StepIsOneLess
  <2>1. CASE Async
    BY <2>1 DEF Async, AsyncExits, AsyncRound, AsyncDecides, AsyncGivesUp,
       ReconnectRaisesFlag, ReconnectResets, ReconnectAborts, ReconnectConstructs,
       ReconnectConnects, ReconnectInits, ReconnectDrops, ReconnectFailed,
       ReconnectClears, ReconnectDriver, ReconnectThrows, ReconnectResolves, AsyncPerformsIO,
       AsyncFlushes, AsyncFlushCrashes, AsyncGoto, ghosts
  <2>2. CASE Read
    BY <2>2 DEF Read, ReadCheckFlag, ReadCheckPointer, ReceiveOk, ReceiveFails,
       ReceiveCrashes, ReadTestArmed, ReadArms, ReadGivesUp, ReadToleratesOutage,
       ReadResolves, IngestCrashes, PowerOnReceives, PowerOnThrows, PowerOnCrashes
  <2>3. CASE Lifecycle
    BY <2>3 DEF Lifecycle, BeginConfigure, BeginCleanup, ConfigureSucceeds,
       ConfigureFails, CleanupStops
  <2>4. CASE Environment
    BY <2>4 DEF Environment, LinkDown, LinkUp, ContextShutdown, Tick
  <2> QED
    BY <2>1, <2>2, <2>3, <2>4 DEF Next
<1> QED
  BY <1>1, PTL DEF Safety, JoinAdvances
=============================================================================
