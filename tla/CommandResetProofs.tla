------------------------- MODULE CommandResetProofs -------------------------
(***************************************************************************)
(* ResetInv is an inductive invariant of CommandReset, provided that no    *)
(* controller writes a setpoint of its own in every cycle.  Vetting the    *)
(* first target of a session is then enough.  That a reset uses a fresh    *)
(* pose needs no such condition.                                           *)
(***************************************************************************)
EXTENDS CommandReset, TLAPS

\* The booleans keep their type in every step.
LEMMA FlagsPreserved == FlagsOK /\ [Next]_vars => FlagsOK'
<1> SUFFICES ASSUME FlagsOK, [Next]_vars PROVE FlagsOK'
  OBVIOUS
<1> USE DEF FlagsOK, vars, measured, commands, asked, session, history
<1>1. CASE Realtime
  BY <1>1 DEF Realtime, ReadFrame, ReadFails, Update, Write
<1>2. CASE Async
  BY <1>2
  DEF Async, AsyncSendsInitial, AsyncBeginsResend, AsyncStopsControl, AsyncSkipsResend,
      AsyncFlagsReset, AsyncResends, AsyncReconnects, AsyncFlagsReconnect, Sends
<1>3. CASE Environment
  BY <1>3 DEF Environment, ScriptConnects, ScriptDies, StreamChanges, ClientRequests
<1>4. CASE UNCHANGED vars
  BY <1>4
<1> QED
  BY <1>1, <1>2, <1>3, <1>4 DEF Next

\* The realtime cycle lets no stale target past the vetting.
LEMMA RealtimePreserves ==
  ~Holds /\ ResetInv /\ Realtime => TypeOK' /\ VettingInv' /\ FlaggedInv'
<1> SUFFICES ASSUME ~Holds, ResetInv, Realtime PROVE TypeOK' /\ VettingInv' /\ FlaggedInv'
  OBVIOUS
<1> USE DEF ResetInv, TypeOK, VettingInv, FlaggedInv, Ages, commands, asked, session, history
<1>1. CASE ReadFrame
  BY <1>1 DEF ReadFrame, Moved, Aged, BootRead
<1>2. CASE ReadFails
  BY <1>2 DEF ReadFails, Moved, Aged, BootRead
<1>3. CASE Update
  BY <1>3 DEF Update, measured
<1>4. CASE Write
  BY <1>4 DEF Write, Resets, Vetted, measured
<1> QED
  BY <1>1, <1>2, <1>3, <1>4 DEF Realtime

\* A script that is sent, dies or connects back still has its first target to vet.
LEMMA SessionsPreserve ==
  ResetInv /\ (Async \/ Environment) => TypeOK' /\ VettingInv' /\ FlaggedInv'
<1> SUFFICES ASSUME ResetInv, Async \/ Environment PROVE TypeOK' /\ VettingInv' /\ FlaggedInv'
  OBVIOUS
<1> USE DEF ResetInv, TypeOK, VettingInv, FlaggedInv, Ages, measured, commands, asked, session, history
<1>1. CASE Async
  BY <1>1
  DEF Async, AsyncSendsInitial, AsyncBeginsResend, AsyncStopsControl, AsyncSkipsResend,
      AsyncFlagsReset, AsyncResends, AsyncReconnects, AsyncFlagsReconnect, Sends, AsyncGoto
<1>2. CASE Environment
  BY <1>2 DEF Environment, ScriptConnects, ScriptDies, StreamChanges, ClientRequests
<1> QED
  BY <1>1, <1>2

\* Without a controller that holds a setpoint, a session past its vetting has a current
\* target, through dropouts, faults, resends and reconnections in any order.
THEOREM ResetInvariant == ASSUME ~Holds PROVE Spec => []ResetInv
<1>1. Init => ResetInv
  <2> SUFFICES ASSUME Init PROVE ResetInv
    OBVIOUS
  <2>1. FlagsOK
    BY DEF Init, FlagsOK
  <2> QED
    BY <2>1 DEF Init, ResetInv, TypeOK, VettingInv, FlaggedInv, Ages
<1>2. ResetInv /\ [Next]_vars => ResetInv'
  <2> SUFFICES ASSUME ResetInv, [Next]_vars PROVE ResetInv'
    OBVIOUS
  <2>1. FlagsOK'
    BY FlagsPreserved DEF ResetInv
  <2>2. TypeOK' /\ VettingInv' /\ FlaggedInv'
    <3>1. CASE Realtime
      BY <3>1, RealtimePreserves
    <3>2. CASE Async \/ Environment
      BY <3>2, SessionsPreserve
    <3>3. CASE UNCHANGED vars
      BY <3>3
      DEF ResetInv, TypeOK, VettingInv, FlaggedInv, vars, measured, commands, asked, session,
          history
    <3> QED
      BY <3>1, <3>2, <3>3 DEF Next
  <2> QED
    BY <2>1, <2>2 DEF ResetInv
<1> QED
  BY <1>1, <1>2, PTL DEF Spec

\* The arm never follows a target from before somebody moved it by hand, if the controller
\* does not write its own setpoint in every cycle.
THEOREM ArmDoesNotSnapBack == ASSUME ~Holds PROVE Spec => []NoSnapBack
<1>1. ResetInv => NoSnapBack
  BY DEF ResetInv, VettingInv, NoSnapBack
<1> QED
  BY <1>1, ResetInvariant, PTL

\* A session that a reset was flagged for, and for which a frame came while it booted, takes
\* its first target.
THEOREM ResetsAreInTime == ASSUME ~Holds PROVE Spec => []ResetInTime
<1>1. ResetInv => ResetInTime
  BY DEF ResetInv, FlaggedInv, ResetInTime
<1> QED
  BY <1>1, ResetInvariant, PTL

\* A pending reset is carried out with a pose measured in the same cycle, whatever the
\* controller holds.
THEOREM ResetsAreFresh == Spec => ResetUsesFreshPose
<1> DEFINE Measured == fresh => pose = "current"
           Fresh    == cycle = "write" /\ pending /\ ~pending' => target' = "current"
<1>1. Init => Measured
  BY DEF Init
<1>2. Measured /\ [Next]_vars => Measured'
  <2> SUFFICES ASSUME Measured, [Next]_vars PROVE Measured'
    OBVIOUS
  <2>1. CASE ReadFrame \/ ReadFails
    BY <2>1 DEF ReadFrame, ReadFails
  <2>2. CASE UNCHANGED << fresh, pose >>
    BY <2>2
  <2>3. ReadFrame \/ ReadFails \/ UNCHANGED << fresh, pose >>
    BY DEF Next, Realtime, Async, Environment, Update, Write, AsyncSendsInitial,
           AsyncBeginsResend, AsyncStopsControl, AsyncSkipsResend, AsyncFlagsReset,
           AsyncResends, AsyncReconnects, AsyncFlagsReconnect, ScriptConnects, ScriptDies,
           StreamChanges, ClientRequests, measured, vars
  <2> QED
    BY <2>1, <2>2, <2>3
<1>3. Measured /\ [Next]_vars => [Fresh]_vars
  <2> SUFFICES ASSUME Measured, Next, cycle = "write", pending, ~pending'
               PROVE  target' = "current"
    OBVIOUS
  <2>1. Write
    BY DEF Next, Realtime, Async, Environment, ReadFrame, ReadFails, Update,
           AsyncSendsInitial, AsyncBeginsResend, AsyncStopsControl, AsyncSkipsResend,
           AsyncFlagsReset, AsyncResends, AsyncReconnects, AsyncFlagsReconnect,
           ScriptConnects, ScriptDies, StreamChanges, ClientRequests, asked
  <2>2. Resets /\ target' = pose
    BY <2>1, Zenon DEF Write
  <2> QED
    BY <2>2 DEF Resets
<1> HIDE DEF Measured
<1> QED
  BY <1>1, <1>2, <1>3, PTL DEF Spec, ResetUsesFreshPose
=============================================================================
