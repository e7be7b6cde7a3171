------------------------- MODULE CommandModesProofs -------------------------
(***************************************************************************)
(* ModesInv is an inductive invariant of CommandModes, whatever            *)
(* controllers are loaded and whatever they claim.  Freedrive implements   *)
(* CommandModes, so it is an invariant there as well.                      *)
(***************************************************************************)
EXTENDS Freedrive, TLAPS

\* Which modes a set of controllers asks for on the first joint.
LEMMA ModesOnFirst ==
  ASSUME NEW cs, NEW m
  PROVE  m \in ModesOn(cs)[FirstJoint] <=>
           m \in Modes /\ \E c \in cs : ModeOf[c] = m /\ FirstJoint \in JointsOf[c]
BY JointsAssumption DEF ModesOn

LEMMA ModesOnType == ASSUME NEW cs PROVE ModesOn(cs) \in [Joints -> SUBSET Modes]
BY DEF ModesOn

\* What a switch that was not refused leaves running: the flags follow the claims, and
\* still exclude each other.
LEMMA SwitchedFlags ==
  ASSUME ModesInv, request # NoRequest
  PROVE  /\ RunningAfter = ModesOn((active \ request.stop) \cup request.start)[FirstJoint]
         /\ \A m, n \in RunningAfter : m = n
<1> DEFINE S == ModesOn(request.stop)[FirstJoint]
           T == ModesOn(request.start)[FirstJoint]
           R == ModesOn(active)[FirstJoint]
           kept == active \ request.stop
<1>1. /\ running = R /\ stopModes[FirstJoint] = S /\ startModes[FirstJoint] = T
      /\ \A m, n \in R : m = n
      /\ request.stop \subseteq active /\ ~Refuses(request.start, request.stop)
      /\ request.stop \subseteq Controllers /\ request.start \subseteq Controllers
  BY DEF ModesInv, TypeOK, RequestInv, FlagsFollowClaims, ModesExclusive, Admissible
<1>2. S \subseteq Modes /\ T \subseteq Modes /\ R \subseteq Modes
  BY ModesOnFirst
<1>3. \A m, n \in T : m = n
  BY <1>1, JointsAssumption DEF Refuses, TwoModesOnJoint
<1>4. \A m \in T : R \ S \subseteq {m}
  <2> SUFFICES ASSUME NEW m \in T, NEW n \in R \ S PROVE n = m
    OBVIOUS
  <2>1. RemainingModes(request.stop) \ {m} = {}
    BY <1>1 DEF Refuses, MeetsRunningMode
  <2>2. n \in RemainingModes(request.stop)
    BY <1>1 DEF RemainingModes
  <2> QED
    BY <2>1, <2>2
<1>5. ModesOn(kept)[FirstJoint] = R \ S
  <2>1. ASSUME NEW m \in R, m \notin S PROVE m \in ModesOn(kept)[FirstJoint]
    BY <2>1, ModesOnFirst
  <2>2. ASSUME NEW m \in ModesOn(kept)[FirstJoint] PROVE m \in R
    BY ModesOnFirst
  <2>3. ASSUME NEW m \in ModesOn(kept)[FirstJoint], m \in S PROVE FALSE
    <3>1. PICK c \in kept : ModeOf[c] = m /\ FirstJoint \in JointsOf[c]
      BY ModesOnFirst
    <3>2. PICK d \in request.stop : ModeOf[d] = m /\ FirstJoint \in JointsOf[d]
      BY <2>3, ModesOnFirst
    <3>3. Share(c, d)
      BY <3>1, <3>2 DEF Share
    <3> QED
      BY <1>1, <3>3 DEF ModesInv, ClaimsInv
  <2> QED
    BY <2>1, <2>2, <2>3, <1>2
<1>6. ModesOn(kept \cup request.start)[FirstJoint] = (R \ S) \cup T
  <2>1. ASSUME NEW m
        PROVE  m \in ModesOn(kept \cup request.start)[FirstJoint] <=>
                 m \in ModesOn(kept)[FirstJoint] \/ m \in T
    BY ModesOnFirst
  <2> QED
    BY <2>1, <1>5
<1>7. RunningAfter = (R \ S) \cup T
  <2>1. RunningAfter =
          IF "position" \in T THEN ((R \ S) \ {"velocity"}) \cup {"position"}
          ELSE IF "velocity" \in T THEN ((R \ S) \ {"position"}) \cup {"velocity"}
          ELSE IF "freedrive" \in T
                 THEN ((R \ S) \ {"position", "velocity"}) \cup {"freedrive"}
          ELSE R \ S
    BY <1>1 DEF RunningAfter, Stops, Starts
  <2>2. CASE T = {}
    BY <2>1, <2>2
  <2>3. CASE T # {}
    <3>1. PICK m \in Modes : T = {m}
      BY <1>2, <1>3, <2>3
    <3>2. R \ S \subseteq {m}
      BY <1>4, <3>1
    <3> QED
      BY <2>1, <3>1, <3>2 DEF Modes
  <2> QED
    BY <2>2, <2>3
<1>8. \A m, n \in (R \ S) \cup T : m = n
  BY <1>1, <1>3, <1>4
<1> QED
  BY <1>6, <1>7, <1>8

\* Preparing a switch fills in the lists, and leaves a request only if it has no reason
\* to refuse it.
LEMMA PreparePreserves ==
  ASSUME ModesInv, NEW start \in SUBSET Controllers, NEW stop \in SUBSET Controllers,
         Prepare(start, stop)
  PROVE  ModesInv'
<1> USE DEF ModesInv, Prepare, drive, targets
<1>1. TypeOK'
  BY ModesOnType DEF TypeOK, NoRequest
<1>2. FlagsOK' /\ ClaimsInv' /\ Unclaimed' /\ ModesExclusive' /\ FlagsFollowClaims' /\ TargetInv'
  BY DEF FlagsOK, ClaimsInv, Unclaimed, ModesExclusive, FlagsFollowClaims, TargetInv, Share,
         ModesOn
<1>3. RequestInv'
  <2> SUFFICES ASSUME ~Refuses(start, stop), request' = [start |-> start, stop |-> stop]
               PROVE  RequestInv'
    BY DEF RequestInv
  <2>1. request'.start = start /\ request'.stop = stop
    OBVIOUS
  <2>2. Admissible(start, stop)'
    BY DEF Admissible, Share
  <2>3. ~Refuses(start, stop)'
    BY DEF Refuses, MeetsRunningMode, RemainingModes, TwoModesOnJoint, JointsDiffer
  <2>4. startModes' = ModesOn(start) /\ stopModes' = ModesOn(stop) /\ hw' = "configured"
    OBVIOUS
  <2> QED
    BY <2>1, <2>2, <2>3, <2>4
    DEF RequestInv, Admissible, Refuses, MeetsRunningMode, RemainingModes,
        TwoModesOnJoint, JointsDiffer
<1> QED
  BY <1>1, <1>2, <1>3

\* Performing it brings the flags to what the controller manager then believes.
LEMMA PerformPreserves == ModesInv /\ Perform => ModesInv'
<1> SUFFICES ASSUME ModesInv, Perform PROVE ModesInv'
  OBVIOUS
<1>1. /\ active' = (active \ request.stop) \cup request.start
      /\ running' = ModesOn(active')[FirstJoint]
      /\ \A m, n \in running' : m = n
  BY SwitchedFlags DEF Perform
<1>2. /\ Admissible(request.start, request.stop)
      /\ request.start \subseteq Controllers /\ request.stop \subseteq Controllers
      /\ startModes = ModesOn(request.start) /\ stopModes = ModesOn(request.stop)
  BY DEF ModesInv, RequestInv, TypeOK, Perform
<1>3. TypeOK'
  <2>1. running' \subseteq Modes
    BY <1>1, ModesOnFirst
  <2> QED
    BY <1>1, <1>2, <2>1 DEF Perform, ModesInv, TypeOK, NoRequest, NoModes
<1>4. FlagsOK'
  BY Zenon DEF Perform, ModesInv, FlagsOK
<1>5. ClaimsInv'
  BY <1>1, <1>2 DEF ClaimsInv, ModesInv, Admissible, Share
<1>6. RequestInv' /\ Unclaimed'
  BY DEF Perform, RequestInv, Unclaimed
<1>7. ModesExclusive' /\ FlagsFollowClaims'
  BY <1>1 DEF ModesExclusive, FlagsFollowClaims, ModesOn
<1>8. TargetInv'
  <2>1. ASSUME NEW c \in active, FirstJoint \in JointsOf[c], ModeOf[c] \in Modes,
               ~Stops(ModeOf[c])
        PROVE  c \in active'
    BY <1>1, <1>2, <2>1, ModesOnFirst DEF Stops
  <2>2. \A m \in running' : m \in running \/ Starts(m)
    BY DEF Perform, RunningAfter, Starts
  <2>3. /\ hw' = hw /\ hw = "configured"
        /\ posTarget' = IF Rebased("position") THEN "actual" ELSE posTarget
        /\ velTarget' = IF Rebased("velocity") THEN "zeros" ELSE velTarget
    BY DEF Perform
  <2> QED
    BY <2>1, <2>2, <2>3, NamesAssumption
    DEF ModesInv, TargetInv, TypeOK, Rebased, Modes
<1> QED
  BY <1>3, <1>4, <1>5, <1>6, <1>7, <1>8 DEF ModesInv

\* The controllers, read(), write() and async_thread_ change no flag and no claim.
LEMMA WritingPreserves == ModesInv /\ (Writing \/ Async) => ModesInv'
<1> SUFFICES ASSUME ModesInv, Writing \/ Async PROVE ModesInv'
  OBVIOUS
<1> USE DEF ModesInv, switch, targets, drive
<1>1. UNCHANGED << hw, active, request, startModes, stopModes, running >>
  BY DEF Writing, Async, PositionWrites, VelocityWrites, FreedriveWrites, PowerOn,
         WriteResets, AsyncResends, AsyncSkipsStart, AsyncStarts, AsyncStarted,
         AsyncStartThrows, AsyncEnds, AsyncEnded, AsyncEndThrows
<1>2. FlagsOK'
  BY Zenon
  DEF FlagsOK, Writing, Async, PositionWrites, VelocityWrites, FreedriveWrites, PowerOn,
      WriteResets, AsyncResends, AsyncSkipsStart, AsyncStarts, AsyncStarted,
      AsyncStartThrows, AsyncEnds, AsyncEnded, AsyncEndThrows
<1>3. TypeOK' /\ TargetInv'
  BY NamesAssumption
  DEF TypeOK, TargetInv, Drives, Writing, Async, PositionWrites, VelocityWrites,
      FreedriveWrites, PowerOn, WriteResets, AsyncResends, AsyncSkipsStart, AsyncStarts,
      AsyncStarted, AsyncStartThrows, AsyncEnds, AsyncEnded, AsyncEndThrows
<1>4. ClaimsInv' /\ Unclaimed' /\ ModesExclusive' /\ FlagsFollowClaims'
  BY <1>1 DEF ClaimsInv, Unclaimed, ModesExclusive, FlagsFollowClaims
<1>5. RequestInv'
  BY <1>1
  DEF RequestInv, Admissible, Refuses, MeetsRunningMode, RemainingModes, TwoModesOnJoint,
      JointsDiffer
<1> QED
  BY <1>2, <1>3, <1>4, <1>5

\* Losing the component drops the claims and leaves the flags; configuring it again
\* clears the flags before anything can be claimed.
LEMMA LifecyclePreserves == ModesInv /\ Lifecycle => ModesInv'
<1> SUFFICES ASSUME ModesInv, Lifecycle PROVE ModesInv'
  OBVIOUS
<1> USE DEF ModesInv, targets, drive
<1>1. FlagsOK'
  BY Zenon DEF FlagsOK, Lifecycle, Lose, Configure
<1>2. CASE Lose
  BY <1>1, <1>2
  DEF Lose, TypeOK, ClaimsInv, Unclaimed, RequestInv, ModesExclusive, FlagsFollowClaims, TargetInv,
      NoRequest
<1>3. CASE Configure
  <2>1. active = {} /\ request = NoRequest
    BY <1>3 DEF Configure, RequestInv, Unclaimed
  <2>2. ModesOn(active')[FirstJoint] = {}
    BY <1>3, <2>1, ModesOnFirst DEF Configure
  <2> QED
    BY <1>1, <1>3, <2>1, <2>2
    DEF Configure, ConfiguredFlags, TypeOK, ClaimsInv, Unclaimed, RequestInv, ModesExclusive,
        FlagsFollowClaims, TargetInv, NoModes
<1> QED
  BY <1>2, <1>3 DEF Lifecycle

\* The modes agree with the claims, and the targets with the modes, in every reachable
\* state: the assumptions that the two halves of a switch and write() make of each other.
THEOREM ModesInvariant == Spec => []ModesInv
<1>1. Init => ModesInv
  <2> SUFFICES ASSUME Init PROVE ModesInv
    OBVIOUS
  <2>1. FlagsOK
    BY Zenon DEF Init, FlagsOK
  <2> QED
    BY <2>1, NamesAssumption
    DEF Init, ModesInv, TypeOK, ClaimsInv, RequestInv, ModesExclusive, FlagsFollowClaims,
        TargetInv, NoRequest, NoModes, Unclaimed
<1>2. ModesInv /\ [Next]_vars => ModesInv'
  <2> SUFFICES ASSUME ModesInv, [Next]_vars PROVE ModesInv'
    OBVIOUS
  <2>1. CASE Switching
    BY <2>1, PreparePreserves, PerformPreserves DEF Switching
  <2>2. CASE Writing \/ Async
    BY <2>2, WritingPreserves
  <2>3. CASE Lifecycle
    BY <2>3, LifecyclePreserves
  <2>4. CASE UNCHANGED vars
    <3> USE DEF vars, switch, targets, drive, ModesInv
    <3>1. FlagsOK'
      BY <2>4, Zenon DEF FlagsOK
    <3>2. TypeOK' /\ ClaimsInv' /\ Unclaimed' /\ ModesExclusive' /\ FlagsFollowClaims'
      BY <2>4 DEF TypeOK, ClaimsInv, Unclaimed, ModesExclusive, FlagsFollowClaims
    <3>3. RequestInv' /\ TargetInv'
      BY <2>4
      DEF RequestInv, TargetInv, Admissible, Refuses, MeetsRunningMode, RemainingModes,
          TwoModesOnJoint, JointsDiffer
    <3> QED
      BY <3>1, <3>2, <3>3
  <2> QED
    BY <2>1, <2>2, <2>3, <2>4 DEF Next
<1> QED
  BY <1>1, <1>2, PTL DEF Spec

\* write() and both halves of a switch never see two modes running.
THEOREM ModesAreExclusive == Spec => []ModesExclusive
BY ModesInvariant, PTL DEF ModesInv

\* The hardware interface and the controller manager never disagree about the mode the
\* first joint is driven in.
THEOREM FlagsFollow == Spec => []FlagsFollowClaims
BY ModesInvariant, PTL DEF ModesInv

\* A target that write() sends has an active controller, or the measured pose, behind it.
THEOREM TargetsAreOwned == Spec => []NoAbandonedTarget
<1>1. ModesInv => NoAbandonedTarget
  BY DEF ModesInv, TargetInv, NoAbandonedTarget, Output
<1> QED
  BY <1>1, ModesInvariant, PTL

-----------------------------------------------------------------------------
(***************************************************************************)
(* Freedrive.                                                              *)
(***************************************************************************)
\* Every step of the freedrive controller, of the arm and of async_thread_ is a step that
\* CommandModes allows, or none that it sees.
THEOREM FreedriveImplements == FreedriveSpec => RefinesModes
<1>1. FreedriveInit => Init
  BY DEF FreedriveInit
<1>2. ASSUME [FreedriveNext]_allVars PROVE [Next]_vars
  <2>1. CASE UNCHANGED allVars
    BY <2>1 DEF allVars
  <2>2. CASE \E on \in BOOLEAN : Enables(on)
    BY <2>2 DEF Enables
  <2>3. CASE TakesStartBack
    BY <2>3 DEF TakesStartBack
  <2>4. ASSUME CommandsStart \/ CommandsEnd PROVE FreedriveWrites(Freedriver)
    BY <2>4, FreedriverAssumption, JointsAssumption, ClaimsAssumption
    DEF CommandsStart, CommandsEnd, FreedriveWrites, Drives
  <2>5. CASE CommandsStart \/ CommandsEnd
    <3>1. Writing
      BY <2>4, <2>5, FreedriverAssumption DEF Writing
    <3> QED
      BY <3>1 DEF Next
  <2>6. CASE Switches \/ Loses
    BY <2>6 DEF Switches, Loses, Next, Switching, Lifecycle
  <2>7. CASE SkipsStart \/ StartCallBegins \/ EndCallBegins \/ CallReturns \/ CallThrows
    BY <2>7
    DEF SkipsStart, StartCallBegins, EndCallBegins, CallReturns, CallThrows, Next, Async
  <2>8. CASE SendsStart \/ SendsEnd \/ WriteSends \/ TaskChanges
    BY <2>8 DEF SendsStart, SendsEnd, WriteSends, TaskChanges
  <2>9. CASE PowersOn
    BY <2>9 DEF PowersOn, Next, Writing
  <2>10. CASE OtherSteps
    BY <2>10 DEF OtherSteps, Next, Switching, Writing, Async, Lifecycle
  <2> QED
    BY <1>2, <2>1, <2>2, <2>3, <2>5, <2>6, <2>7, <2>8, <2>9, <2>10
    DEF FreedriveNext, Update, AsyncFreedrive
<1> QED
  BY <1>1, <1>2, PTL DEF FreedriveSpec, RefinesModes, Spec

\* With the freedrive controller at work the running flags still follow the claims.
COROLLARY FreedriveModes == FreedriveSpec => [](ModesInv /\ NoAbandonedTarget)
BY FreedriveImplements, ModesInvariant, TargetsAreOwned, PTL DEF RefinesModes

\* The freedrive lists of a prepared switch are about the one freedrive controller.
LEMMA FreedriveSwitch ==
  ASSUME ModesInv, request # NoRequest
  PROVE  /\ Stops("freedrive") <=> Freedriver \in request.stop
         /\ Starts("freedrive") <=> Freedriver \in request.start
<1>1. /\ stopModes = ModesOn(request.stop) /\ startModes = ModesOn(request.start)
      /\ request.stop \subseteq Controllers /\ request.start \subseteq Controllers
  BY DEF ModesInv, TypeOK, RequestInv
<1>2. ASSUME NEW cs, cs \subseteq Controllers
      PROVE  "freedrive" \in ModesOn(cs)[FirstJoint] <=> Freedriver \in cs
  BY <1>2, ModesOnFirst, FreedriverAssumption, JointsAssumption, ClaimsAssumption DEF Modes
<1> QED
  BY <1>1, <1>2 DEF Stops, Starts

\* While the freedrive controller is active write() sends nothing of another mode, unless
\* freedrive is not activated.
LEMMA FreedriveOutput ==
  ASSUME ModesInv, hw = "configured", Freedriver \in active, activated
  PROVE  Output = "freedrive"
<1>1. running = ModesOn(active)[FirstJoint] /\ \A m, n \in running : m = n
  BY DEF ModesInv, FlagsFollowClaims, ModesExclusive
<1>2. "freedrive" \in running
  BY <1>1, ModesOnFirst, FreedriverAssumption, JointsAssumption, ClaimsAssumption DEF Modes
<1>3. "position" \notin running /\ "velocity" \notin running
  BY <1>1, <1>2
<1> QED
  BY <1>2, <1>3 DEF Output

\* The controller's steps turn requests into commands.
LEMMA ControllerKeeps ==
  ASSUME ModesInv, FreedriveInv, (\E on \in BOOLEAN : Enables(on)) \/ Update \/ Switches \/ Loses
  PROVE  FreedriveInv'
<1> USE DEF FreedriveInv, FreedriveTypeOK
<1>0. startCmd \in BOOLEAN /\ endCmd \in BOOLEAN /\ activated \in BOOLEAN
  BY DEF ModesInv, FlagsOK
<1>1. CASE \E on \in BOOLEAN : Enables(on)
  <2>1. PICK on \in BOOLEAN : Enables(on)
    BY <1>1
  <2>2. /\ wanted' = on /\ fresh' = TRUE /\ wanted # on /\ ~fresh
        /\ UNCHANGED << active, activated, startCmd, endCmd, async, arm >>
    BY <2>1 DEF Enables, vars, drive
  <2>3. CASE on = TRUE
    BY <2>2, <2>3 DEF EndingInv, WayInv, OnWay, OffWay, arm
  <2>4. CASE on = FALSE
    BY <2>2, <2>4 DEF EndingInv, WayInv, OnWay, OffWay, arm
  <2> QED
    BY <2>3, <2>4
<1>2. CASE TakesStartBack
  BY <1>2 DEF TakesStartBack, EndingInv, WayInv, OnWay, OffWay, vars, switch, targets, drive, arm
<1>3. CASE CommandsStart
  BY <1>0, <1>3 DEF CommandsStart, EndingInv, WayInv, OnWay, OffWay, switch, targets, arm
<1>4. CASE CommandsEnd
  BY <1>0, <1>4 DEF CommandsEnd, EndingInv, WayInv, OnWay, OffWay, switch, targets, arm
<1>5. CASE Switches
  <2>1. /\ request # NoRequest
        /\ activated' = IF Freedriver \in request.stop \cup request.start THEN FALSE ELSE activated
        /\ endCmd' = IF Freedriver \in request.stop THEN TRUE ELSE endCmd
        /\ active' = (active \ request.stop) \cup request.start
        /\ UNCHANGED << startCmd, async, playing, armFree, sent, lost >>
    BY <1>5, FreedriveSwitch DEF Switches, Perform, Rebased
  <2>2. /\ wanted' = IF Freedriver \in request.stop \cup request.start THEN FALSE ELSE wanted
        /\ fresh' = IF Freedriver \in request.start THEN FALSE ELSE fresh
        /\ excused' = IF Freedriver \in request.start
                      THEN startCmd \/ async = "starting" \/ (excused /\ async = "ending")
                      ELSE excused
    BY <1>5 DEF Switches
  <2>3. async \in {"idle", "starting", "ending"}
    BY DEF ModesInv, TypeOK
  <2>4. FreedriveTypeOK'
    BY <1>0, <2>1, <2>2
  <2>5. EndingInv'
    BY <1>0, <2>1, <2>2 DEF EndingInv
  <2>6. CASE Freedriver \in request.start
    BY <1>0, <2>1, <2>2, <2>3, <2>4, <2>5, <2>6 DEF EndingInv, WayInv, OffWay
  <2>7. CASE Freedriver \notin request.start /\ Freedriver \in request.stop
    BY <2>1, <2>2, <2>4, <2>5, <2>7 DEF WayInv
  <2>8. CASE Freedriver \notin request.start /\ Freedriver \notin request.stop
    BY <2>1, <2>2, <2>4, <2>5, <2>8 DEF WayInv, OnWay, OffWay
  <2> QED
    BY <2>6, <2>7, <2>8
<1>6. CASE Loses
  BY <1>6 DEF Loses, Lose, EndingInv, WayInv, drive, arm
<1> QED
  BY <1>1, <1>2, <1>3, <1>4, <1>5, <1>6 DEF Update

\* async_thread_ carries the commands out.
LEMMA CallsKeep ==
  ASSUME ModesInv, FreedriveInv, AsyncFreedrive
  PROVE  FreedriveInv'
<1> USE DEF FreedriveInv, FreedriveTypeOK
<1>0. startCmd \in BOOLEAN /\ endCmd \in BOOLEAN /\ activated \in BOOLEAN
  BY DEF ModesInv, FlagsOK
<1>1. CASE SkipsStart
  BY <1>1 DEF SkipsStart, AsyncSkipsStart, EndingInv, WayInv, asked
<1>2. CASE StartCallBegins
  BY <1>2 DEF StartCallBegins, AsyncStarts, EndingInv, WayInv, OnWay, OffWay, asked
<1>3. CASE SendsStart
  BY <1>3 DEF SendsStart, EndingInv, WayInv, OnWay, OffWay, vars, drive, asked
<1>4. CASE EndCallBegins
  BY <1>0, <1>4 DEF EndCallBegins, AsyncEnds, EndingInv, WayInv, OnWay, OffWay, asked
<1>5. CASE SendsEnd
  BY <1>5 DEF SendsEnd, EndingInv, WayInv, OnWay, OffWay, vars, drive, asked
<1>6. CASE sent /\ AsyncStarted /\ UNCHANGED << asked, arm >>
  BY <1>0, <1>6 DEF AsyncStarted, EndingInv, WayInv, OnWay, OffWay, asked, arm
<1>7. CASE sent /\ AsyncEnded /\ UNCHANGED << asked, arm >>
  BY <1>0, <1>7 DEF AsyncEnded, EndingInv, WayInv, OnWay, OffWay, asked, arm
<1>8. CASE /\ ~sent /\ AsyncStartThrows /\ armFree' \in {TRUE, armFree}
            /\ UNCHANGED << asked, playing, sent, lost, excused >>
  BY <1>0, <1>8 DEF AsyncStartThrows, EndingInv, WayInv, OnWay, OffWay, asked
<1>9. CASE /\ ~sent /\ AsyncEndThrows /\ armFree' \in {FALSE, armFree}
            /\ UNCHANGED << asked, playing, sent, lost, excused >>
  BY <1>0, <1>9 DEF AsyncEndThrows, EndingInv, WayInv, OnWay, OffWay, asked
<1> QED
  BY <1>1, <1>2, <1>3, <1>4, <1>5, <1>6, <1>7, <1>8, <1>9
  DEF AsyncFreedrive, CallReturns, CallThrows

\* write(), the arm, and what neither takes notice of.
LEMMA ArmKeeps ==
  ASSUME ModesInv, FreedriveInv, WriteSends \/ TaskChanges \/ PowersOn \/ OtherSteps
  PROVE  FreedriveInv'
<1> USE DEF FreedriveInv, FreedriveTypeOK
<1>0. startCmd \in BOOLEAN /\ endCmd \in BOOLEAN /\ activated \in BOOLEAN
  BY DEF ModesInv, FlagsOK
<1>1. CASE WriteSends
  <2>1. Freedriver \in active /\ activated => Output = "freedrive"
    BY <1>1, FreedriveOutput DEF WriteSends
  <2> QED
    BY <1>0, <1>1, <2>1 DEF WriteSends, EndingInv, WayInv, OnWay, OffWay, vars, drive, asked
<1>2. CASE TaskChanges
  BY <1>2 DEF TaskChanges, EndingInv, WayInv, OnWay, OffWay, vars, drive, asked
<1>3. CASE PowersOn
  BY <1>0, <1>3 DEF PowersOn, PowerOn, EndingInv, WayInv, OnWay, OffWay, asked
<1>4. CASE UNCHANGED << active, drive, asked, arm >>
  BY <1>4 DEF EndingInv, WayInv, OnWay, OffWay, drive, asked, arm
<1>5. CASE OtherSteps /\ ~Configure
  BY <1>4, <1>5
  DEF OtherSteps, Prepare, PositionWrites, VelocityWrites, WriteResets, AsyncResends, drive
<1>6. CASE Configure /\ UNCHANGED << asked, arm >>
  <2>1. Freedriver \notin active'
    BY <1>6 DEF Configure, ModesInv, Unclaimed
  <2> QED
    BY <1>6, <2>1 DEF Configure, EndingInv, WayInv, asked, arm
<1> QED
  BY <1>1, <1>2, <1>3, <1>5, <1>6 DEF OtherSteps

\* A start is on its way to the arm, or through, or its message did not arrive; an END is on
\* its way, or nothing is.
THEOREM FreedriveInvariant == FreedriveSpec => []FreedriveInv
<1>1. FreedriveInit => FreedriveInv
  BY DEF FreedriveInit, Init, FreedriveInv, FreedriveTypeOK, EndingInv, WayInv
<1>2. ModesInv /\ FreedriveInv /\ [FreedriveNext]_allVars => FreedriveInv'
  <2> SUFFICES ASSUME ModesInv, FreedriveInv, [FreedriveNext]_allVars PROVE FreedriveInv'
    OBVIOUS
  <2>1. CASE UNCHANGED allVars
    BY <2>1 DEF allVars, vars, drive, asked, arm, FreedriveInv, FreedriveTypeOK, EndingInv, WayInv,
                OnWay, OffWay
  <2>2. CASE FreedriveNext
    BY <2>2, ControllerKeeps, CallsKeep, ArmKeeps DEF FreedriveNext
  <2> QED
    BY <2>1, <2>2
<1> QED
  BY <1>1, <1>2, FreedriveModes, PTL DEF FreedriveSpec

\* When all is dealt with write() keeps up what the last accepted request asks for, and the
\* arm does it unless the START did not arrive.
THEOREM ArmFollowsRequests == FreedriveSpec => []ArmFollows
<1>1. ModesInv /\ FreedriveInv => ArmFollows
  <2> SUFFICES ASSUME ModesInv, FreedriveInv PROVE ArmFollows
    OBVIOUS
  <2>1. wanted \in BOOLEAN /\ activated \in BOOLEAN
    BY DEF ModesInv, FlagsOK, FreedriveInv, FreedriveTypeOK
  <2>2. CASE wanted = TRUE
    BY <2>1, <2>2 DEF FreedriveInv, FreedriveTypeOK, WayInv, OnWay, ArmFollows
  <2>3. CASE wanted = FALSE
    BY <2>1, <2>3 DEF FreedriveInv, FreedriveTypeOK, WayInv, OffWay, ArmFollows
  <2> QED
    BY <2>1, <2>2, <2>3
<1> QED
  BY <1>1, FreedriveModes, FreedriveInvariant, PTL
=============================================================================
