----------------------- MODULE ScaledTrajectoryProofs -----------------------
(***************************************************************************)
(* For any goals, trajectories and lengths: no goal is lost between the    *)
(* realtime thread and the callbacks, but one that is accepted while       *)
(* update() makes its stores, and no motion outlives its goal.  A result   *)
(* is earned if there is no command timeout, as shipped: with one a goal   *)
(* can stay active although the arm was told to hold.                      *)
(***************************************************************************)
EXTENDS ScaledTrajectory, TLAPS

Outcomes == {"violated", "succeeded", "late"}

\* The arm is held, although nothing has ended.
GoesOnHeld == CmdTimeout # 0 /\ storing' = "message" /\ UNCHANGED << shared, result >>

\* What a cycle decides: the active goal ends, the arm is held, or all stays as it is; and
\* a timeout has the arm held, and ends nothing.
LEMMA Decisions ==
  ASSUME NEW end, NEW first, NEW e, Decides(end, first, e)
  PROVE  \/ /\ active # None
            /\ \E outcome \in Outcomes :
                 /\ Concludes(outcome)
                 /\ outcome = "succeeded" => ~BeforeLastPoint(end)
                 /\ outcome = "succeeded" /\ CmdTimeout = 0 => holding \/ e = "goal"
                 /\ outcome = "late" =>
                      ~BeforeLastPoint(end) /\ e # "goal" /\ TimeDifference(end) > GoalTime
         \/ active = None /\ ~pending /\ Holds
         \/ GoesOnHeld
         \/ storing' = "none" /\ UNCHANGED << shared, result >>
<1>1. TimedOut(end) => CmdTimeout # 0
  BY TimesAssumption DEF TimedOut
<1>2. \/ ~GoesOn(end) \/ GoesOnHeld
      \/ storing' = "none" /\ UNCHANGED << shared, result >>
  BY <1>1, Zenon DEF GoesOn, GoesOnHeld
<1>3. CASE active = None
  BY <1>2, <1>3, Zenon DEF Decides
<1>4. CASE active # None /\ Violated(end, first, e)
  <2>1. Concludes("violated")
    BY <1>4, Zenon DEF Decides
  <2> QED
    BY <1>4, <2>1 DEF Outcomes
<1>5. CASE active # None /\ ~Violated(end, first, e) /\ ~BeforeLastPoint(end) /\ ~Outside(end, e)
  <2>1. Concludes("succeeded")
    BY <1>5, Zenon DEF Decides, TooLate
  <2>2. CmdTimeout = 0 => holding \/ e = "goal"
    BY <1>1, <1>5, Zenon DEF Outside, Checked
  <2> QED
    BY <1>5, <2>1, <2>2 DEF Outcomes
<1>6. CASE /\ active # None /\ ~Violated(end, first, e)
           /\ ~(~BeforeLastPoint(end) /\ ~Outside(end, e)) /\ TooLate(end, e)
  <2>1. Concludes("late")
    BY <1>6, Zenon DEF Decides
  <2>2. ~BeforeLastPoint(end) /\ e # "goal" /\ TimeDifference(end) > GoalTime
    BY <1>6, Zenon DEF TooLate, Outside
  <2> QED
    BY <1>6, <2>1, <2>2 DEF Outcomes
<1>7. CASE /\ active # None /\ ~Violated(end, first, e)
           /\ ~(~BeforeLastPoint(end) /\ ~Outside(end, e)) /\ ~TooLate(end, e)
  <2>1. GoesOn(end)
    BY <1>7, Zenon DEF Decides
  <2> QED
    BY <1>2, <2>1
<1> QED
  BY <1>3, <1>4, <1>5, <1>6, <1>7, Zenon

\* What a cycle does to the clocks.
LEMMA ClocksKept ==
  ASSUME UpdateInv, NEW scale \in Scales, NEW e \in Errors, Update(scale, e)
  PROVE  /\ lag' \in 0 .. MaxLag /\ left' \in -MaxPast .. MaxLag /\ since' \in -1 .. MaxPast
         /\ EndInv'
<1>1. /\ lag \in 0 .. MaxLag /\ left \in -MaxPast .. MaxLag /\ since \in -1 .. MaxPast
      /\ MaxPast \in Nat /\ MaxLag \in Nat /\ scale \in 0 .. 2
      /\ Lengths \subseteq Nat \ {0}
      /\ \A length \in Lengths \cup {0} : MaxLag >= length + 2 + MaxPast
  BY TimesAssumption DEF UpdateInv, GoalsInv, TypeOK, Scales, Cycle, MaxPast
<1>2. lag' = Lower(lag + Cycle - scale, MaxLag) /\ trajectory' = Followed /\ Followed # None
  BY Zenon DEF Update
<1>3. PICK length \in IF Adopts /\ message # Hold THEN Lengths ELSE {0} :
        \E end : /\ end = IF Adopts THEN length + Cycle ELSE left
                 /\ left' = Higher(end - scale, -MaxPast)
                 /\ since' = IF BeforeLastPoint(end) THEN -1
                             ELSE IF Adopts \/ since = -1 THEN 0
                             ELSE Lower(since + Cycle, MaxPast)
  BY Zenon DEF Update
<1>4. lag' \in 0 .. MaxLag
  BY <1>1, <1>2 DEF Lower, Cycle
<1>5. CASE Adopts
  <2>1. length \in Nat /\ MaxLag >= length + 2 + MaxPast
    BY <1>1, <1>3
  <2>2. /\ left' = Higher(length + 2 - scale, -MaxPast)
        /\ since' = IF length + 2 > 2 THEN -1 ELSE 0
    <3>1. PICK end :
            /\ end = length + Cycle
            /\ left' = Higher(end - scale, -MaxPast)
            /\ since' = IF BeforeLastPoint(end) THEN -1 ELSE 0
      BY <1>3, <1>5
    <3> QED
      BY <1>1, <2>1, <3>1 DEF BeforeLastPoint, Cycle
  <2> QED
    BY <1>1, <1>4, <2>1, <2>2 DEF Higher, Cycle, EndInv
<1>6. CASE ~Adopts
  <2>1. trajectory # None
    BY <1>2, <1>6 DEF Followed
  <2>2. IF since = -1 THEN left > 0 ELSE left >= -(since + 2)
    BY <2>1 DEF UpdateInv, EndInv, Cycle
  <2>3. /\ left' = Higher(left - scale, -MaxPast)
        /\ since' = IF left > 2 THEN -1
                    ELSE IF since = -1 THEN 0 ELSE Lower(since + 2, MaxPast)
    BY <1>3, <1>6 DEF BeforeLastPoint, Cycle
  <2>4. left' \in -MaxPast .. MaxLag /\ since' \in -1 .. MaxPast
    BY <1>1, <2>3 DEF Higher, Lower
  <2>5. IF since' = -1 THEN left' > 0 ELSE left' >= -(since' + 2)
    BY <1>1, <2>2, <2>3 DEF Higher, Lower
  <2> QED
    BY <1>4, <2>4, <2>5 DEF EndInv, Cycle
<1> QED
  BY <1>5, <1>6

\* When update() has no store to make, what is shared is as it is.
LEMMA Settled ==
  ASSUME storing = "none"
  PROVE  Active = active /\ (Pending <=> pending) /\ Message = message /\ (Holding <=> holding)
BY DEF Active, Pending, Message, Holding

\* A cycle ends no goal but the active one, and takes no message that is not due.
LEMMA UpdateKeeps ==
  ASSUME UpdateInv, NEW scale \in Scales, NEW e \in Errors, Update(scale, e)
  PROVE  UpdateInv'
<1> USE NamesAssumption DEF UpdateInv, GoalsInv, TypeOK
<1>1. PICK end :
        /\ Decides(end, Adopts, e)
        /\ trajectory' = Followed /\ odd' = ~odd
        /\ interrupted' = (callback # "idle")
        /\ UNCHANGED << running, callback, goal, raced >>
  BY Zenon DEF Update
<1>2. running /\ storing = "none" /\ (callback # "idle" => ~interrupted)
  BY Zenon DEF Update
<1>3. \/ /\ active # None
         /\ \E outcome \in Outcomes : Concludes(outcome)
      \/ active = None /\ ~pending /\ Holds
      \/ GoesOnHeld
      \/ storing' = "none" /\ UNCHANGED << shared, result >>
  BY <1>1, Decisions
<1>4. /\ lag' \in 0 .. MaxLag /\ left' \in -MaxPast .. MaxLag /\ since' \in -1 .. MaxPast
      /\ EndInv'
  BY ClocksKept
<1>5. /\ Active = active /\ (Pending <=> pending) /\ Message = message /\ (Holding <=> holding)
  BY <1>2, Settled
<1>6. UNCHANGED << pending, active, message, holding >>
  BY <1>3, Zenon DEF Concludes, Gives, Holds, GoesOnHeld, shared
<1>7. /\ trajectory' \in Goals \cup Topics \cup {Hold, None}
      /\ trajectory' \in {message, trajectory}
      /\ callback \in Accepting /\ trajectory' # trajectory =>
           active # None \/ goal \in raced \/ message # goal
  BY <1>1, <1>2, <1>5 DEF Followed, Adopts, AcceptInv
<1> USE <1>1, <1>2, <1>4, <1>5, <1>6, <1>7
<1>8. CASE active # None /\ \E outcome \in Outcomes : Concludes(outcome)
  <2>1. PICK outcome \in Outcomes :
          result' = [result EXCEPT ![active] = outcome] /\ storing' = "goal"
    BY <1>8 DEF Concludes, Gives
  <2>2. Active' = None /\ ~Pending' /\ Message' = Hold /\ Holding'
    BY <2>1 DEF Active, Pending, Message, Holding
  <2>3. GoalsInv'
    BY <1>8, <2>1, <2>2 DEF Outcomes
  <2>4. AcceptInv'
    BY <1>8, <2>1, <2>2 DEF AcceptInv, Accepting
  <2>5. MessageInv'
    BY <1>8, <2>1, <2>2 DEF AcceptInv, MessageInv, Accepting, Outcomes
  <2> QED
    BY <2>3, <2>4, <2>5
<1>9. CASE active = None /\ ~pending /\ Holds
  <2>1. Active' = None /\ ~Pending' /\ Message' = Hold /\ Holding' /\ result' = result
        /\ storing' = "message"
    BY <1>9 DEF Holds, Active, Pending, Message, Holding
  <2>2. GoalsInv'
    BY <1>9, <2>1
  <2>3. AcceptInv'
    BY <1>9, <2>1 DEF AcceptInv, Accepting
  <2>4. MessageInv'
    BY <1>9, <2>1 DEF AcceptInv, MessageInv, Accepting
  <2> QED
    BY <2>2, <2>3, <2>4
<1>10. CASE GoesOnHeld
  <2>1. /\ Active' = active /\ (Pending' <=> pending) /\ Message' = Hold /\ Holding'
        /\ result' = result /\ CmdTimeout # 0 /\ storing' = "message"
    BY <1>10 DEF GoesOnHeld, Active, Pending, Message, Holding
  <2>2. GoalsInv'
    BY <2>1
  <2>3. AcceptInv'
    BY <2>1 DEF AcceptInv, Accepting
  <2>4. MessageInv'
    BY <2>1 DEF AcceptInv, MessageInv, Accepting
  <2> QED
    BY <2>2, <2>3, <2>4
<1>11. CASE storing' = "none" /\ UNCHANGED << shared, result >>
  <2>1. /\ Active' = active /\ (Pending' <=> pending) /\ Message' = message
        /\ (Holding' <=> holding) /\ result' = result
    BY <1>11 DEF Active, Pending, Message, Holding
  <2>2. GoalsInv'
    BY <1>11, <2>1
  <2>3. AcceptInv'
    BY <1>11, <2>1 DEF AcceptInv, Accepting
  <2>4. MessageInv'
    BY <1>11, <2>1 DEF AcceptInv, MessageInv, Accepting
  <2> QED
    BY <2>2, <2>3, <2>4
<1> QED
  BY <1>3, <1>8, <1>9, <1>10, <1>11

\* The stores of update() bring about what was settled when it decided.
LEMMA StoresKeep ==
  ASSUME UpdateInv, UpdateStores
  PROVE  UpdateInv'
<1> USE NamesAssumption DEF UpdateInv, GoalsInv, TypeOK, Stores, calls, clocks
<1>1. UNCHANGED << running, calls, raced, trajectory, clocks, result >>
  BY Zenon DEF UpdateStores, ReleasesGoal, ClearsPending, HoldsArm
<1>2. UNCHANGED << Active, Pending, Message, Holding >>
  <2>1. CASE ReleasesGoal
    BY <2>1 DEF ReleasesGoal, Active, Pending, Message, Holding
  <2>2. CASE ClearsPending
    BY <2>2 DEF ClearsPending, Active, Pending, Message, Holding
  <2>3. CASE HoldsArm
    BY <2>3 DEF HoldsArm, Active, Pending, Message, Holding
  <2> QED
    BY <2>1, <2>2, <2>3 DEF UpdateStores
<1>3. TypeOK' /\ active' \in {active, None}
  BY <1>1 DEF UpdateStores, ReleasesGoal, ClearsPending, HoldsArm
<1>4. storing # "none"
  BY DEF UpdateStores, ReleasesGoal, ClearsPending, HoldsArm
<1>5. EndInv' /\ MessageInv'
  BY <1>1, <1>2, <1>3 DEF EndInv, MessageInv
<1>6. AcceptInv'
  BY <1>1, <1>2, <1>3, <1>4 DEF AcceptInv
<1> QED
  BY <1>1, <1>2, <1>3, <1>5, <1>6

\* A callback takes its goal from the client to the active one, one store at a time.  What
\* update() undoes is of that goal alone.
LEMMA CallbackKeeps ==
  ASSUME UpdateInv,
         \/ CallbackGoesOn \/ CancelEnds \/ TopicReplaces
         \/ \E g \in Goals : AcceptMarks(g)
  PROVE  UpdateInv'
<1> USE NamesAssumption DEF UpdateInv, GoalsInv, TypeOK, AcceptInv, Accepting, MessageInv,
        CallbackGoes, clocks, CancelsActive
<1>1. storing' = storing /\ EndInv'
  BY DEF EndInv, CallbackGoesOn, AcceptMarks, AcceptPreempts, AcceptReplaces, AcceptMoves,
         AcceptActivates, CancelEnds, CancelHolds, TopicReplaces, TopicMoves
<1>2. /\ storing = "goal" => Active = None /\ Active' = None
      /\ storing # "goal" => Active = active /\ Active' = active'
      /\ storing \in {"goal", "pending"} => ~Pending /\ ~Pending'
      /\ storing \notin {"goal", "pending"} => (Pending <=> pending) /\ (Pending' <=> pending')
      /\ storing # "none" => Message = Hold /\ Message' = Hold /\ Holding /\ Holding'
      /\ storing = "none" => /\ Message = message /\ Message' = message'
                            /\ (Holding <=> holding) /\ (Holding' <=> holding')
  BY <1>1 DEF Active, Pending, Message, Holding
<1> USE <1>1, <1>2
<1>3. ASSUME NEW g \in Goals, AcceptMarks(g) PROVE UpdateInv'
  <2>1. TypeOK'
    BY <1>3 DEF AcceptMarks
  <2>2. GoalsInv'
    BY <1>3, <2>1 DEF AcceptMarks
  <2>3. AcceptInv'
    BY <1>3, <2>1 DEF AcceptMarks
  <2>4. MessageInv'
    BY <1>3, <2>1 DEF AcceptMarks
  <2> QED
    BY <2>1, <2>2, <2>3, <2>4
<1>4. CASE AcceptPreempts
  <2>1. TypeOK' /\ GoalsInv'
    BY <1>4 DEF AcceptPreempts
  <2>2. AcceptInv'
    BY <1>4 DEF AcceptPreempts
  <2>3. MessageInv'
    BY <1>4 DEF AcceptPreempts
  <2> QED
    BY <2>1, <2>2, <2>3
<1>5. CASE AcceptReplaces
  <2>1. TypeOK' /\ GoalsInv'
    BY <1>5 DEF AcceptReplaces
  <2>2. AcceptInv'
    BY <1>5 DEF AcceptReplaces
  <2>3. MessageInv'
    BY <1>5 DEF AcceptReplaces
  <2> QED
    BY <2>1, <2>2, <2>3
<1>6. CASE AcceptMoves
  <2>1. TypeOK' /\ GoalsInv'
    BY <1>6 DEF AcceptMoves
  <2>2. AcceptInv'
    BY <1>6 DEF AcceptMoves
  <2>3. MessageInv'
    BY <1>6 DEF AcceptMoves
  <2> QED
    BY <2>1, <2>2, <2>3
<1>7. CASE AcceptActivates
  <2>1. TypeOK' /\ GoalsInv'
    BY <1>7 DEF AcceptActivates
  <2>2. AcceptInv'
    BY <1>7 DEF AcceptActivates
  <2>3. MessageInv'
    BY <1>7 DEF AcceptActivates
  <2> QED
    BY <2>1, <2>2, <2>3
<1>8. CASE CancelEnds
  <2>1. TypeOK' /\ GoalsInv'
    BY <1>8 DEF CancelEnds
  <2>2. AcceptInv'
    BY <1>8 DEF CancelEnds
  <2>3. MessageInv'
    BY <1>8 DEF CancelEnds
  <2> QED
    BY <2>1, <2>2, <2>3
<1>9. CASE CancelHolds
  <2>1. TypeOK' /\ GoalsInv'
    BY <1>9 DEF CancelHolds
  <2>2. AcceptInv'
    BY <1>9 DEF CancelHolds
  <2>3. MessageInv'
    BY <1>9 DEF CancelHolds
  <2> QED
    BY <2>1, <2>2, <2>3
<1>10. CASE TopicReplaces
  <2>1. TypeOK' /\ GoalsInv'
    BY <1>10 DEF TopicReplaces
  <2>2. AcceptInv'
    BY <1>10 DEF TopicReplaces
  <2>3. MessageInv'
    BY <1>10 DEF TopicReplaces
  <2> QED
    BY <2>1, <2>2, <2>3
<1>11. CASE TopicMoves
  <2>1. TypeOK' /\ GoalsInv'
    BY <1>11 DEF TopicMoves
  <2>2. AcceptInv'
    BY <1>11 DEF TopicMoves
  <2>3. MessageInv'
    BY <1>11 DEF TopicMoves
  <2> QED
    BY <2>1, <2>2, <2>3
<1> QED
  BY <1>3, <1>4, <1>5, <1>6, <1>7, <1>8, <1>9, <1>10, <1>11 DEF CallbackGoesOn

\* Deactivation cancels the active goal, and what it leaves behind is replaced at activation.
LEMMA LifecycleKeeps ==
  ASSUME UpdateInv, Deactivates \/ Activates
  PROVE  UpdateInv'
<1> USE NamesAssumption, TimesAssumption
    DEF UpdateInv, GoalsInv, TypeOK, AcceptInv, Accepting, MessageInv, EndInv, calls,
        clocks, Active, Pending, Message, Holding
<1>1. CASE Deactivates
  BY <1>1 DEF Deactivates, CancelsActive
<1>2. CASE Activates
  BY <1>2 DEF Activates, MaxPast
<1> QED
  BY <1>1, <1>2

LEMMA Initially == Init => UpdateInv
<1> SUFFICES ASSUME Init PROVE UpdateInv
  OBVIOUS
<1>1. MaxLag \in Nat /\ MaxPast \in Nat
  BY TimesAssumption DEF MaxPast
<1>2. TypeOK
  <2>1. {running, interrupted, pending, holding, odd} \subseteq BOOLEAN /\ raced \subseteq Goals
    BY Zenon DEF Init
  <2>2. lag \in 0 .. MaxLag /\ left \in -MaxPast .. MaxLag /\ since \in -1 .. MaxPast
    BY <1>1 DEF Init
  <2> QED
    BY <2>1, <2>2 DEF Init, TypeOK
<1> QED
  BY <1>2, NamesAssumption
     DEF Init, UpdateInv, GoalsInv, AcceptInv, Accepting, MessageInv, EndInv,
         Active, Pending, Message, Holding

LEMMA Inductive == UpdateInv /\ [Next]_vars => UpdateInv'
<1> SUFFICES ASSUME UpdateInv, [Next]_vars
             PROVE  UpdateInv'
  OBVIOUS
<1>1. CASE Updates
  BY <1>1, UpdateKeeps DEF Updates
<1>2. CASE UNCHANGED vars
  <2>1. UNCHANGED << Active, Pending, Message, Holding >>
    BY <1>2 DEF vars, shared, Active, Pending, Message, Holding
  <2> QED
    BY <1>2, <2>1 DEF vars, calls, shared, clocks, UpdateInv, GoalsInv, TypeOK, AcceptInv,
                      MessageInv, EndInv
<1> QED
  BY <1>1, <1>2, StoresKeep, CallbackKeeps, LifecycleKeeps DEF Next

\* The controller's invariant.
THEOREM UpdateInvariant == Spec => []UpdateInv
  BY Initially, Inductive, PTL DEF Spec

\* No goal is lost between update() and the callbacks: GoalsInv, for any goals and any
\* trajectories.
THEOREM GoalsAreKept == Spec => []GoalsInv
<1>1. UpdateInv => GoalsInv
  BY DEF UpdateInv
<1> QED
  BY <1>1, UpdateInvariant, PTL

\* Only the callbacks cancel, and only of update() can a result be earned.
LEMMA Earned ==
  ASSUME CmdTimeout = 0, UpdateInv, NEW g \in Goals \ raced, NEW scale \in Scales, NEW e \in Errors,
         Update(scale, e), result'[g] # result[g]
  PROVE  /\ trajectory' = g /\ ~holding
         /\ result'[g] = "succeeded" => since' >= 0 /\ e = "goal"
         /\ result'[g] = "late" => since' + Cycle + lag > GoalTime /\ e # "goal"
<1> USE NamesAssumption
<1>1. PICK end :
        /\ ~Adopts => end = left
        /\ Decides(end, Adopts, e)
        /\ since' = IF BeforeLastPoint(end) THEN -1
                    ELSE IF Adopts \/ since = -1 THEN 0 ELSE Lower(since + Cycle, MaxPast)
        /\ Adopts => \E length \in IF message # Hold THEN Lengths ELSE {0} : end = length + Cycle
  BY Zenon DEF Update
<1>2. PICK outcome \in Outcomes :
        /\ active # None
        /\ Concludes(outcome)
        /\ outcome = "succeeded" => ~BeforeLastPoint(end) /\ (holding \/ e = "goal")
        /\ outcome = "late" =>
             ~BeforeLastPoint(end) /\ e # "goal" /\ TimeDifference(end) > GoalTime
  <2>1. CASE active = None /\ ~pending /\ Holds
    BY <2>1 DEF Holds
  <2>2. CASE GoesOnHeld \/ UNCHANGED << shared, result >>
    BY <2>2 DEF GoesOnHeld
  <2> QED
    BY <1>1, <2>1, <2>2, Decisions, Zenon
<1>3. g = active /\ result'[g] = outcome /\ message = g /\ ~holding
  <2>1. Active = active /\ Message = message /\ (Holding <=> holding)
    BY Settled DEF Update
  <2> QED
    BY <1>2, <2>1 DEF Concludes, Gives, UpdateInv, GoalsInv, TypeOK
<1>4. trajectory' = g
  BY <1>2, <1>3 DEF Update, Followed, Adopts
<1>5. /\ lag \in 0 .. MaxLag /\ left \in -MaxPast .. MaxLag /\ since \in -1 .. MaxPast
      /\ GoalTime \in Nat /\ MaxPast = GoalTime + 1 /\ Lengths \subseteq Nat \ {0}
  BY TimesAssumption DEF UpdateInv, GoalsInv, TypeOK, MaxPast
<1>6. ASSUME ~BeforeLastPoint(end)
      PROVE  ~Adopts
  <2>1. message # Hold
    BY <1>3
  <2>2. ASSUME Adopts PROVE FALSE
    <3>1. PICK length \in Lengths : end = length + Cycle
      BY <1>1, <2>1, <2>2, Zenon
    <3> QED
      BY <1>5, <1>6, <3>1 DEF BeforeLastPoint, Cycle
  <2> QED
    BY <2>2
<1>7. ASSUME ~BeforeLastPoint(end)
      PROVE  since' = (IF since = -1 THEN 0 ELSE Lower(since + Cycle, MaxPast)) /\ end = left
  BY <1>1, <1>6, <1>7, Zenon
<1>8. CASE outcome = "succeeded"
  BY <1>2, <1>3, <1>4, <1>5, <1>7, <1>8 DEF Lower, Cycle
<1>9. CASE outcome = "late"
  <2>1. IF since = -1 THEN left > 0 ELSE left >= -(since + Cycle)
    <3>1. trajectory # None
      BY <1>2, <1>3, <1>4, <1>6, <1>9 DEF Update, Followed
    <3> QED
      BY <3>1 DEF UpdateInv, EndInv
  <2>2. lag + Cycle - left > GoalTime
    BY <1>2, <1>7, <1>9 DEF TimeDifference
  <2>3. since' = (IF since = -1 THEN 0 ELSE Lower(since + Cycle, MaxPast))
    BY <1>2, <1>7, <1>9
  <2>4. since' + Cycle + lag > GoalTime
    BY <1>5, <2>1, <2>2, <2>3 DEF Lower, Cycle
  <2> QED
    BY <1>2, <1>3, <1>4, <1>9, <2>4
<1>10. CASE outcome = "violated"
  BY <1>3, <1>4, <1>10
<1> QED
  BY <1>8, <1>9, <1>10 DEF Outcomes

\* A result that update() gives is earned: ResultsEarned, for any goals, trajectories, lengths
\* and goal time, without a command timeout.
THEOREM ResultsAreEarned == ASSUME CmdTimeout = 0 PROVE Spec => ResultsEarned
<1> DEFINE AllEarned ==
      \A g \in Goals \ raced, scale \in Scales, e \in Errors :
        Update(scale, e) /\ result'[g] # result[g] =>
          /\ trajectory' = g /\ ~holding
          /\ result'[g] = "succeeded" => since' >= 0 /\ e = "goal"
          /\ result'[g] = "late" => since' + Cycle + lag > GoalTime /\ e # "goal"
<1>1. UpdateInv /\ [Next]_vars => [AllEarned]_vars
  BY Earned
<1> QED
  BY <1>1, UpdateInvariant, PTL DEF Spec, ResultsEarned

\* No motion outlives its goal, or begins before it is accepted: NoStaleMotion, for any goals
\* and trajectories.
THEOREM NoMotionIsStale == Spec => NoStaleMotion
<1> DEFINE Fresh == Updates /\ trajectory' \in Goals \ raced =>
                      \/ trajectory' = active
                      \/ result[trajectory'] # "open" /\ callback # "idle"
<1>1. UpdateInv /\ [Next]_vars => [Fresh]_vars
  <2> SUFFICES ASSUME UpdateInv, NEW scale \in Scales, NEW e \in Errors,
                      Update(scale, e), trajectory' \in Goals \ raced, trajectory' # active
               PROVE  result[trajectory'] # "open" /\ callback # "idle"
    BY DEF Updates
  <2> USE NamesAssumption DEF UpdateInv, GoalsInv, TypeOK, AcceptInv, Accepting, MessageInv
  <2>1. /\ running /\ (callback # "idle" => ~interrupted) /\ trajectory' = Followed
        /\ Active = active /\ (Pending <=> pending) /\ Message = message /\ (Holding <=> holding)
    BY Settled, Zenon DEF Update
  <2>2. CASE Adopts
    BY <2>1, <2>2 DEF Followed, Adopts
  <2>3. CASE ~Adopts /\ message = trajectory
    BY <2>1, <2>3 DEF Followed
  <2>4. CASE ~Adopts /\ message # trajectory
    BY <2>1, <2>4 DEF Followed, Adopts
  <2> QED
    BY <2>2, <2>3, <2>4
<1> QED
  BY <1>1, UpdateInvariant, PTL DEF Spec, NoStaleMotion
=============================================================================
