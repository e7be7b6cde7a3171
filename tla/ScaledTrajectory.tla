-------------------------- MODULE ScaledTrajectory --------------------------
(***************************************************************************)
(* The scaled joint trajectory controller: update() of the realtime thread *)
(* follows the trajectory of a goal in a time that runs as fast as the arm *)
(* does, and decides how the goal ends, while the callbacks of the action  *)
(* server and of the topic replace goal and trajectory.                    *)
(*                                                                         *)
(* The callbacks belong to the JointTrajectoryController and are known     *)
(* from how update() uses what they set.  One runs at a time, store by     *)
(* store, and at most one update() begins in it.  update() reads and       *)
(* decides at once; what it stores then is not lock-free, and a callback   *)
(* may come in between.                                                    *)
(*                                                                         *)
(* A trajectory is known by its message and the time of its last point.    *)
(* Times count half cycles of the arm's full speed.                        *)
(***************************************************************************)
EXTENDS Integers

CONSTANTS
  Goals,        \* the goals clients send, each once
  Topics,       \* the trajectories that come by the topic instead
  None, Hold,   \* no trajectory, and the one that stays where it is
  Lengths,      \* the times of the last point
  GoalTime,     \* goal_time_tolerance, or 0 for no limit
  CmdTimeout,   \* cmd_timeout_, or 0
  MaxLag        \* bound: where the clocks stop to count

Cycle   == 2
MaxPast == GoalTime + CmdTimeout + 1   \* past this all that can expire has

\* Goals, trajectories and the absence of one are told apart.
ASSUME NamesAssumption ==
  /\ Goals \cap Topics = {} /\ Hold \notin Goals \cup Topics
  /\ None \notin Goals \cup Topics \cup {Hold}

\* The clocks stop where all their comparisons are decided.
ASSUME TimesAssumption ==
  /\ Lengths \subseteq Nat \ {0} /\ GoalTime \in Nat /\ CmdTimeout \in Nat
  /\ MaxLag \in Nat
  /\ \A length \in Lengths \cup {0} : MaxLag >= length + Cycle + MaxPast

VARIABLES
  running,      \* the controller is active
  callback,     \* what the callback in progress has done, or "idle"
  goal,         \* the goal or topic it is about
  interrupted,  \* an update() has fallen into it
  pending,      \* rt_has_pending_goal_
  active,       \* rt_active_goal_
  message,      \* traj_msg_external_point_ptr_
  holding,      \* rt_is_holding_
  storing,      \* the store that update() makes next, or "none"
  raced,        \* history: the goals accepted while update() still had stores to make
  trajectory,   \* the message of traj_external_point_ptr_
  left,         \* the time from uptime to its last point
  lag,          \* how far uptime is behind the time
  since,        \* history: the time since update() first sampled the end, or -1
  odd,          \* history: a cycle that changes nothing else is a step all the same
  result        \* how each goal ended, "open" until it does, "unsent" before

clocks    == << left, lag, since, odd >>
shared    == << pending, active, message, holding >>
calls     == << callback, goal, interrupted >>
vars      == << running, calls, shared, storing, raced, trajectory, clocks, result >>

Lower(a, b)  == IF b < a THEN b ELSE a
Higher(a, b) == IF b > a THEN b ELSE a

Init ==
  /\ running = TRUE
  /\ callback = "idle" /\ goal = None /\ interrupted = FALSE
  /\ pending = FALSE /\ active = None /\ message = Hold /\ holding = TRUE
  /\ storing = "none" /\ raced = {}
  /\ trajectory = None /\ left = 0 /\ lag = 0 /\ since = -1 /\ odd = FALSE
  /\ result = [g \in Goals |-> "unsent"]

-----------------------------------------------------------------------------
(***************************************************************************)
(* update().                                                               *)
(***************************************************************************)
\* Variant: a message is taken as soon as it is there.
AdoptsAtOnce == message # trajectory

\* A new message is taken, unless its goal is still to come.
Adopts == message # trajectory /\ ~(pending /\ active = None)

\* The trajectory that is sampled, and the time from uptime to its end.  A new one starts
\* at the time of its first sample.
Followed == IF Adopts THEN message ELSE trajectory

\* The sample is taken a whole cycle after the last uptime, whatever the scaling.
BeforeLastPoint(end) == end > Cycle

\* What time_difference is compared with: the time, not the trajectory's, past the end.
TimeDifference(end) == lag + Cycle - end

\* What is checked, of a trajectory that was not set to hold.  A command timeout sets it.
TimedOut(end) ==
  /\ ~BeforeLastPoint(end) /\ ~holding
  /\ CmdTimeout > 0 /\ TimeDifference(end) > CmdTimeout
Checked(end) == ~holding /\ ~TimedOut(end)

Violated(end, first, e) ==
  Checked(end) /\ (BeforeLastPoint(end) \/ first) /\ e = "off"
Outside(end, e) ==
  Checked(end) /\ ~BeforeLastPoint(end) /\ e # "goal"

\* Variant: the goal time is not looked at.
NeverTooLate(end, e) == FALSE

TooLate(end, e) ==
  Outside(end, e) /\ GoalTime # 0 /\ TimeDifference(end) > GoalTime

\* The active goal gets its result.  It is still to be released, and the arm to be held,
\* where it is or at the last point.
Gives(outcome) == result' = [result EXCEPT ![active] = outcome] /\ UNCHANGED shared

\* Variant: the goal stays the active one.
ConcludesActive(outcome) == Gives(outcome) /\ storing' = "pending"

Concludes(outcome) == Gives(outcome) /\ storing' = "goal"

\* Without a goal the arm is held.  With one pending that is left to its callback.
Holds == storing' = "message" /\ UNCHANGED << shared, result >>

GoesOn(end) ==
  /\ storing' = IF TimedOut(end) THEN "message" ELSE "none"
  /\ UNCHANGED << shared, result >>

\* Variant: a trajectory that has come to its end has reached the goal.
DecidesByTime(end, first, e) ==
  CASE active # None /\ Violated(end, first, e) -> Concludes("violated")
    [] active # None /\ ~Violated(end, first, e) /\ ~BeforeLastPoint(end) ->
         Concludes("succeeded")
    [] OTHER -> GoesOn(end)

Decides(end, first, e) ==
  LET violated == Violated(end, first, e)
      late     == TooLate(end, e)
  IN  IF active # None
      THEN CASE violated -> Concludes("violated")
             [] ~violated /\ ~BeforeLastPoint(end) /\ ~Outside(end, e) ->
                  Concludes("succeeded")
             [] ~violated /\ late -> Concludes("late")
             [] OTHER -> GoesOn(end)
      ELSE IF ~pending /\ (violated \/ late) THEN Holds
      ELSE GoesOn(end)

\* One cycle: scale is the arm's speed, e how far it is from where it should be.
Update(scale, e) ==
  /\ running /\ storing = "none" /\ (callback # "idle" => ~interrupted)
  /\ Followed # None
  /\ \E length \in IF Adopts /\ message # Hold THEN Lengths ELSE {0} :
       LET end == IF Adopts THEN length + Cycle ELSE left
       IN  /\ Decides(end, Adopts, e)
           /\ left' = Higher(end - scale, -MaxPast)
           /\ since' = IF BeforeLastPoint(end) THEN -1
                       ELSE IF Adopts \/ since = -1 THEN 0 ELSE Lower(since + Cycle, MaxPast)
  /\ trajectory' = Followed
  /\ lag' = Lower(lag + Cycle - scale, MaxLag)
  /\ interrupted' = (callback # "idle") /\ odd' = ~odd
  /\ UNCHANGED << running, callback, goal, raced >>

Scales  == 0 .. Cycle
Errors  == {"goal", "path", "off"}   \* within the goal tolerance, within the path's only, outside
Updates == \E scale \in Scales, e \in Errors : Update(scale, e)

\* The stores.
Stores(from, to) ==
  /\ storing = from /\ storing' = to
  /\ UNCHANGED << running, calls, raced, trajectory, clocks, result >>

ReleasesGoal ==
  Stores("goal", "pending") /\ active' = None /\ UNCHANGED << pending, message, holding >>

ClearsPending ==
  Stores("pending", "message") /\ pending' = FALSE /\ UNCHANGED << active, message, holding >>

HoldsArm ==
  Stores("message", "none") /\ message' = Hold /\ holding' = TRUE
    /\ UNCHANGED << pending, active >>

UpdateStores == ReleasesGoal \/ ClearsPending \/ HoldsArm

-----------------------------------------------------------------------------
(***************************************************************************)
(* The callbacks, each step one store that update() can see.               *)
(***************************************************************************)
CallbackGoes(from, to, g) ==
  /\ callback = from /\ callback' = to
  /\ interrupted' = (to # "idle" /\ interrupted)
  /\ raced' = raced \cup (IF storing = "none" THEN {} ELSE {g} \ {None})
  /\ UNCHANGED << running, storing, trajectory, clocks >>

\* The first result a goal is given stays.
CancelsActive ==
  result' = [g \in Goals |-> IF g = active /\ result[g] = "open" THEN "canceled" ELSE result[g]]

AcceptMarks(g) ==
  /\ running /\ trajectory # None /\ result[g] = "unsent"
  /\ CallbackGoes("idle", "marked", g)
  /\ goal' = g /\ pending' = TRUE
  /\ result' = [result EXCEPT ![g] = "open"]
  /\ UNCHANGED << active, message, holding >>

\* preempt_active_goal()
AcceptPreempts ==
  /\ CallbackGoes("marked", "preempted", goal)
  /\ CancelsActive /\ active' = None
  /\ UNCHANGED << goal, pending, message, holding >>

AcceptReplaces ==
  /\ CallbackGoes("preempted", "replaced", goal)
  /\ message' = goal
  /\ UNCHANGED << goal, pending, active, holding, result >>

AcceptMoves ==
  /\ CallbackGoes("replaced", "moving", goal)
  /\ holding' = FALSE
  /\ UNCHANGED << goal, pending, active, message, result >>

AcceptActivates ==
  /\ CallbackGoes("moving", "idle", goal)
  /\ active' = goal /\ goal' = None
  /\ UNCHANGED << pending, message, holding, result >>

CancelEnds ==
  /\ active # None
  /\ CallbackGoes("idle", "canceled", None)
  /\ CancelsActive /\ active' = None /\ pending' = FALSE
  /\ UNCHANGED << goal, message, holding >>

CancelHolds ==
  /\ CallbackGoes("canceled", "idle", None)
  /\ message' = Hold /\ holding' = TRUE
  /\ UNCHANGED << goal, pending, active, result >>

\* Clients do not mix goals and the topic.
TopicReplaces ==
  /\ running /\ trajectory # None /\ active = None
  /\ CallbackGoes("idle", "heard", None)
  /\ message' \in Topics \ {message, trajectory}
  /\ UNCHANGED << goal, pending, active, holding, result >>

TopicMoves ==
  /\ CallbackGoes("heard", "idle", None)
  /\ holding' = FALSE
  /\ UNCHANGED << goal, pending, active, message, result >>

\* The controllers are switched while neither a callback nor update() is at work.
Deactivates ==
  /\ running /\ callback = "idle" /\ storing = "none"
  /\ running' = FALSE /\ trajectory' = None
  /\ CancelsActive /\ active' = None /\ pending' = FALSE
  /\ UNCHANGED << calls, message, holding, storing, raced, clocks >>

\* on_activate(): the times start anew, and the arm is held.
Activates ==
  /\ ~running
  /\ running' = TRUE /\ lag' = 0 /\ since' = -1
  /\ message' = Hold /\ holding' = TRUE
  /\ UNCHANGED << calls, pending, active, storing, raced, trajectory, left, odd, result >>

CallbackGoesOn ==
  \/ AcceptPreempts \/ AcceptReplaces \/ AcceptMoves \/ AcceptActivates
  \/ CancelHolds \/ TopicMoves

Next ==
  \/ Updates \/ UpdateStores \/ CallbackGoesOn \/ CancelEnds \/ TopicReplaces
  \/ Deactivates \/ Activates \/ \E g \in Goals : AcceptMarks(g)

Spec == Init /\ [][Next]_vars

\* Callbacks and update() return.  While the controller is active its cycles go on, and the arm,
\* which may be slowed down or stopped for any time, is not stopped for good.
FairSpec ==
  /\ Spec
  /\ WF_vars(CallbackGoesOn) /\ WF_vars(UpdateStores)
  /\ SF_vars(\E e \in Errors : Update(Cycle, e))

-----------------------------------------------------------------------------
(***************************************************************************)
(* Properties.                                                             *)
(***************************************************************************)
TypeOK ==
  /\ {running, interrupted, pending, holding, odd} \subseteq BOOLEAN /\ raced \subseteq Goals
  /\ storing \in {"none", "goal", "pending", "message"}
  /\ callback \in {"idle", "marked", "preempted", "replaced", "moving", "canceled", "heard"}
  /\ goal \in Goals \cup {None} /\ active \in Goals \cup {None}
  /\ message \in Goals \cup Topics \cup {Hold}
  /\ trajectory \in Goals \cup Topics \cup {Hold, None}
  /\ lag \in 0 .. MaxLag /\ left \in -MaxPast .. MaxLag /\ since \in -1 .. MaxPast
  /\ result \in [Goals -> {"unsent", "open", "succeeded", "violated", "late", "canceled"}]

\* What is shared is what it will be when update() has made its stores.
Active  == IF storing = "goal" THEN None ELSE active
Pending == pending /\ storing \notin {"goal", "pending"}
Message == IF storing = "none" THEN message ELSE Hold
Holding == holding \/ storing # "none"

\* A goal that is accepted while update() still makes its stores may be lost in them, but no
\* other: one that has no result yet is the active one, or it is being accepted; the active one
\* has no result yet, its message is the last, and nothing makes it hold, unless there is a
\* command timeout.
GoalsInv ==
  /\ TypeOK
  /\ \A g \in Goals :
       /\ result[g] = "open" => g \in raced \/ g = Active \/ (g = goal /\ callback # "idle")
       /\ g = Active => result[g] = "open" /\ Message \in {g, Hold}
       /\ g = Active /\ CmdTimeout = 0 => g \in raced \/ (Message = g /\ ~Holding)

\* While a goal is being accepted it is neither the active one nor followed, and the marks
\* that keep update() from its message are set, unless update() has stores to make meanwhile.
Accepting == {"marked", "preempted", "replaced", "moving"}

AcceptInv ==
  /\ IF callback \in Accepting
     THEN /\ goal \in Goals \ {active} /\ result[goal] = "open"
          /\ goal \in raced \/ (goal # trajectory /\ (interrupted \/ Pending))
     ELSE goal = None
  /\ Pending /\ Active = None => callback \in Accepting
  /\ callback \notin {"idle", "marked"} \/ ~running => active = None
  /\ callback \in {"replaced", "moving"} => Message \in {goal, Hold}
  /\ callback \in {"replaced", "moving"} /\ CmdTimeout = 0 =>
       goal \in raced \/ (Message = goal /\ (callback = "moving" => ~Holding))
  /\ ~running => callback = "idle" /\ storing = "none" /\ trajectory = None

\* The last message is of the active goal; or its goal has ended, or is still being accepted,
\* and a callback, or the next activation, is about to replace it.
MessageInv ==
  /\ Message \in Goals =>
       /\ result[Message] # "unsent"
       /\ \/ Message = Active \/ ~running
          \/ callback # "idle" /\ (result[Message] = "open" => Message = goal)
  /\ callback = "heard" => Message \notin Goals
  /\ \A g \in Goals : g \in {active, trajectory} => result[g] # "unsent"

\* uptime is behind the end of the trajectory for no longer than the end has been sampled.
EndInv ==
  trajectory # None =>
    IF since = -1 THEN left > 0 ELSE left >= -(since + Cycle)

\* The inductive invariant.
UpdateInv == GoalsInv /\ AcceptInv /\ MessageInv /\ EndInv

\* A result is earned, but by a goal that may be lost.  Success: what was sampled is the goal's
\* own trajectory, to its end, the arm was within the goal tolerance, and nothing had made it
\* hold.  Late: the arm was outside, and the time since the end was first sampled, which an arm
\* that was slowed down adds its lag to, exceeds goal_time (up to the cycle that it took).
ResultsEarned ==
  [][\A g \in Goals \ raced, scale \in Scales, e \in Errors :
       Update(scale, e) /\ result'[g] # result[g] =>
         /\ trajectory' = g /\ ~holding
         /\ result'[g] = "succeeded" => since' >= 0 /\ e = "goal"
         /\ result'[g] = "late" => since' + Cycle + lag > GoalTime /\ e # "goal"]_vars

\* The arm follows no trajectory of a goal that has ended, but for the cycle that falls into a
\* callback (while a goal is being accepted the hold that follows an abort is discarded), nor
\* that of one that is still being accepted, unless that one may be lost.
NoStaleMotion ==
  [][Updates /\ trajectory' \in Goals \ raced =>
       \/ trajectory' = active
       \/ result[trajectory'] # "open" /\ callback # "idle"]_vars

\* Whoever sent it, a goal ends, unless it may be lost.
GoalsEnd == \A g \in Goals : result[g] = "open" ~> result[g] # "open" \/ g \in raced
=============================================================================
