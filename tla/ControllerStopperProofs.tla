---------------------- MODULE ControllerStopperProofs ----------------------
(***************************************************************************)
(* Proofs about ControllerStopper, for any controllers and any bounds.     *)
(***************************************************************************)
EXTENDS ControllerStopper, TLAPS

\* A queue of one.
LEMMA QueueOfOne ==
  ASSUME NEW e
  PROVE  /\ Append(<< >>, e) = << e >>
         /\ Head(<< e >>) = e
         /\ Tail(<< e >>) = << >>
         /\ << e >> # << >>
OBVIOUS

\* What is done to queues keeps the type of their elements.
LEMMA QueueTypes ==
  ASSUME NEW S, NEW q \in Seq(S), NEW e \in S
  PROVE  /\ Append(q, e) \in Seq(S)
         /\ q # << >> => Head(q) \in S /\ Tail(q) \in Seq(S)
OBVIOUS

-----------------------------------------------------------------------------
\* Types are preserved.
LEMMA TypesPreserved == TypeOK /\ [Next]_vars => TypeOK'
<1> SUFFICES ASSUME TypeOK, [Next]_vars PROVE TypeOK'
  OBVIOUS
<1> USE ControllersAssumption, BoundsAssumption
<1> USE DEF TypeOK
<1>1. CASE StartControllers
  <2>1. [for |-> "callback", start |-> stopped, stop |-> {}] \in Requests
    BY DEF Requests, Awaiting
  <2>2. switches' \in Seq(Requests)
    BY <1>1, <2>1 DEF StartControllers
  <2> QED
    BY <1>1, <2>2, Zenon DEF StartControllers
<1>2. CASE FindAndStopControllers
  <2>1. asked' \in Seq(Awaiting)
    BY <1>2 DEF FindAndStopControllers, Awaiting
  <2> QED
    BY <1>2, <2>1, Zenon DEF FindAndStopControllers, Cleared
<1>3. CASE IgnoreStatus
  BY <1>3, Zenon DEF IgnoreStatus, stopper, manager, history
<1>4. CASE ControllersListed
  <2>1. Head(listed) \in Answers /\ Tail(listed) \in Seq(Answers)
    BY <1>4 DEF ControllersListed
  <2>2. Found(Head(listed)) \subseteq Controllers
    BY <2>1 DEF Found, Answers
  <2>3. [for |-> "callback", start |-> {}, stop |-> Found(Head(listed))] \in Requests
    BY <2>2 DEF Requests, Awaiting
  <2>4. switches' \in Seq(Requests)
    BY <1>4, <2>3 DEF ControllersListed
  <2> QED
    BY <1>4, <2>1, <2>2, <2>4, Zenon DEF ControllersListed, history
<1>5. CASE ModeAnswered
  BY <1>5, Zenon DEF ModeAnswered, manager, history, Phases
<1>6. CASE StartupAsks
  <2>1. asked' \in Seq(Awaiting)
    BY <1>6 DEF StartupAsks, Awaiting
  <2> QED
    BY <1>6, <2>1, Zenon DEF StartupAsks, Phases
<1>7. CASE StartupListed
  <2>1. Head(listed) \in Answers /\ Tail(listed) \in Seq(Answers)
    BY <1>7 DEF StartupListed
  <2>2. Found(Head(listed)) \subseteq Controllers
    BY <2>1 DEF Found, Answers
  <2> QED
    BY <1>7, <2>1, <2>2, Zenon DEF StartupListed, history, Phases
<1>8. CASE StartupStops
  <2>1. [for |-> "constructor", start |-> {}, stop |-> stopped] \in Requests
    BY DEF Requests, Awaiting
  <2>2. switches' \in Seq(Requests)
    BY <1>8, <2>1 DEF StartupStops
  <2> QED
    BY <1>8, <2>2, Zenon DEF StartupStops, history, Phases
<1>9. CASE StartupEnds
  BY <1>9, Zenon DEF StartupEnds, manager, history, Phases
<1>10. CASE ListsControllers
  <2>1. Head(asked) \in Awaiting /\ Tail(asked) \in Seq(Awaiting)
    BY <1>10 DEF ListsControllers
  <2>2. [for |-> Head(asked), active |-> active] \in Answers
    BY <2>1 DEF Answers
  <2>3. listed' \in Seq(Answers)
    BY <1>10, <2>2 DEF ListsControllers
  <2> QED
    BY <1>10, <2>1, <2>3, Zenon DEF ListsControllers, stopper, history
<1>11. CASE SwitchesControllers
  <2>1. Head(switches) \in Requests /\ Tail(switches) \in Seq(Requests)
    BY <1>11 DEF SwitchesControllers
  <2>2. active' \subseteq Controllers
    BY <1>11, <2>1 DEF SwitchesControllers, Requests
  <2> QED
    BY <1>11, <2>1, <2>2, Zenon DEF SwitchesControllers, stopper, history
<1>12. CASE OthersSwitch
  <2>1. active' \subseteq Controllers /\ others' \in 0..MaxSwitches
    BY <1>12 DEF OthersSwitch
  <2>2. found' \subseteq Controllers /\ disturbed' \in BOOLEAN
    BY <1>12, <2>1, Zenon DEF OthersSwitch
  <2> QED
    BY <1>12, <2>1, <2>2, Zenon DEF OthersSwitch, stopper
<1>13. CASE StatusChanges
  <2>1. changes' \in 0..MaxChanges
    BY <1>13 DEF StatusChanges
  <2>2. status' \in BOOLEAN /\ inbox' \in {<< >>, << TRUE >>, << FALSE >>}
    BY <1>13, Zenon DEF StatusChanges
  <2> QED
    BY <1>13, <2>1, <2>2, Zenon DEF StatusChanges, stopper, manager, history
<1>14. CASE UNCHANGED vars
  BY <1>14, Zenon DEF vars, stopper, manager, history
<1> QED
  BY <1>1, <1>2, <1>3, <1>4, <1>5, <1>6, <1>7, <1>8, <1>9, <1>10, <1>11, <1>12, <1>13, <1>14
  DEF Next, Callbacks, Startup, Manager

-----------------------------------------------------------------------------
\* The exchange.  Two parts of the invariant that each action is checked against.
ModeInv     == phase = "mode" => disturbed
ExchangeInv == ~disturbed => Settled \/ Stopping \/ Starting \/ StartingUp

LEMMA ExchangePreserved == StopperInv /\ [Next]_vars => ModeInv' /\ ExchangeInv'
<1> SUFFICES ASSUME StopperInv, [Next]_vars PROVE ModeInv' /\ ExchangeInv'
  OBVIOUS
<1> USE DEF ModeInv, ExchangeInv, Calm, NoExchange, Expected
<1>0. TypeOK /\ ModeInv /\ ExchangeInv
  BY DEF StopperInv
<1>1. CASE StartControllers
  <2> SUFFICES ASSUME ~disturbed' PROVE Settled' \/ Starting'
    BY <1>1, <1>0 DEF StartControllers
  <2>1. ~disturbed /\ Calm /\ ~running
    BY <1>1, Zenon DEF StartControllers
  <2>2. Settled
    BY <2>1, <1>0 DEF Stopping, Starting, StartingUp, Asking, Listing, Switching
  <2>3. active = found \intersect Consistent /\ stopped = Expected
    BY <2>1, <2>2 DEF Settled
  <2>4. CASE stopped = {}
    <3>1. active' = found'
      BY <1>1, <2>3, <2>4 DEF StartControllers
    <3> QED
      BY <1>1, <2>1, <2>4, <3>1 DEF StartControllers, Settled
  <2>5. CASE stopped # {}
    <3>1. switches' = << [for |-> "callback", start |-> Expected, stop |-> {}] >>
      <4> DEFINE request == [for |-> "callback", start |-> Expected, stop |-> {}]
      <4>1. switches' = Append(<< >>, request)
        BY <1>1, <2>1, <2>3, <2>5, Zenon DEF StartControllers
      <4> QED
        BY <4>1, QueueOfOne, Zenon
    <3> QED
      BY <1>1, <2>1, <2>3, <3>1 DEF StartControllers, Starting, Switching
  <2> QED
    BY <2>4, <2>5
<1>2. CASE FindAndStopControllers
  <2> SUFFICES ASSUME ~disturbed' PROVE Stopping'
    BY <1>2, <1>0 DEF FindAndStopControllers
  <2>1. Calm
    BY <1>2, Zenon DEF FindAndStopControllers
  <2> QED
    BY <1>2, <2>1 DEF FindAndStopControllers, Stopping, Asking, Cleared
<1>3. CASE IgnoreStatus
  BY <1>3, <1>0 DEF IgnoreStatus, stopper, manager, history, Settled, Stopping, Starting,
                    StartingUp, Asking, Listing, Switching
<1>4. CASE ControllersListed
  <2> SUFFICES ASSUME ~disturbed' PROVE Settled' \/ Stopping'
    BY <1>4, <1>0 DEF ControllersListed, history
  <2>1. ~disturbed
    BY <1>4 DEF ControllersListed, history
  <2>2. Stopping /\ Listing("callback") /\ stopped = {}
    BY <1>4, <1>0, <2>1 DEF ControllersListed, Settled, Stopping, Starting, StartingUp, Asking,
                            Listing, Switching
  <2>3. Found(Head(listed)) = Expected
    BY <2>2 DEF Found, Listing
  <2>4. CASE Expected = {}
    <3>1. /\ listed' = << >> /\ switches' = << >> /\ stopped' = {}
          /\ active = found \intersect Consistent
      BY <1>4, <2>2, <2>3, <2>4 DEF ControllersListed, Stopping, Listing
    <3> QED
      BY <1>4, <2>2, <2>4, <3>1 DEF ControllersListed, Stopping, Settled, Listing, history
  <2>5. CASE Expected # {}
    <3>1. /\ listed' = << >> /\ stopped' = Expected
          /\ switches' = << [for |-> "callback", start |-> {}, stop |-> Expected] >>
      <4> DEFINE request == [for |-> "callback", start |-> {}, stop |-> Expected]
      <4>1. switches = << >> /\ listed = << [for |-> "callback", active |-> found] >>
        BY <2>2, Zenon DEF Listing
      <4>2. switches' = Append(<< >>, request)
        BY <1>4, <2>3, <2>5, <4>1, Zenon DEF ControllersListed
      <4>3. listed' = << >> /\ stopped' = Expected
        BY <1>4, <2>3, <4>1, QueueOfOne, Zenon DEF ControllersListed
      <4> QED
        BY <4>2, <4>3, QueueOfOne, Zenon
    <3> QED
      BY <1>4, <2>2, <3>1 DEF ControllersListed, Stopping, Listing, Switching, history
  <2> QED
    BY <2>4, <2>5
<1>5. CASE ModeAnswered
  <2>1. disturbed
    BY <1>5, <1>0, Zenon DEF ModeAnswered
  <2>2. phase' # "mode" /\ disturbed'
    BY <1>5, <2>1, Zenon DEF ModeAnswered, history
  <2> QED
    BY <2>2
<1>6. CASE StartupAsks
  <2>1. phase' = "list" /\ stopped' = {} /\ active' = found' /\ disturbed' = ~NoExchange
    BY <1>6, Zenon DEF StartupAsks
  <2>2. CASE NoExchange
    <3>1. asked' = << "constructor" >> /\ listed' = << >> /\ switches' = << >>
      BY <1>6, <2>2, QueueOfOne, Zenon DEF StartupAsks
    <3> QED
      BY <2>1, <3>1 DEF StartingUp, Asking
  <2>3. CASE ~NoExchange
    BY <2>1, <2>3, Zenon
  <2> QED
    BY <2>2, <2>3, Zenon
<1>7. CASE StartupListed
  <2> SUFFICES ASSUME ~disturbed' PROVE StartingUp'
    BY <1>7, <1>0 DEF StartupListed
  <2>1. ~disturbed
    BY <1>7 DEF StartupListed, history
  <2>2. StartingUp /\ Listing("constructor") /\ stopped = {} /\ active = found
    BY <1>7, <1>0, <2>1 DEF StartupListed, Settled, Stopping, Starting, StartingUp, Asking,
                            Listing, Switching
  <2>3. Found(Head(listed)) = Expected
    BY <2>2 DEF Found, Listing
  <2> QED
    BY <1>7, <2>2, <2>3 DEF StartupListed, StartingUp, Listing, history
<1>8. CASE StartupStops
  <2> SUFFICES ASSUME ~disturbed' PROVE StartingUp'
    BY <1>8, <1>0 DEF StartupStops
  <2>1. ~disturbed
    BY <1>8 DEF StartupStops, history
  <2>2. NoExchange /\ stopped = Expected /\ active = found
    BY <1>8, <1>0, <2>1 DEF StartupStops, Settled, Stopping, Starting, StartingUp
  <2> QED
    BY <1>8, <2>2 DEF StartupStops, StartingUp, Switching, history
<1>9. CASE StartupEnds
  <2> SUFFICES ASSUME ~disturbed' PROVE Settled'
    BY <1>9, <1>0 DEF StartupEnds
  <2>1. ~disturbed
    BY <1>9 DEF StartupEnds, history
  <2>2. /\ NoExchange /\ stopped = Expected
        /\ active = found \intersect Consistent
    BY <1>9, <1>0, <2>1 DEF StartupEnds, Settled, Stopping, Starting, StartingUp, Switching
  <2> QED
    BY <1>9, <2>2 DEF StartupEnds, Settled, manager, history
<1>10. CASE ListsControllers
  <2> SUFFICES ASSUME ~disturbed' PROVE Stopping' \/ StartingUp'
    BY <1>10, <1>0 DEF ListsControllers, stopper, history
  <2>1. ~disturbed
    BY <1>10 DEF ListsControllers, history
  <2>2. \/ Stopping /\ Asking("callback")
        \/ StartingUp /\ Asking("constructor")
    BY <1>10, <1>0, <2>1 DEF ListsControllers, Settled, Stopping, Starting, StartingUp, Asking,
                             Listing, Switching
  <2>3. CASE Stopping /\ Asking("callback")
    BY <1>10, <2>3 DEF ListsControllers, Stopping, Asking, Listing, Switching, stopper, history
  <2>4. CASE StartingUp /\ Asking("constructor")
    BY <1>10, <2>4 DEF ListsControllers, StartingUp, Asking, Listing, Switching, stopper, history
  <2> QED
    BY <2>2, <2>3, <2>4
<1>11. CASE SwitchesControllers
  <2> SUFFICES ASSUME ~disturbed' PROVE Settled' \/ StartingUp'
    BY <1>11, <1>0 DEF SwitchesControllers, stopper, history
  <2>1. ~disturbed
    BY <1>11 DEF SwitchesControllers, history
  <2>2. CASE Stopping
    <3>1. /\ phase = "spin" /\ ~running /\ active = found /\ stopped = Expected
          /\ Switching([for |-> "callback", start |-> {}, stop |-> Expected])
      BY <1>11, <2>2 DEF SwitchesControllers, Stopping, Asking, Listing
    <3>2. Accepts(Head(switches))
      BY <3>1 DEF Accepts, Switching
    <3>3. active' = found \intersect Consistent
      BY <1>11, <3>1, <3>2 DEF SwitchesControllers, Switching
    <3>4. switches' = << >>
      BY <1>11, <3>1 DEF SwitchesControllers, Switching
    <3> QED
      BY <1>11, <3>1, <3>3, <3>4 DEF SwitchesControllers, Settled, Switching, stopper, history
  <2>3. CASE Starting
    <3>1. Accepts(Head(switches))
      BY <2>3 DEF Accepts, Switching, Starting
    <3>2. active' = found
      BY <1>11, <2>3, <3>1 DEF SwitchesControllers, Switching, Starting
    <3> QED
      BY <1>11, <2>3, <3>2 DEF SwitchesControllers, Settled, Starting, Switching, stopper, history
  <2>4. CASE StartingUp
    <3>1. /\ phase = "switch" /\ active = found /\ stopped = Expected
          /\ Switching([for |-> "constructor", start |-> {}, stop |-> Expected])
      BY <1>11, <2>4 DEF SwitchesControllers, StartingUp, Asking, Listing
    <3>2. Accepts(Head(switches))
      BY <3>1 DEF Accepts, Switching
    <3>3. active' = found \intersect Consistent
      BY <1>11, <3>1, <3>2 DEF SwitchesControllers, Switching
    <3>4. switches' = << >>
      BY <1>11, <3>1 DEF SwitchesControllers, Switching
    <3> QED
      BY <1>11, <3>1, <3>3, <3>4 DEF SwitchesControllers, StartingUp, Switching, stopper, history
  <2> QED
    BY <1>11, <1>0, <2>1, <2>2, <2>3, <2>4 DEF SwitchesControllers, Settled
<1>12. CASE OthersSwitch
  <2>1. CASE Calm /\ running
    BY <1>12, <1>0, <2>1 DEF OthersSwitch, Settled, Stopping, Starting, StartingUp, Asking, Listing,
                        Switching, stopper
  <2>2. CASE ~(Calm /\ running)
    BY <1>12, <2>2 DEF OthersSwitch
  <2> QED
    BY <2>1, <2>2
<1>13. CASE StatusChanges
  BY <1>13, <1>0 DEF StatusChanges, stopper, manager, history, Settled, Stopping, Starting,
                     StartingUp, Asking, Listing, Switching
<1>14. CASE UNCHANGED vars
  BY <1>14, <1>0 DEF vars, stopper, manager, history, Settled, Stopping, Starting,
                     StartingUp, Asking, Listing, Switching
<1> QED
  BY <1>1, <1>2, <1>3, <1>4, <1>5, <1>6, <1>7, <1>8, <1>9, <1>10, <1>11, <1>12, <1>13, <1>14
  DEF Next, Callbacks, Startup, Manager

-----------------------------------------------------------------------------
\* The inductive invariant holds: an exchange that nothing interfered with is at one of the
\* points that robotRunningCallback() and the constructor lead through.
THEOREM StopperInvariant == Spec => []StopperInv
<1>1. Init => StopperInv
  BY ControllersAssumption, BoundsAssumption
  DEF Init, StopperInv, TypeOK, Phases
<1>2. StopperInv /\ [Next]_vars => StopperInv'
  BY TypesPreserved, ExchangePreserved DEF StopperInv, ModeInv, ExchangeInv
<1> QED
  BY <1>1, <1>2, PTL DEF Spec

\* Once everything is answered after an undisturbed stop, exactly the controllers that were
\* active before it run again with the task, and none but the consistent ones without it.
THEOREM StoppedAndRestarted == Spec => []AsFound
<1>1. StopperInv => AsFound
  BY DEF StopperInv, AsFound, Settled, Stopping, Starting, StartingUp, Calm, NoExchange,
         Asking, Listing, Switching
<1> QED
  BY <1>1, StopperInvariant, PTL
=============================================================================
