------------------------------ MODULE Freedrive ------------------------------
(***************************************************************************)
(* CommandModes with the freedrive controller and the arm.  The callback   *)
(* of ~/enable_freedrive leaves a request, update() turns it into one of   *)
(* the two commands, async_thread_ carries commands out in SDK calls, and  *)
(* write() tells the arm in every cycle what mode it is in: a message of   *)
(* any other mode ends freedrive on the arm, too.                          *)
(*                                                                         *)
(* Messages reach the arm in the order in which they are sent, or do not   *)
(* reach it: a command's call may fail, or throw, and only a message that  *)
(* throws is sent again.  The SDK call of a command is a send and a        *)
(* return, with cycles in between.                                         *)
(*                                                                         *)
(* Between its test of the start command and that of the end command       *)
(* async_thread_ may be preempted, so either may be taken first.           *)
(***************************************************************************)
EXTENDS CommandModes

CONSTANT Freedriver   \* the freedrive controller

ASSUME FreedriverAssumption ==
  /\ Freedriver \in Controllers
  /\ \A c \in Controllers : ModeOf[c] = "freedrive" <=> c = Freedriver

VARIABLES
  wanted,   \* is_freedrive_active_
  fresh,    \* is_new_request_
  playing,  \* runtime_state_ is PLAYING
  armFree,  \* the arm is in freedrive
  sent,     \* the SDK call that async_thread_ is in is done with its message
  lost,     \* history: the last START that did not throw did not reach the arm
  excused   \* history: the arm got what was not asked for, see below

asked == << wanted, fresh >>
arm   == << playing, armFree, sent, lost, excused >>
allVars == << vars, asked, arm >>

FreedriveInit ==
  /\ Init
  /\ wanted = FALSE /\ fresh = FALSE
  /\ playing = FALSE /\ armFree = FALSE /\ sent = FALSE
  /\ lost = FALSE /\ excused = FALSE

-----------------------------------------------------------------------------
(***************************************************************************)
(* The controller.                                                         *)
(***************************************************************************)
\* A request that repeats the last one, or meets one not yet taken, is ignored.
Enables(on) ==
  /\ Freedriver \in active /\ ~fresh /\ wanted # on
  /\ wanted' = on /\ fresh' = TRUE
  /\ UNCHANGED << vars, arm >>

\* While an END waits a start is taken back; what is left of it is a request to stop.
TakesStartBack ==
  /\ Freedriver \in active /\ fresh /\ wanted /\ endCmd
  /\ wanted' = FALSE
  /\ UNCHANGED << vars, fresh, arm >>

\* Variant: a start is commanded over an END that waits.
CommandsStartAnyway ==
  /\ Freedriver \in active /\ fresh /\ wanted
  /\ startCmd' = TRUE /\ fresh' = FALSE
  /\ UNCHANGED << hw, active, switch, running, targets, activated, endCmd, async >>
  /\ UNCHANGED << wanted, arm >>

CommandsStart ==
  /\ Freedriver \in active /\ fresh /\ wanted /\ ~endCmd
  /\ startCmd' = TRUE /\ fresh' = FALSE
  /\ UNCHANGED << hw, active, switch, running, targets, activated, endCmd, async >>
  /\ UNCHANGED << wanted, arm >>

\* Variant: a stop is only recorded.
CommandsNothing ==
  /\ Freedriver \in active /\ fresh /\ ~wanted
  /\ fresh' = FALSE
  /\ UNCHANGED << vars, wanted, arm >>

CommandsEnd ==
  /\ Freedriver \in active /\ fresh /\ ~wanted
  /\ endCmd' = TRUE /\ fresh' = FALSE
  /\ UNCHANGED << hw, active, switch, running, targets, activated, startCmd, async >>
  /\ UNCHANGED << wanted, arm >>

Update == TakesStartBack \/ CommandsStart \/ CommandsEnd

\* on_deactivate() and on_activate() are part of the switch.  A start that an earlier
\* activation left behind excuses this one.
Switches ==
  /\ Perform
  /\ wanted' = IF Freedriver \in request.stop \cup request.start THEN FALSE ELSE wanted
  /\ fresh' = IF Freedriver \in request.start THEN FALSE ELSE fresh
  /\ excused' = IF Freedriver \in request.start
                THEN startCmd \/ async = "starting" \/ (excused /\ async = "ending")
                ELSE excused
  /\ UNCHANGED << playing, armFree, sent, lost >>

Loses ==
  /\ Lose
  /\ wanted' = FALSE
  /\ UNCHANGED << fresh, arm >>

-----------------------------------------------------------------------------
(***************************************************************************)
(* async_thread_, write() and the arm.                                     *)
(***************************************************************************)
\* The task does not execute, and what was asked for is lost.
SkipsStart ==
  /\ ~playing /\ AsyncSkipsStart
  /\ excused' = TRUE
  /\ UNCHANGED << asked, playing, armFree, sent, lost >>

StartCallBegins ==
  /\ playing /\ AsyncStarts
  /\ sent' = FALSE
  /\ UNCHANGED << asked, playing, armFree, lost, excused >>

\* freedrive_activated_ is going to be set whether the START reached the arm or not.
SendsStart ==
  /\ async = "starting" /\ ~sent
  /\ \E delivered \in BOOLEAN :
       armFree' = (armFree \/ delivered) /\ lost' = ~delivered
  /\ sent' = TRUE
  /\ UNCHANGED << vars, asked, playing, excused >>

\* With a task that does not execute there is no call.  An END makes up for what was
\* before, but for a start that it overtakes, and one that came to nothing.
EndCallBegins ==
  /\ AsyncEnds
  /\ sent' = ~playing
  /\ excused' = (startCmd \/ (wanted /\ ~fresh))
  /\ UNCHANGED << asked, playing, armFree, lost >>

SendsEnd ==
  /\ async = "ending" /\ ~sent
  /\ armFree' \in {FALSE, armFree} /\ sent' = TRUE
  /\ UNCHANGED << vars, asked, playing, lost, excused >>

CallReturns ==
  /\ sent /\ (AsyncStarted \/ AsyncEnded)
  /\ UNCHANGED << asked, arm >>

\* The exception ends the round, with the message sent or not, and the next one calls again.
CallThrows ==
  /\ ~sent
  /\ \/ AsyncStartThrows /\ armFree' \in {TRUE, armFree}
     \/ AsyncEndThrows /\ armFree' \in {FALSE, armFree}
  /\ UNCHANGED << asked, playing, sent, lost, excused >>

\* write(): the message of another mode ends freedrive; between a start and the return of
\* its call it makes the start void.  A message that does not arrive changes nothing.
WriteSends ==
  /\ hw = "configured" /\ playing
  /\ armFree' = (armFree /\ Output = "freedrive")
  /\ excused' = (excused \/ (async = "starting" /\ sent /\ Output # "freedrive"))
  /\ UNCHANGED << vars, asked, playing, sent, lost >>

\* The task is paused, ended, resumed or started again; only a paused one stays in freedrive.
TaskChanges ==
  /\ playing' = ~playing
  /\ armFree' \in {FALSE, armFree}
  /\ excused' = (excused \/ armFree # armFree')
  /\ UNCHANGED << vars, asked, sent, lost >>

\* A power-off ends freedrive.  The edge empties the commands that wait, an END among them,
\* and leaves freedrive_activated_ and the controller as they were.
PowersOn ==
  /\ PowerOn
  /\ armFree' = FALSE
  /\ excused' = (excused \/ wanted \/ activated \/ async # "idle")
  /\ UNCHANGED << asked, playing, sent, lost >>

\* The steps of CommandModes that neither the controller nor the arm takes notice of.
OtherSteps ==
  /\ \/ \E start, stop \in SUBSET Controllers : Prepare(start, stop)
     \/ \E c \in Controllers : PositionWrites(c) \/ VelocityWrites(c)
     \/ WriteResets \/ AsyncResends \/ Configure
  /\ UNCHANGED << asked, arm >>

AsyncFreedrive ==
  \/ SkipsStart \/ StartCallBegins \/ SendsStart
  \/ EndCallBegins \/ SendsEnd \/ CallReturns \/ CallThrows

FreedriveNext ==
  \/ \E on \in BOOLEAN : Enables(on)
  \/ Update \/ Switches \/ Loses \/ AsyncFreedrive
  \/ WriteSends \/ TaskChanges \/ PowersOn \/ OtherSteps

\* The cycles go on, async_thread_ is scheduled, and a task that executes does so for
\* cycles on end, in which messages of write() arrive.
FreedriveSpec ==
  /\ FreedriveInit /\ [][FreedriveNext]_allVars
  /\ WF_allVars(Update) /\ SF_allVars(WriteSends) /\ WF_allVars(AsyncFreedrive)

-----------------------------------------------------------------------------
(***************************************************************************)
(* Properties.                                                             *)
(***************************************************************************)
FreedriveTypeOK == {wanted, fresh, playing, armFree, sent, lost, excused} \subseteq BOOLEAN

\* Whatever the controller and the arm do, they stay within what CommandModes allows them:
\* its theorems hold here.
RefinesModes == Spec

\* Once every request and command is dealt with, write() keeps freedrive up exactly if the
\* last request that was accepted asks for it, and then the arm is in freedrive, unless the
\* START did not reach it: the flag is set whatever writeFreedrive() returned, nobody reads
\* freedrive_async_success_, and the NOOPs that follow do not start freedrive.  A call that
\* throws delays all this and no more.  If freedrive is not asked for, an arm that was paused
\* in it leaves it with the next message.  The excuses are the races that the code leaves
\* open: an IDLE between a start and its return, an END that overtakes its start, a start
\* left behind by an earlier activation; and the losses that the caller is told of, or that
\* the arm decides on.
ArmFollows ==
  /\ FreedriveTypeOK
  /\ Freedriver \in active /\ ~fresh /\ ~startCmd /\ ~endCmd /\ async = "idle" /\ ~excused
       => activated = wanted /\ (wanted => armFree \/ lost)

\* What is behind it.  An END under way is the last command there is.  A start is on its way
\* from the command to the arm, or is through, or lost; an END is on its way, or nothing is.
EndingInv == async = "ending" /\ ~excused => endCmd /\ ~startCmd /\ ~activated

OnWay ==
  /\ ~endCmd
  /\ \/ async = "idle" /\ (startCmd \/ (activated /\ (armFree \/ lost)))
     \/ async = "starting" /\ startCmd /\ (sent => armFree \/ lost)
OffWay == endCmd \/ (async = "idle" /\ ~startCmd /\ ~activated)

WayInv ==
  Freedriver \in active /\ ~excused =>
    /\ wanted /\ ~fresh => OnWay
    /\ wanted = fresh => OffWay
    /\ ~wanted /\ fresh => OnWay \/ OffWay

FreedriveInv == FreedriveTypeOK /\ EndingInv /\ WayInv

\* A stop is obeyed, by the END or by the first IDLE of a task that was paused: the arm leaves
\* freedrive, unless the next start comes first or one of the excuses.
StopObeyed ==
  []<>playing =>
    ((Freedriver \in active /\ ~wanted /\ ~excused)
       ~> (~armFree \/ wanted \/ excused \/ Freedriver \notin active))
=============================================================================
