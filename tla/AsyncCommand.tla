---------------------------- MODULE AsyncCommand ----------------------------
(***************************************************************************)
(* How a service of the GPIO controller has a command carried out.  The    *)
(* handler stores ASYNC_WAITING in an answer flag, writes the command into *)
(* its buffers, polls the flag and reports what it finds there.            *)
(* async_thread_ tests the buffers of all commands one after the other in  *)
(* every round of updateAsyncIO(), carries out what it finds, answers and  *)
(* empties the buffers.  A command whose call throws ends the round and    *)
(* stays in its buffer, as an analog value does that is refused: the next  *)
(* round finds it again.  Flags and buffers are plain doubles: no lock and *)
(* nothing that tells which request an answer, or half a command, is from. *)
(*                                                                         *)
(* The handlers share a mutually exclusive callback group, so one request  *)
(* is served at a time.  A request is named by its number, which is also   *)
(* the value it writes; 0 is NO_NEW_CMD.                                   *)
(***************************************************************************)
EXTENDS Naturals

CONSTANTS
  Channels,    \* the services that are called
  MaxRequests  \* bound on the calls

Outputs     == {"digital", "analog", "voltage"}   \* the functions of set_io: one flag
Direct      == {"resend", "handback", "payload", "zero"}
AllChannels == Outputs \union Direct \union {"slider"}

ASSUME ChannelsAssumption == Channels \subseteq AllChannels
ASSUME RequestsAssumption == MaxRequests \in Nat

\* The command buffers, the channel of each, and the answer flags.  The commands of two
\* services lie in two buffers, written one after the other.
Halved    == {"payload", "analog"}
First(c)  == IF c = "payload" THEN "mass" ELSE c
Second(c) == IF c = "payload" THEN "cog" ELSE "type"
Cells     == (AllChannels \ {"payload"}) \union {"mass", "cog", "type"}
Channel(cell) ==
  CASE cell \in {"mass", "cog"} -> "payload" [] cell = "type" -> "analog" [] OTHER -> cell
Flags == (AllChannels \ Outputs) \union {"io"}

VARIABLES
  service,    \* where the handler is
  request, channel,  \* its request, or the last one
  clean,      \* nothing earlier was under way on its channel when it began
  expired,    \* it stopped polling before it was answered
  reply,      \* what it reported
  cmd,        \* the command buffers
  answer,     \* the *_async_success_ flags
  async, at,  \* the command updateAsyncIO() is at, and the point it is at there
  hand, half, \* the command it carries out, and the second half with it
  held,       \* io_async_success_ as it was loaded
  updated,    \* is_io_update
  slider,     \* the speed slider command in the recipe, to be answered at the flush
  task, up,   \* the script on the arm, sent before or since the last resend request; it runs
  seen,       \* the script whose execution the last frame shows, the state of TASK_RUNNING
  settled,    \* history: the commands of each buffer that were dealt with for good
  twice,      \* history: one of them was taken again
  outcome,    \* history: what the call for each request gave, but for the outputs
  crossed,    \* history: channels on which a request began unclean
  unsettled,  \* history: the last resend could not see the arm stopped
  witness     \* history: the script that the last resend request took for its own

serving == << service, request, channel, clean, expired, reply >>
thread  == << async, at, hand, half, held, updated, slider >>
arm     == << task, up, seen >>
done    == << settled, twice, outcome >>
history == << crossed, unsettled, witness >>
vars    == << serving, cmd, answer, thread, arm, done, history >>

Requests == 1..MaxRequests
Scripts  == {"none", "old", "new"}

Init ==
  /\ service = "idle" /\ request = 0 /\ channel = "zero"
  /\ clean = TRUE /\ expired = FALSE /\ reply = "no"
  /\ cmd = [c \in Cells |-> 0]
  /\ answer = [f \in Flags |-> "no"]
  /\ async = "idle" /\ at = "test" /\ hand = 0 /\ half = 0
  /\ held = "no" /\ updated = FALSE /\ slider = 0
  /\ task \in {"none", "old"} /\ up = (task = "old") /\ seen = "none"
  /\ settled = [c \in Cells |-> {}] /\ twice = FALSE
  /\ outcome = [r \in Requests |-> "none"]
  /\ crossed = {} /\ unsettled = FALSE /\ witness = "none"

-----------------------------------------------------------------------------
(***************************************************************************)
(* The handlers                                                            *)
(***************************************************************************)
Flag(c)  == IF c \in Outputs THEN "io" ELSE c

\* No command of c is in a buffer, in hand, or in the recipe without an answer.
Quiet(c) ==
  /\ cmd[First(c)] = 0
  /\ c \in Halved => cmd[Second(c)] = 0
  /\ ~(async = c /\ at # "test")
  /\ c = "slider" => slider = 0

Aged(script) == IF script = "new" THEN "old" ELSE script

\* Variant: the flag keeps the answer to the last request.
Unmarked(c) == answer

\* The flag of c is set to ASYNC_WAITING.
Marked(c) == [answer EXCEPT ![Flag(c)] = "waiting"]

\* A request arrives and is not refused for its range: the flag is marked.
Begins(c) ==
  /\ service = "idle" /\ request < MaxRequests
  /\ request' = request + 1 /\ channel' = c
  /\ clean' = Quiet(c) /\ expired' = FALSE
  /\ crossed' = IF Quiet(c) THEN crossed ELSE crossed \union {c}
  /\ answer' = Marked(c)
  /\ service' = "write"
  /\ IF c = "resend"
       THEN task' = Aged(task) /\ seen' = Aged(seen) /\ witness' = "none" /\ unsettled' = FALSE
       ELSE UNCHANGED << task, seen, witness, unsettled >>
  /\ UNCHANGED << reply, cmd, thread, up, done >>

\* The command is written, or its first half: the mass, or the analog value.
Writes ==
  /\ service = "write"
  /\ cmd' = [cmd EXCEPT ![First(channel)] = request]
  /\ service' = IF channel \in Halved THEN "writeRest" ELSE "poll"
  /\ UNCHANGED << request, channel, clean, expired, reply, answer, thread, arm, done, history >>

\* The second half: the centre of gravity, or the analog type.
WritesRest ==
  /\ service = "writeRest"
  /\ cmd' = [cmd EXCEPT ![Second(channel)] = request]
  /\ service' = "poll"
  /\ UNCHANGED << request, channel, clean, expired, reply, answer, thread, arm, done, history >>

\* waitForAsyncCommand() ends with an answer, or because the retries are used up or ROS
\* shuts down.
PollEnds ==
  /\ service = "poll"
  /\ expired' = (answer[Flag(channel)] = "waiting")
  /\ service' = "result"
  /\ UNCHANGED << request, channel, clean, reply, cmd, answer, thread, arm, done, history >>

Replies(r) == service' = "idle" /\ reply' = r

\* The flag is cast to bool: what still waits counts as success, except for the slider.
Success(value) == IF channel = "slider" THEN value = "yes" ELSE value # "no"

\* The flag is read once more.  A resend goes on to watch the task.
Concludes ==
  /\ service = "result"
  /\ LET success == Success(answer[Flag(channel)])
     IN  IF channel = "resend" /\ success
           THEN service' = "starting" /\ UNCHANGED reply
           ELSE Replies(IF success THEN "yes" ELSE "no")
  /\ UNCHANGED << request, channel, clean, expired, cmd, answer, thread, arm, done, history >>

\* Phase 1 sees the task running, or sees no task until it times out.
TaskAwaited ==
  /\ service = "starting"
  /\ IF seen # "none" THEN service' = "dwell" /\ UNCHANGED reply ELSE Replies("no")
  /\ witness' = seen
  /\ UNCHANGED << request, channel, clean, expired, cmd, answer, thread, arm, done,
                  crossed, unsettled >>

\* Phase 2 sees the task running to its end, or sees it stopped.
TaskDwells ==
  /\ service = "dwell"
  /\ Replies(IF seen # "none" THEN "yes" ELSE "no")
  /\ UNCHANGED << request, channel, clean, expired, cmd, answer, thread, arm, done, history >>

Service ==
  \/ \E c \in Channels : Begins(c)
  \/ Writes \/ WritesRest \/ PollEnds \/ Concludes \/ TaskAwaited \/ TaskDwells
-----------------------------------------------------------------------------
(***************************************************************************)
(* One round of updateAsyncIO()                                            *)
(***************************************************************************)
After == [ digital |-> "analog", analog |-> "voltage", voltage |-> "judge",
           judge |-> "slider", slider |-> "resend", resend |-> "handback",
           handback |-> "payload", payload |-> "zero", zero |-> "flush" ]

Stage(c, point) == async = c /\ at = point
Advance(point)  == at' = point /\ UNCHANGED async
Leave(c)        == async' = After[c] /\ at' = "test"

\* The buffer is tested, and a command in it is taken for execution.
Takes(cell) ==
  /\ hand' = cmd[cell]
  /\ twice' = (twice \/ cmd[cell] \in settled[cell])

\* A command of the buffer, if it is one, has been dealt with.
Settles(cell, command) == settled' = [settled EXCEPT ![cell] = @ \union ({command} \ {0})]

Result(ok) == IF ok THEN "yes" ELSE "no"

\* What came of the command in hand, if there is one.
Records(result) ==
  outcome' = [r \in Requests |-> IF r = hand THEN result ELSE outcome[r]]

\* Variant: the buffer keeps its command.
Kept(cell) == cmd

\* The buffer is emptied.
Emptied(cell) == [cmd EXCEPT ![cell] = 0]

\* Not while reconnection_needed_ is set, which only delays the round.
RoundBegins ==
  /\ async = "idle"
  /\ async' = "digital" /\ at' = "test" /\ updated' = FALSE
  /\ UNCHANGED << hand, half, held, slider, serving, cmd, answer, arm, done, history >>

\* Variant: every output is emptied whether or not a command was found.
PassesEmptying(c) == "clear"

\* Where the round goes on when no command was found: the digital outputs are emptied
\* all the same.
Passes(c) == IF c = "digital" THEN "clear" ELSE "load"

\* The digital outputs are looked through, or the tool voltage.
OutputTested(c) ==
  /\ Stage(c, "test") /\ c # "analog"
  /\ Takes(c)
  /\ IF c = "digital" THEN Settles(c, cmd[c]) ELSE UNCHANGED settled
  /\ Advance(IF cmd[c] = 0 THEN Passes(c) ELSE IF c = "voltage" THEN "call" ELSE "clear")
  /\ UNCHANGED << half, held, updated, slider, serving, cmd, answer, arm, outcome, history >>

\* setToolVoltage() returns.
VoltageSent ==
  /\ Stage("voltage", "call")
  /\ Settles("voltage", hand)
  /\ Advance("clear")
  /\ UNCHANGED << hand, half, held, updated, slider, serving, cmd, answer, arm, twice,
                  outcome, history >>

\* Of an analog output the type is tested first, and emptied if it was found.
AnalogTypeTested ==
  /\ Stage("analog", "test")
  /\ half' = cmd["type"]
  /\ twice' = (twice \/ cmd["type"] \in settled["type"])
  /\ Settles("type", cmd["type"])
  /\ Advance(IF cmd["type"] # 0 THEN "clearType" ELSE "value")
  /\ UNCHANGED << hand, held, updated, slider, serving, cmd, answer, arm, outcome, history >>

AnalogTypeEmptied ==
  /\ Stage("analog", "clearType")
  /\ cmd' = Emptied("type")
  /\ updated' = TRUE
  /\ Advance("value")
  /\ UNCHANGED << hand, half, held, slider, serving, answer, arm, done, history >>

AnalogValueTested ==
  /\ Stage("analog", "value")
  /\ Takes("analog")
  /\ Advance(IF cmd["analog"] # 0 THEN "enter" ELSE "load")
  /\ UNCHANGED << half, held, updated, slider, serving, cmd, answer, arm, settled, outcome,
                  history >>

\* The value enters the recipe.
AnalogEnters ==
  /\ Stage("analog", "enter")
  /\ Settles("analog", hand)
  /\ Advance("clear")
  /\ UNCHANGED << hand, half, held, updated, slider, serving, cmd, answer, arm, twice,
                  outcome, history >>

\* Or the recipe refuses it: the function returns, and the buffer keeps it.
AnalogRefused ==
  /\ Stage("analog", "enter")
  /\ held' = "no"
  /\ Advance("store")
  /\ UNCHANGED << hand, half, updated, slider, serving, cmd, answer, arm, done, history >>

OutputEmptied(c) ==
  /\ Stage(c, "clear")
  /\ cmd' = Emptied(c)
  /\ updated' = (updated \/ hand # 0)
  /\ Advance("load")
  /\ UNCHANGED << hand, half, held, slider, serving, answer, arm, done, history >>

\* The digital values enter the recipe or not, or the result of setToolVoltage() is looked
\* at.  If the function reports success, the flag is loaded, to be stored again.
OutputLoads(c) ==
  /\ Stage(c, "load") /\ c # "analog"
  /\ \E ok \in BOOLEAN :
       /\ hand = 0 => ok
       /\ held' = IF ok THEN answer["io"] ELSE "no"
  /\ Advance("store")
  /\ UNCHANGED << hand, half, updated, slider, serving, cmd, answer, arm, done, history >>

\* Type and mask enter the recipe.  A mask that does is reported as a failure.
AnalogLoads ==
  /\ Stage("analog", "load")
  /\ \E type, mask \in BOOLEAN :
       held' = IF (hand = 0 /\ half = 0) \/ (type /\ ~mask) THEN answer["io"] ELSE "no"
  /\ Advance("store")
  /\ UNCHANGED << hand, half, updated, slider, serving, cmd, answer, arm, done, history >>

OutputStores(c) ==
  /\ Stage(c, "store")
  /\ answer' = [answer EXCEPT !["io"] = held]
  /\ Leave(c)
  /\ UNCHANGED << hand, half, held, updated, slider, serving, cmd, arm, done, history >>

\* Any command was found, and the flag holds no refusal: it is answered, before the flush.
OutputsJudged ==
  /\ Stage("judge", "test")
  /\ IF updated /\ answer["io"] # "no" THEN Advance("store") ELSE Leave("judge")
  /\ UNCHANGED << hand, half, held, updated, slider, serving, cmd, answer, arm, done, history >>

OutputsConfirmed ==
  /\ Stage("judge", "store")
  /\ answer' = [answer EXCEPT !["io"] = "yes"]
  /\ Leave("judge")
  /\ UNCHANGED << hand, half, held, updated, slider, serving, cmd, arm, done, history >>

\* The fraction enters the recipe and is answered at the flush, or is refused at once.
SliderTaken ==
  /\ Stage("slider", "test") /\ cmd["slider"] # 0
  /\ Takes("slider") /\ Settles("slider", cmd["slider"])
  /\ \/ slider' = cmd["slider"] /\ UNCHANGED << answer, outcome >>
     \/ /\ answer' = [answer EXCEPT !["slider"] = "no"]
        /\ outcome' = [outcome EXCEPT ![cmd["slider"]] = "no"]
        /\ UNCHANGED slider
  /\ Advance("clear")
  /\ UNCHANGED << half, held, updated, serving, cmd, arm, history >>

-----------------------------------------------------------------------------
(***************************************************************************)
(* The commands that are carried out by a call of the driver               *)
(***************************************************************************)
\* Variant: only the mass is tested.
MassWritten(c) == cmd[First(c)] # 0

\* Every buffer of the command has been written.
Pending(c) == cmd[First(c)] # 0 /\ (c = "payload" => cmd["cog"] # 0)

NothingToDo(c) ==
  /\ Stage(c, "test") /\ c \in Direct \union {"slider"} /\ ~Pending(c)
  /\ Leave(c)
  /\ UNCHANGED << hand, half, held, updated, slider, serving, cmd, answer, arm, done, history >>

\* The command is found and its call begins.
CommandTaken(c) ==
  /\ Stage(c, "test") /\ c \in Direct /\ Pending(c)
  /\ Takes(First(c))
  /\ Advance("call")
  /\ UNCHANGED << half, held, updated, slider, serving, cmd, answer, arm, settled, outcome,
                  history >>

\* stopControl() ends a running script; one that is still booting it does not reach.
TaskStopped == task' = (IF up THEN "none" ELSE task) /\ up' = FALSE

\* The call returns and is answered.  The centre of gravity is passed by reference.  Two
\* commands are refused unless the task executes; hand_back_control stops it.
CommandAnswered(c) ==
  /\ Stage(c, "call") /\ c \in Direct \ {"resend"}
  /\ \E ok \in BOOLEAN :
       /\ c = "handback" => ok
       /\ c # "handback" /\ seen = "none" => ~ok
       /\ Records(Result(ok))
       /\ answer' = [answer EXCEPT ![c] = Result(ok)]
  /\ IF c = "payload"
       THEN /\ half' = cmd["cog"]
            /\ settled' = [settled EXCEPT !["mass"] = @ \union ({hand} \ {0}),
                                          !["cog"] = @ \union ({cmd["cog"]} \ {0})]
       ELSE Settles(c, hand) /\ UNCHANGED half
  /\ IF c = "handback" THEN TaskStopped ELSE UNCHANGED << task, up >>
  /\ Advance("clear")
  /\ UNCHANGED << hand, held, updated, slider, serving, cmd, seen, twice, history >>

ResendStops ==
  /\ Stage("resend", "call")
  /\ TaskStopped
  /\ unsettled' = (task # "none" /\ ~up)
  /\ Advance("confirm")
  /\ UNCHANGED << hand, half, held, updated, slider, serving, cmd, answer, seen, done,
                  crossed, witness >>

\* Variant: the script is sent at once.
NotAwaited == TRUE

\* The last frame shows the task stopped.
StoppedSeen == seen = "none"

\* The wait ends when a frame shows the task stopped, or after 500 ms.
ResendConfirms ==
  /\ Stage("resend", "confirm")
  /\ unsettled' \in {unsettled, TRUE}
  /\ unsettled' = unsettled => StoppedSeen
  /\ Advance("send")
  /\ UNCHANGED << hand, half, held, updated, slider, serving, cmd, answer, arm, done,
                  crossed, witness >>

ScriptSent == task' = "new" /\ up' = FALSE

\* The script is sent, in the place of one that may run; the arm takes it or does not.
ResendSends ==
  /\ Stage("resend", "send")
  /\ \E ok \in BOOLEAN :
       /\ Records(Result(ok))
       /\ answer' = [answer EXCEPT !["resend"] = Result(ok)]
       /\ IF ok THEN ScriptSent ELSE UNCHANGED << task, up >>
  /\ Settles("resend", hand)
  /\ Advance("clear")
  /\ UNCHANGED << hand, half, held, updated, slider, serving, cmd, seen, twice, history >>

\* What a call that throws may have done to the arm before.
MayHaveActed ==
  \/ UNCHANGED << task, up >>
  \/ async \in {"resend", "handback"} /\ at = "call" /\ TaskStopped
  \/ async = "resend" /\ at = "send" /\ ScriptSent

\* stopControl() or sendExternalControlScript() throws an EliteException, which the resend
\* catches: nothing is answered, and the command is done with.
ResendThrows ==
  /\ async = "resend" /\ at \in {"call", "send"}
  /\ MayHaveActed
  /\ Settles("resend", hand)
  /\ Advance("clear")
  /\ UNCHANGED << hand, half, held, updated, slider, serving, cmd, answer, seen, twice,
                  outcome, history >>

\* The calls that can end the round: those of the driver, whose exceptions only the resend
\* catches, and not all of them; the ones for freedrive, and the sending of the recipe.
Throwing ==
  \/ async \in Direct \union {"voltage"} /\ at = "call"
  \/ Stage("resend", "send")
  \/ Stage("flush", "test")

\* One throws, and asyncThread() catches: nothing is answered or emptied, and the round that
\* follows begins anew.  Two of them are called only while the task executes.
RoundAborts ==
  /\ Throwing
  /\ async \in {"payload", "zero"} => seen # "none"
  /\ MayHaveActed
  /\ async' = "idle" /\ at' = "test" /\ slider' = 0
  /\ UNCHANGED << hand, half, held, updated, serving, cmd, answer, seen, done, history >>

\* The buffer is emptied, whatever it holds by now.
CommandEmptied(c) ==
  /\ Stage(c, "clear") /\ c \in Direct \union {"slider"}
  /\ cmd' = Emptied(First(c))
  /\ IF c = "payload" THEN Advance("clearCog") ELSE Leave(c)
  /\ UNCHANGED << hand, half, held, updated, slider, serving, answer, arm, done, history >>

CogEmptied ==
  /\ Stage("payload", "clearCog")
  /\ cmd' = Emptied("cog")
  /\ Leave("payload")
  /\ UNCHANGED << hand, half, held, updated, slider, serving, answer, arm, done, history >>

\* The recipe is sent if the stream is connected, and only then is the slider set.
Flushes ==
  /\ Stage("flush", "test")
  /\ \E connected \in BOOLEAN :
       IF slider = 0
         THEN UNCHANGED << answer, outcome >>
         ELSE /\ answer' = [answer EXCEPT !["slider"] = Result(connected)]
              /\ outcome' = [outcome EXCEPT ![slider] = Result(connected)]
  /\ slider' = 0
  /\ async' = "idle"
  /\ UNCHANGED << at, hand, half, held, updated, serving, cmd, arm, settled, twice, history >>

Async ==
  \/ RoundBegins
  \/ \E c \in Outputs : OutputTested(c) \/ OutputEmptied(c) \/ OutputLoads(c) \/ OutputStores(c)
  \/ AnalogTypeTested \/ AnalogTypeEmptied \/ AnalogValueTested \/ AnalogEnters
  \/ AnalogRefused \/ AnalogLoads
  \/ VoltageSent
  \/ OutputsJudged \/ OutputsConfirmed
  \/ SliderTaken
  \/ \E c \in Direct \union {"slider"} :
       NothingToDo(c) \/ CommandTaken(c) \/ CommandAnswered(c) \/ CommandEmptied(c)
  \/ ResendStops \/ ResendConfirms \/ ResendSends \/ ResendThrows
  \/ CogEmptied
  \/ Flushes \/ RoundAborts

-----------------------------------------------------------------------------
(***************************************************************************)
(* The arm, and read()                                                     *)
(***************************************************************************)
\* The script on the arm comes up, or ends.
TaskChanges ==
  /\ task # "none"
  /\ \/ ~up /\ up' = TRUE /\ UNCHANGED task
     \/ up' = FALSE /\ task' = "none"
  /\ UNCHANGED << serving, cmd, answer, thread, seen, done, history >>

\* A frame is received.
Reads ==
  /\ seen' = IF up THEN task ELSE "none"
  /\ UNCHANGED << serving, cmd, answer, thread, task, up, done, history >>

\* The first frame after the power came back drops some of the commands.
PowerOn ==
  /\ task = "none"
  /\ seen' = "none"
  /\ cmd' = [c \in Cells |-> IF c \in {"slider", "resend", "zero", "handback"} THEN 0 ELSE cmd[c]]
  /\ UNCHANGED << serving, answer, thread, task, up, done, history >>

Next == Service \/ Async \/ TaskChanges \/ Reads \/ PowerOn

Spec == Init /\ [][Next]_vars

-----------------------------------------------------------------------------
Points == {"test", "clear", "load", "store", "call", "confirm", "send", "clearCog",
           "clearType", "value", "enter"}

FlagsOK == {clean, expired, updated, up, twice, unsettled} \subseteq BOOLEAN

\* Types.
TypeOK ==
  /\ FlagsOK
  /\ service \in {"idle", "write", "writeRest", "poll", "result", "starting", "dwell"}
  /\ request \in 0..MaxRequests /\ channel \in AllChannels
  /\ reply \in {"yes", "no"}
  /\ cmd \in [Cells -> 0..MaxRequests]
  /\ answer \in [Flags -> {"waiting", "yes", "no"}]
  /\ async \in AllChannels \union {"idle", "judge", "flush"} /\ at \in Points
  /\ hand \in 0..MaxRequests /\ half \in 0..MaxRequests
  /\ held \in {"waiting", "yes", "no"} /\ slider \in 0..MaxRequests
  /\ task \in Scripts /\ seen \in Scripts
  /\ settled \in [Cells -> SUBSET Requests]
  /\ outcome \in [Requests -> {"none", "yes", "no"}]
  /\ crossed \subseteq AllChannels /\ witness \in Scripts

\* A command that was dealt with lies in its buffer only until the store that empties it,
\* which is the next step: what is tested was never dealt with.
BuffersFresh ==
  /\ hand <= request /\ slider <= request
  /\ \A r \in Requests : r > request => outcome[r] = "none"
  /\ \A c \in Cells : cmd[c] <= request /\ \A r \in settled[c] : r <= request
  /\ service = "write" =>
       hand < request /\ \A c \in Cells : cmd[c] < request /\ request \notin settled[c]
  /\ service = "writeRest" =>
       cmd[Second(channel)] < request /\ request \notin settled[Second(channel)]
  /\ \A c \in Cells \ {"cog"} :
       cmd[c] \in settled[c] =>
         async = Channel(c) /\ at = IF c = "type" THEN "clearType" ELSE "clear"

\* Where a command that was found may still lie in its buffer.
Found == {"clear", "call", "confirm", "send"}

\* The request under way, or the last one, is found on its own channel only.
OnItsChannel ==
  request > 0 =>
    /\ \A c \in Cells : cmd[c] = request => Channel(c) = channel
    /\ hand = request /\ at \in Found \union {"load", "enter"} => async = channel
    /\ slider = request => channel = "slider"

\* A clean request has its channel to itself.
HasChannel ==
  /\ cmd[First(channel)] \in {0, request}
  /\ channel = "payload" => cmd["cog"] \in {0, request}
  /\ async = channel /\ at # "test" => hand = request
  /\ channel = "slider" => slider \in {0, request}
  /\ service \in {"write", "writeRest"} =>
       /\ answer[channel] = "waiting"
       /\ channel = "payload" => cmd["cog"] = 0
       /\ ~(async = channel /\ at # "test") /\ slider # request
  /\ service = "write" => cmd[First(channel)] = 0

\* Its flag holds what became of it, and once it does nothing is left to be carried out.
Answered ==
  /\ outcome[request] = IF answer[channel] = "waiting" THEN "none" ELSE answer[channel]
  /\ slider = request => cmd["slider"] = 0 \/ (async = "slider" /\ at = "clear")
  /\ answer[channel] # "waiting" =>
       /\ cmd[First(channel)] # 0 => async = channel /\ at = "clear"
       /\ ~(async = channel /\ at \in {"call", "confirm", "send"})
       /\ slider # request

\* What the handler concluded from an answer in time stands.
Concluded ==
  ~expired =>
    /\ service \in {"result", "starting", "dwell", "idle"} => answer[channel] # "waiting"
    /\ service \in {"starting", "dwell"} => answer[channel] = "yes"
    /\ service = "idle" /\ reply = "yes" => answer[channel] = "yes"
    /\ service = "idle" /\ reply = "no" /\ channel # "resend" => answer[channel] = "no"

\* The inductive invariants: of the buffers, and of the answers.
BufferInv == TypeOK /\ BuffersFresh /\ ~twice
Places ==
  /\ service = "writeRest" => channel \in Halved
  /\ service \in {"starting", "dwell"} => channel = "resend"
  /\ service # "idle" => request > 0
  /\ OnItsChannel

\* The request is clean, and has a flag of its own.
Own == request > 0 /\ clean /\ channel \notin Outputs

AnswerInv == Places /\ (Own => HasChannel /\ Answered /\ Concluded)

\* On a channel whose requests never overlapped, what is carried out is what lies in the
\* buffer, what is about to be emptied was dealt with, and what the handler is writing has
\* not been found yet.
Apart(c) ==
  /\ async = c /\ at \in Found \union {"enter"} => cmd[First(c)] \in {0, hand}
  /\ Stage(c, "clear") => cmd[First(c)] \in settled[First(c)] \union {0}
  /\ c = "analog" /\ Stage(c, "clearType") => cmd["type"] \in settled["type"] \union {0}
  /\ service = "write" /\ channel = c =>
       /\ cmd[First(c)] = 0
       /\ ~(async = c /\ at \in Found \union {"enter"})
  /\ service \in {"write", "writeRest"} /\ channel = c =>
       /\ c \in Halved => cmd[Second(c)] = 0
       /\ ~(async = c /\ at \in {"clearCog", "clearType"})

\* The mass and the centre of gravity in the buffers are of the same request.
Matched ==
  /\ service \in {"write", "writeRest"} /\ channel = "payload" =>
       cmd["cog"] = 0 /\ ~(async = "payload" /\ at \in Found)
  /\ service = "writeRest" /\ channel = "payload" => cmd["mass"] = request
  /\ cmd["mass"] # 0 /\ cmd["cog"] # 0 => cmd["mass"] = cmd["cog"]
  /\ async = "payload" /\ at \in {"call", "clear"} => cmd["mass"] = hand /\ cmd["cog"] = hand
  /\ Stage("payload", "clear") => half = hand
  /\ async = "payload" /\ at \in {"clear", "clearCog"} => cmd["cog"] \in settled["cog"] \union {0}

AllApart == \A c \in AllChannels \ ({"digital"} \union crossed) : Apart(c)

\* The invariant of the buffers whose requests never overlapped.
ApartInv ==
  /\ AllApart
  /\ "payload" \notin crossed => Matched

\* A clean resend that saw the arm stopped leaves no older script that could be taken for
\* the one it sends.
Renewed ==
  /\ async = "resend" /\ at \in {"confirm", "send"} => task = "none"
  /\ Stage("resend", "send") => seen = "none"
  /\ answer["resend"] = "yes" => task # "old" /\ seen # "old"
  /\ ~expired =>
       /\ service = "dwell" => witness = "new"
       /\ service = "idle" /\ reply = "yes" => witness = "new"

RenewedInv ==
  /\ channel = "resend" => request > 0
  /\ Own /\ channel = "resend" /\ ~unsettled => Renewed

\* A request of its own flag that began after everything earlier on its channel was done
\* with, and was answered in time, reports what became of its own command, although the
\* flag does not say whose answer it holds.
AnswerIsOwn ==
  service = "idle" /\ Own /\ ~expired =>
    /\ reply = "yes" => outcome[request] = "yes"
    /\ reply = "no" /\ channel # "resend" => outcome[request] = "no"

\* A command that was dealt with is never taken again, whatever times out, overlaps, is
\* dropped or throws: one whose call returned or threw into the handler of the resend, an
\* analog or slider value that entered the recipe or left its buffer, a digital one that was
\* looked at.  What is taken again is an analog value that was refused, or a command whose
\* call ended the round.
NothingTwice == ~twice

\* The arm is given a mass and a centre of gravity of the same request, unless a request
\* for a payload began while an earlier one was under way.
PayloadWhole ==
  "payload" \notin crossed /\ Stage("payload", "clear") => half = hand

\* A resend that succeeds saw its own script execute, and not the last frames of the one
\* it replaced, unless the stop was not confirmed in time.
ResendConfirmed ==
  service = "idle" /\ channel = "resend" /\ reply = "yes" /\ clean /\ ~expired /\ ~unsettled
    => witness = "new"

\* A command leaves its buffer only after it was dealt with, unless the power comes back or a
\* request on its channel overlapped an earlier one.  The digital outputs are excepted:
\* they are emptied untested.
NothingDropped ==
  [][ \A c \in Cells \ {"digital"} :
        (cmd[c] # 0 /\ cmd'[c] = 0)
          => \/ cmd[c] \in settled[c]
             \/ PowerOn
             \/ Channel(c) \in crossed ]_vars
=============================================================================
