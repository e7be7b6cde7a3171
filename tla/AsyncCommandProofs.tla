------------------------- MODULE AsyncCommandProofs -------------------------
(***************************************************************************)
(* BufferInv and AnswerInv are inductive, for every set of services and    *)
(* any number of requests: no command that was dealt with is taken again,  *)
(* and what a clean request is answered in time is what became of its own  *)
(* command.                                                                *)
(***************************************************************************)
EXTENDS AsyncCommand, TLAPS

\* The booleans keep their type in every step.
LEMMA FlagsPreserved == FlagsOK /\ [Next]_vars => FlagsOK'
<1> SUFFICES ASSUME FlagsOK, [Next]_vars PROVE FlagsOK'
  OBVIOUS
<1> USE DEF FlagsOK, vars, serving, thread, arm, done, history
<1>1. CASE Service
  <2>1. ASSUME NEW c \in Channels, Begins(c) PROVE FlagsOK'
    BY <2>1 DEF Begins, Quiet
  <2>2. CASE Writes \/ WritesRest \/ PollEnds \/ Concludes \/ TaskAwaited \/ TaskDwells
    BY <2>2 DEF Writes, WritesRest, PollEnds, Concludes, TaskAwaited, TaskDwells
  <2> QED
    BY <1>1, <2>1, <2>2 DEF Service
<1>2. ASSUME NEW c \in Outputs,
             OutputTested(c) \/ OutputEmptied(c) \/ OutputLoads(c) \/ OutputStores(c)
      PROVE  FlagsOK'
  BY <1>2 DEF OutputTested, Takes, OutputEmptied, OutputLoads, OutputStores
<1>3. ASSUME NEW c \in Direct \union {"slider"},
             NothingToDo(c) \/ CommandTaken(c) \/ CommandAnswered(c) \/ CommandEmptied(c)
      PROVE  FlagsOK'
  BY <1>3 DEF NothingToDo, CommandTaken, Takes, CommandAnswered, TaskStopped, CommandEmptied
<1>4. CASE RoundBegins \/ OutputsJudged \/ OutputsConfirmed \/ SliderTaken
  BY <1>4 DEF RoundBegins, OutputsJudged, OutputsConfirmed, SliderTaken, Takes
<1>5. CASE ResendStops \/ ResendConfirms \/ ResendSends \/ ResendThrows \/ CogEmptied \/ Flushes
  BY <1>5
  DEF ResendStops, TaskStopped, ResendConfirms, ResendSends, ScriptSent, ResendThrows,
      MayHaveActed, CogEmptied, Flushes
<1>6. CASE \/ AnalogTypeTested \/ AnalogTypeEmptied \/ AnalogValueTested \/ AnalogEnters
           \/ AnalogRefused \/ AnalogLoads \/ VoltageSent \/ RoundAborts
  BY <1>6
  DEF AnalogTypeTested, AnalogTypeEmptied, AnalogValueTested, Takes, AnalogEnters,
      AnalogRefused, AnalogLoads, VoltageSent, RoundAborts, MayHaveActed, TaskStopped, ScriptSent
<1>7. CASE TaskChanges \/ Reads \/ PowerOn \/ UNCHANGED vars
  BY <1>7 DEF TaskChanges, Reads, PowerOn
<1> QED
  BY <1>1, <1>2, <1>3, <1>4, <1>5, <1>6, <1>7 DEF Next, Async

\* The types survive every step.
LEMMA TypesPreserved == BufferInv /\ [Next]_vars => TypeOK'
<1> SUFFICES ASSUME BufferInv, [Next]_vars PROVE TypeOK'
  OBVIOUS
<1>0. FlagsOK'
  BY FlagsPreserved DEF BufferInv, TypeOK
<1> USE <1>0, ChannelsAssumption, RequestsAssumption
    DEF BufferInv, TypeOK, vars, serving, thread, arm, done, history, Requests, Scripts,
        Points, AllChannels, Outputs, Direct, Cells, Flags, Replies, Advance, Leave, Stage,
        First, Second, Halved, Flag
<1>1. ASSUME NEW c \in Channels, Begins(c) PROVE TypeOK'
  BY <1>1 DEF Begins, Marked, Aged
<1>2. CASE Writes
  BY <1>2 DEF Writes
<1>3. CASE WritesRest
  BY <1>3 DEF WritesRest
<1>4. CASE PollEnds
  BY <1>4 DEF PollEnds
<1>5. CASE Concludes
  BY <1>5 DEF Concludes
<1>6. CASE TaskAwaited
  BY <1>6 DEF TaskAwaited
<1>7. CASE TaskDwells
  BY <1>7 DEF TaskDwells
<1>8. CASE RoundBegins
  BY <1>8 DEF RoundBegins
<1>9. CASE OutputsJudged
  BY <1>9 DEF OutputsJudged, After
<1>10. CASE OutputsConfirmed
  BY <1>10 DEF OutputsConfirmed, After
<1>11. ASSUME NEW c \in Outputs, OutputTested(c) PROVE TypeOK'
  BY <1>11 DEF OutputTested, Takes, Settles, Passes
<1>12. ASSUME NEW c \in Outputs, OutputEmptied(c) PROVE TypeOK'
  BY <1>12 DEF OutputEmptied, Emptied
<1>13. ASSUME NEW c \in Outputs, OutputLoads(c) PROVE TypeOK'
  BY <1>13 DEF OutputLoads
<1>14. ASSUME NEW c \in Outputs, OutputStores(c) PROVE TypeOK'
  BY <1>14 DEF OutputStores, After
<1>15. CASE VoltageSent
  BY <1>15 DEF VoltageSent, Settles
<1>16. CASE AnalogTypeTested
  BY <1>16 DEF AnalogTypeTested, Settles
<1>17. CASE AnalogTypeEmptied
  BY <1>17 DEF AnalogTypeEmptied, Emptied
<1>18. CASE AnalogValueTested
  BY <1>18 DEF AnalogValueTested, Takes
<1>19. CASE AnalogEnters
  BY <1>19 DEF AnalogEnters, Settles
<1>20. CASE AnalogRefused
  BY <1>20 DEF AnalogRefused
<1>21. CASE AnalogLoads
  BY <1>21 DEF AnalogLoads
<1>22. CASE SliderTaken
  BY <1>22 DEF SliderTaken, Takes, Settles
<1>23. ASSUME NEW c \in Direct \union {"slider"}, NothingToDo(c) PROVE TypeOK'
  BY <1>23 DEF NothingToDo, After
<1>24. ASSUME NEW c \in Direct \union {"slider"}, CommandTaken(c) PROVE TypeOK'
  BY <1>24 DEF CommandTaken, Takes
<1>25. ASSUME NEW c \in Direct \union {"slider"}, CommandAnswered(c) PROVE TypeOK'
  <2>1. /\ half' \in 0..MaxRequests
        /\ settled' \in [Cells -> SUBSET Requests]
    BY <1>25 DEF CommandAnswered, Settles, TaskStopped
  <2>2. task' \in Scripts
    BY <1>25 DEF CommandAnswered, Settles, TaskStopped
  <2>3. /\ outcome' \in [Requests -> {"none", "yes", "no"}]
        /\ answer' \in [Flags -> {"waiting", "yes", "no"}]
    BY <1>25 DEF CommandAnswered, Settles, Records, Result
  <2> QED
    BY <1>25, <2>1, <2>2, <2>3 DEF CommandAnswered, Settles, TaskStopped
<1>26. ASSUME NEW c \in Direct \union {"slider"}, CommandEmptied(c) PROVE TypeOK'
  BY <1>26 DEF CommandEmptied, Emptied, After
<1>27. CASE ResendStops
  BY <1>27 DEF ResendStops, TaskStopped
<1>28. CASE ResendConfirms
  BY <1>28 DEF ResendConfirms
<1>29. CASE ResendSends
  BY <1>29 DEF ResendSends, ScriptSent, Settles, Records, Result
<1>30. CASE ResendThrows
  BY <1>30 DEF ResendThrows, MayHaveActed, TaskStopped, ScriptSent, Settles
<1>31. CASE CogEmptied
  BY <1>31 DEF CogEmptied, Emptied, After
<1>32. CASE Flushes
  BY <1>32 DEF Flushes, Result
<1>33. CASE RoundAborts
  BY <1>33 DEF RoundAborts, Throwing, MayHaveActed, TaskStopped, ScriptSent
<1>34. CASE TaskChanges
  BY <1>34 DEF TaskChanges
<1>35. CASE Reads
  BY <1>35 DEF Reads
<1>36. CASE PowerOn
  BY <1>36 DEF PowerOn
<1>37. CASE UNCHANGED vars
  BY <1>37
<1> QED
  BY <1>1, <1>2, <1>3, <1>4, <1>5, <1>6, <1>7, <1>8, <1>9, <1>10, <1>11, <1>12, <1>13,
     <1>14, <1>15, <1>16, <1>17, <1>18, <1>19, <1>20, <1>21, <1>22, <1>23, <1>24, <1>25,
     <1>26, <1>27, <1>28, <1>29, <1>30, <1>31, <1>32, <1>33, <1>34, <1>35, <1>36, <1>37
  DEF Next, Service, Async

\* What is taken from a buffer that is tested was never dealt with.
LEMMA TakesUnsettled ==
  ASSUME BufferInv, at \in {"test", "value"}, NEW cell \in Cells \ {"cog", "type"}, Takes(cell)
  PROVE  /\ ~twice'
         /\ hand' = cmd[cell] /\ hand' <= request
         /\ service = "write" => hand' < request
<1>1. cmd[cell] \notin settled[cell] /\ cmd[cell] <= request
  BY DEF BufferInv, BuffersFresh
<1>2. ~twice'
  BY <1>1, Zenon DEF Takes, BufferInv
<1>3. hand' = cmd[cell]
  BY DEF Takes
<1>4. service = "write" => cmd[cell] < request
  BY DEF BufferInv, BuffersFresh
<1> QED
  BY <1>1, <1>2, <1>3, <1>4

\* Only the command that is dealt with joins the settled ones.
LEMMA SettlesOne ==
  ASSUME TypeOK, NEW cell \in Cells, NEW command \in 0..MaxRequests, Settles(cell, command)
  PROVE  /\ settled' \in [Cells -> SUBSET Requests]
         /\ \A d \in Cells : \A r \in settled'[d] :
              r \in settled[d] \/ (d = cell /\ r = command /\ r /= 0)
  BY RequestsAssumption DEF TypeOK, Settles, Requests

\* What suffices for BuffersFresh in a step that writes no buffer.
LEMMA FreshStep ==
  ASSUME TypeOK, BuffersFresh, UNCHANGED << cmd, request, service, channel >>,
         hand' <= request, service = "write" => hand' < request, slider' <= request,
         \A r \in Requests : r > request => outcome'[r] = outcome[r],
         \A d \in Cells : \A r \in settled'[d] :
           r \in settled[d] \/ r = cmd[d] \/ (r = hand /\ d \notin {"cog", "type"}),
         \A d \in Cells \ {"cog"} :
           cmd[d] \in settled'[d] =>
             async' = Channel(d) /\ at' = IF d = "type" THEN "clearType" ELSE "clear"
  PROVE  BuffersFresh'
<1>1. request \in Nat /\ hand \in Nat /\ \A d \in Cells : cmd[d] \in Nat
  BY RequestsAssumption DEF TypeOK
<1>2. Second(channel) \in Cells \cap {"cog", "type"}
  BY DEF Second, Cells, AllChannels, Outputs, Direct
<1>3. hand' <= request' /\ slider' <= request'
  OBVIOUS
<1>4. \A r \in Requests : r > request' => outcome'[r] = "none"
  BY DEF BuffersFresh
<1>5. \A d \in Cells : cmd'[d] <= request' /\ \A r \in settled'[d] : r <= request'
  BY <1>1 DEF BuffersFresh
<1>6. service' = "write" =>
        hand' < request' /\ \A d \in Cells : cmd'[d] < request' /\ request' \notin settled'[d]
  BY <1>1 DEF BuffersFresh
<1>7. service' = "writeRest" =>
        cmd'[Second(channel')] < request' /\ request' \notin settled'[Second(channel')]
  BY <1>1, <1>2 DEF BuffersFresh
<1> HIDE <1>2
<1> QED
  BY <1>3, <1>4, <1>5, <1>6, <1>7 DEF BuffersFresh

\* The steps that take a command or deal with one.
LEMMA SettlingFresh ==
  ASSUME BufferInv,
         \/ \E c \in Outputs : OutputTested(c)
         \/ VoltageSent \/ AnalogTypeTested \/ AnalogValueTested \/ AnalogEnters \/ SliderTaken
         \/ \E c \in Direct : CommandTaken(c) \/ CommandAnswered(c)
         \/ ResendSends \/ ResendThrows
  PROVE  BuffersFresh' /\ ~twice'
<1>1. TypeOK /\ BuffersFresh /\ ~twice
  BY DEF BufferInv
<1>2. /\ hand <= request /\ slider <= request /\ (service = "write" => hand < request)
      /\ \A d \in Cells \ {"cog"} :
           cmd[d] \in settled[d] =>
             async = Channel(d) /\ at = IF d = "type" THEN "clearType" ELSE "clear"
  BY <1>1 DEF BuffersFresh
<1>3. /\ cmd \in [Cells -> 0..MaxRequests] /\ hand \in 0..MaxRequests
      /\ settled \in [Cells -> SUBSET Requests] /\ 0 \notin Requests
      /\ request \in Nat /\ hand \in Nat /\ Requests \subseteq Nat /\ cmd["slider"] \in Nat
      /\ outcome \in [Requests -> {"none", "yes", "no"}] /\ cmd["slider"] <= request
  BY <1>1, RequestsAssumption DEF TypeOK, Requests, BuffersFresh, Cells, AllChannels
<1> USE DEF Stage, Advance, serving, thread, arm, done, history
<1>4. ASSUME NEW c \in Outputs, OutputTested(c) PROVE BuffersFresh' /\ ~twice'
  <2>1. ~twice' /\ hand' <= request /\ (service = "write" => hand' < request)
    BY <1>4, TakesUnsettled DEF OutputTested, Cells, AllChannels, Outputs
  <2>2. /\ UNCHANGED << cmd, request, service, channel, slider, outcome, async >>
        /\ at = "test" /\ async = c /\ c # "analog" /\ c \in Cells
        /\ c = "digital" => at' = "clear"
    BY <1>4 DEF OutputTested, Passes, Cells, AllChannels, Outputs
  <2>3. \A d \in Cells : \A r \in settled'[d] :
          r \in settled[d] \/ (c = "digital" /\ d = c /\ r = cmd[d])
    BY <1>1, <1>3, <1>4, <2>2, SettlesOne DEF OutputTested
  <2>4. \A d \in Cells \ {"cog"} :
          cmd[d] \in settled'[d] =>
            async' = Channel(d) /\ at' = IF d = "type" THEN "clearType" ELSE "clear"
    BY <1>2, <2>2, <2>3 DEF Channel
  <2> QED
    BY <1>1, <1>2, <2>1, <2>2, <2>3, <2>4, FreshStep
<1>5. CASE VoltageSent
  <2>1. /\ UNCHANGED << cmd, request, service, channel, slider, outcome, hand, twice, async >>
        /\ async = "voltage" /\ at = "call" /\ at' = "clear"
    BY <1>5 DEF VoltageSent
  <2>2. \A d \in Cells : \A r \in settled'[d] :
          r \in settled[d] \/ (d = "voltage" /\ r = hand)
    BY <1>1, <1>3, <1>5, SettlesOne DEF VoltageSent, Cells, AllChannels, Outputs, Direct
  <2>3. \A d \in Cells \ {"cog"} :
          cmd[d] \in settled'[d] =>
            async' = Channel(d) /\ at' = IF d = "type" THEN "clearType" ELSE "clear"
    BY <1>2, <2>1, <2>2 DEF Channel
  <2> QED
    BY <1>1, <1>2, <2>1, <2>2, <2>3, FreshStep
<1>6. CASE AnalogTypeTested
  <2>1. /\ UNCHANGED << cmd, request, service, channel, slider, outcome, hand, async >>
        /\ async = "analog" /\ at = "test" /\ (cmd["type"] # 0 => at' = "clearType")
    BY <1>6 DEF AnalogTypeTested
  <2>2. \A d \in Cells : \A r \in settled'[d] :
          r \in settled[d] \/ (d = "type" /\ r = cmd["type"] /\ r # 0)
    BY <1>1, <1>3, <1>6, SettlesOne DEF AnalogTypeTested, Cells
  <2>3. \A d \in Cells \ {"cog"} :
          cmd[d] \in settled'[d] =>
            async' = Channel(d) /\ at' = IF d = "type" THEN "clearType" ELSE "clear"
    BY <1>2, <2>1, <2>2 DEF Channel
  <2>4. cmd["type"] \notin settled["type"]
    BY <1>2, <2>1 DEF Cells
  <2>5. ~twice'
    BY <1>1, <1>6, <2>4, Zenon DEF AnalogTypeTested
  <2> QED
    BY <1>1, <1>2, <2>1, <2>2, <2>3, <2>5, FreshStep
<1>7. CASE AnalogValueTested
  <2>1. ~twice' /\ hand' <= request /\ (service = "write" => hand' < request)
    BY <1>7, TakesUnsettled DEF AnalogValueTested, Cells, AllChannels, Outputs
  <2>2. /\ UNCHANGED << cmd, request, service, channel, slider, outcome, settled >>
        /\ at = "value"
    BY <1>7 DEF AnalogValueTested
  <2> QED
    BY <1>1, <1>2, <2>1, <2>2, FreshStep
<1>8. CASE AnalogEnters
  <2>1. /\ UNCHANGED << cmd, request, service, channel, slider, outcome, hand, twice, async >>
        /\ async = "analog" /\ at = "enter" /\ at' = "clear"
    BY <1>8 DEF AnalogEnters
  <2>2. \A d \in Cells : \A r \in settled'[d] :
          r \in settled[d] \/ (d = "analog" /\ r = hand)
    BY <1>1, <1>3, <1>8, SettlesOne DEF AnalogEnters, Cells, AllChannels, Outputs, Direct
  <2>3. \A d \in Cells \ {"cog"} :
          cmd[d] \in settled'[d] =>
            async' = Channel(d) /\ at' = IF d = "type" THEN "clearType" ELSE "clear"
    BY <1>2, <2>1, <2>2 DEF Channel
  <2> QED
    BY <1>1, <1>2, <2>1, <2>2, <2>3, FreshStep
<1>9. CASE SliderTaken
  <2>1. /\ UNCHANGED << cmd, request, service, channel, async >>
        /\ async = "slider" /\ at = "test" /\ at' = "clear"
    BY <1>9 DEF SliderTaken
  <2>2. \A d \in Cells : \A r \in settled'[d] :
          r \in settled[d] \/ (d = "slider" /\ r = cmd["slider"])
    BY <1>1, <1>3, <1>9, SettlesOne DEF SliderTaken, Cells, AllChannels, Outputs, Direct
  <2>3. \A d \in Cells \ {"cog"} :
          cmd[d] \in settled'[d] =>
            async' = Channel(d) /\ at' = IF d = "type" THEN "clearType" ELSE "clear"
    BY <1>2, <2>1, <2>2 DEF Channel
  <2>4. \A r \in Requests : r > request => outcome'[r] = outcome[r]
    BY <1>3, <1>9 DEF SliderTaken
  <2>5. ~twice' /\ hand' <= request /\ (service = "write" => hand' < request)
    BY <1>9, TakesUnsettled DEF SliderTaken, Cells, AllChannels
  <2>6. slider' <= request
    BY <1>1, <1>2, <1>9 DEF SliderTaken, BuffersFresh, Cells, AllChannels
  <2> QED
    BY <1>1, <1>2, <2>1, <2>2, <2>3, <2>4, <2>5, <2>6, FreshStep
<1>10. ASSUME NEW c \in Direct, CommandTaken(c) PROVE BuffersFresh' /\ ~twice'
  <2>1. ~twice' /\ hand' <= request /\ (service = "write" => hand' < request)
    BY <1>10, TakesUnsettled DEF CommandTaken, First, Cells, AllChannels, Outputs, Direct
  <2>2. /\ UNCHANGED << cmd, request, service, channel, slider, outcome, settled >>
        /\ at = "test"
    BY <1>10 DEF CommandTaken
  <2> QED
    BY <1>1, <1>2, <2>1, <2>2, FreshStep
<1>11. ASSUME NEW c \in Direct, CommandAnswered(c) PROVE BuffersFresh' /\ ~twice'
  <2>1. /\ UNCHANGED << cmd, request, service, channel, slider, hand, twice, async >>
        /\ async = c /\ at = "call" /\ at' = "clear"
    BY <1>11 DEF CommandAnswered
  <2>2. \A d \in Cells : \A r \in settled'[d] :
          r \in settled[d] \/ (d = First(c) /\ r = hand) \/ (d = "cog" /\ r = cmd[d])
    BY <1>3, <1>11 DEF CommandAnswered, Settles, First
  <2>3. \A d \in Cells \ {"cog"} :
          cmd[d] \in settled'[d] =>
            async' = Channel(d) /\ at' = IF d = "type" THEN "clearType" ELSE "clear"
    BY <1>2, <2>1, <2>2 DEF Channel, First, Direct
  <2>4. \A r \in Requests : r > request => outcome'[r] = outcome[r]
    BY <1>2, <1>3, <1>11 DEF CommandAnswered, Records
  <2>5. First(c) \notin {"cog", "type"}
    BY DEF First, Direct
  <2> QED
    BY <1>1, <1>2, <2>1, <2>2, <2>3, <2>4, <2>5, FreshStep
<1>12. CASE ResendSends
  <2>1. /\ UNCHANGED << cmd, request, service, channel, slider, hand, twice, async >>
        /\ async = "resend" /\ at' = "clear" /\ at = "send"
    BY <1>12 DEF ResendSends
  <2>2. \A d \in Cells : \A r \in settled'[d] :
          r \in settled[d] \/ (d = "resend" /\ r = hand)
    BY <1>1, <1>3, <1>12, SettlesOne DEF ResendSends, Cells, AllChannels, Outputs, Direct
  <2>3. \A d \in Cells \ {"cog"} :
          cmd[d] \in settled'[d] =>
            async' = Channel(d) /\ at' = IF d = "type" THEN "clearType" ELSE "clear"
    BY <1>2, <2>1, <2>2 DEF Channel
  <2>4. \A r \in Requests : r > request => outcome'[r] = outcome[r]
    BY <1>2, <1>3, <1>12 DEF ResendSends, Records
  <2> QED
    BY <1>1, <1>2, <2>1, <2>2, <2>3, <2>4, FreshStep
<1>13. CASE ResendThrows
  <2>1. /\ UNCHANGED << cmd, request, service, channel, slider, outcome, hand, twice, async >>
        /\ async = "resend" /\ at' = "clear" /\ at \in {"call", "send"}
    BY <1>13 DEF ResendThrows
  <2>2. \A d \in Cells : \A r \in settled'[d] :
          r \in settled[d] \/ (d = "resend" /\ r = hand)
    BY <1>1, <1>3, <1>13, SettlesOne DEF ResendThrows, Cells, AllChannels, Outputs, Direct
  <2>3. \A d \in Cells \ {"cog"} :
          cmd[d] \in settled'[d] =>
            async' = Channel(d) /\ at' = IF d = "type" THEN "clearType" ELSE "clear"
    BY <1>2, <2>1, <2>2 DEF Channel
  <2> QED
    BY <1>1, <1>2, <2>1, <2>2, <2>3, FreshStep
<1> QED
  BY <1>4, <1>5, <1>6, <1>7, <1>8, <1>9, <1>10, <1>11, <1>12, <1>13

\* No buffer is tested with a command in it that was dealt with, in every step.
LEMMA FreshPreserved == BufferInv /\ [Next]_vars => (BuffersFresh /\ ~twice)'
<1> SUFFICES ASSUME BufferInv, [Next]_vars PROVE (BuffersFresh /\ ~twice)'
  OBVIOUS
<1>0. TypeOK'
  BY TypesPreserved
<1>nat. /\ {request, hand, slider} \subseteq Nat /\ Requests \subseteq Nat
        /\ \A c \in Cells : cmd[c] \in Nat
  BY RequestsAssumption DEF BufferInv, TypeOK, Requests
<1> USE ChannelsAssumption, RequestsAssumption
    DEF BufferInv, TypeOK, BuffersFresh, vars, serving, thread, arm, done, history, Requests,
        AllChannels, Outputs, Direct, Cells, Replies, Advance, Leave, Stage, First, Second,
        Halved, Channel
<1>1. ASSUME NEW c \in Channels, Begins(c) PROVE (BuffersFresh /\ ~twice)'
  <2>1. /\ UNCHANGED << cmd, hand, slider, settled, outcome, twice, async, at >>
        /\ request' = request + 1 /\ service' = "write"
    BY <1>1 DEF Begins
  <2>2. /\ hand < request' /\ slider <= request'
        /\ \A r \in Requests : r > request' => r > request
    BY <1>nat, <2>1
  <2>3. \A c2 \in Cells : cmd[c2] < request' /\ \A r \in settled[c2] : r < request'
    BY <1>nat, <2>1
  <2>4. \A c2 \in Cells : request' \notin settled[c2] /\ \A r \in settled[c2] : r <= request'
    BY <1>nat, <2>1, <2>3
  <2> HIDE DEF Cells, Channel
  <2> QED
    BY <1>0, <2>1, <2>2, <2>3, <2>4
<1>2. CASE Writes
  <2>1. /\ UNCHANGED << request, channel, hand, slider, settled, outcome, twice, async, at >>
        /\ service = "write" /\ service' \in {"writeRest", "poll"}
        /\ \A d \in Cells : cmd'[d] = IF d = First(channel) THEN request ELSE cmd[d]
    BY <1>2 DEF Writes
  <2>2. \A d \in Cells : /\ cmd'[d] \in settled'[d] => cmd[d] \in settled[d]
                         /\ cmd'[d] <= request
    BY <1>nat, <2>1
  <2>3. Second(channel) \in Cells /\ Second(channel) # First(channel)
    OBVIOUS
  <2> HIDE DEF Cells, Channel, First, Second
  <2> QED
    BY <1>0, <2>1, <2>2, <2>3
<1>3. CASE WritesRest
  BY <1>3 DEF WritesRest
<1>4. CASE PollEnds
  BY <1>4 DEF PollEnds
<1>5. CASE Concludes
  BY <1>5 DEF Concludes
<1>6. CASE TaskAwaited
  BY <1>6 DEF TaskAwaited
<1>7. CASE TaskDwells
  BY <1>7 DEF TaskDwells
<1>8. CASE RoundBegins
  BY <1>8 DEF RoundBegins
<1>9. ASSUME NEW c \in Outputs, OutputTested(c) PROVE (BuffersFresh /\ ~twice)'
  BY <1>9, SettlingFresh
<1>10. ASSUME NEW c \in Outputs, OutputEmptied(c) PROVE (BuffersFresh /\ ~twice)'
  BY <1>10 DEF OutputEmptied, Emptied
<1>11. ASSUME NEW c \in Outputs, OutputLoads(c) PROVE (BuffersFresh /\ ~twice)'
  BY <1>11 DEF OutputLoads
<1>12. ASSUME NEW c \in Outputs, OutputStores(c) PROVE (BuffersFresh /\ ~twice)'
  BY <1>12 DEF OutputStores, After
<1>13. CASE VoltageSent
  BY <1>13, SettlingFresh
<1>14. CASE AnalogTypeTested
  BY <1>14, SettlingFresh
<1>15. CASE AnalogTypeEmptied
  BY <1>15 DEF AnalogTypeEmptied, Emptied
<1>16. CASE AnalogValueTested
  BY <1>16, SettlingFresh
<1>17. CASE AnalogEnters
  BY <1>17, SettlingFresh
<1>18. CASE AnalogRefused
  BY <1>18 DEF AnalogRefused
<1>19. CASE AnalogLoads
  BY <1>19 DEF AnalogLoads
<1>20. CASE OutputsJudged
  BY <1>20 DEF OutputsJudged, After
<1>21. CASE OutputsConfirmed
  BY <1>21 DEF OutputsConfirmed, After
<1>22. CASE SliderTaken
  BY <1>22, SettlingFresh
<1>23. ASSUME NEW c \in Direct \union {"slider"}, NothingToDo(c) PROVE (BuffersFresh /\ ~twice)'
  BY <1>23 DEF NothingToDo, After
<1>24. ASSUME NEW c \in Direct \union {"slider"}, CommandTaken(c) PROVE (BuffersFresh /\ ~twice)'
  <2>1. c \in Direct
    BY <1>24 DEF CommandTaken
  <2> QED
    BY <1>24, <2>1, SettlingFresh
<1>25. ASSUME NEW c \in Direct \union {"slider"}, CommandAnswered(c) PROVE (BuffersFresh /\ ~twice)'
  <2>1. c \in Direct
    BY <1>25 DEF CommandAnswered
  <2> QED
    BY <1>25, <2>1, SettlingFresh
<1>26. ASSUME NEW c \in Direct \union {"slider"}, CommandEmptied(c) PROVE (BuffersFresh /\ ~twice)'
  <2>1. /\ UNCHANGED << request, service, channel, hand, slider, settled, outcome, twice >>
        /\ async = c /\ at = "clear"
        /\ \A d \in Cells : cmd'[d] = IF d = First(c) THEN 0 ELSE cmd[d]
    BY <1>26 DEF CommandEmptied, Emptied
  <2>2. \A d \in Cells : 0 \notin settled[d]
    OBVIOUS
  <2>3. \A d \in Cells \ {"cog"} : cmd'[d] \notin settled'[d]
    BY <2>1, <2>2
  <2>4. \A d \in Cells : cmd'[d] <= request /\ (service = "write" => cmd'[d] < request)
    BY <1>nat, <2>1
  <2>5. service = "writeRest" => cmd'[Second(channel)] < request
    BY <1>nat, <2>1
  <2> HIDE DEF Cells, Channel, First, Second
  <2> QED
    BY <1>0, <2>1, <2>3, <2>4, <2>5
<1>27. CASE ResendStops
  BY <1>27 DEF ResendStops, TaskStopped
<1>28. CASE ResendConfirms
  BY <1>28 DEF ResendConfirms
<1>29. CASE ResendSends
  BY <1>29, SettlingFresh
<1>30. CASE ResendThrows
  BY <1>30, SettlingFresh
<1>31. CASE CogEmptied
  BY <1>31 DEF CogEmptied, Emptied, After
<1>32. CASE Flushes
  BY <1>32 DEF Flushes, Result
<1>33. CASE RoundAborts
  BY <1>33 DEF RoundAborts, Throwing, MayHaveActed, TaskStopped, ScriptSent
<1>34. CASE TaskChanges
  BY <1>34 DEF TaskChanges
<1>35. CASE Reads
  BY <1>35 DEF Reads
<1>36. CASE PowerOn
  BY <1>36 DEF PowerOn
<1>37. CASE UNCHANGED vars
  BY <1>37
<1> QED
  BY <1>1, <1>2, <1>3, <1>4, <1>5, <1>6, <1>7, <1>8, <1>9, <1>10, <1>11, <1>12, <1>13,
     <1>14, <1>15, <1>16, <1>17, <1>18, <1>19, <1>20, <1>21, <1>22, <1>23, <1>24, <1>25,
     <1>26, <1>27, <1>28, <1>29, <1>30, <1>31, <1>32, <1>33, <1>34, <1>35, <1>36, <1>37
  DEF Next, Service, Async

\* What is under way on a channel, and where the handler is.
LEMMA PlacesPreserved == BufferInv /\ AnswerInv /\ [Next]_vars => Places'
<1> SUFFICES ASSUME BufferInv, AnswerInv, [Next]_vars PROVE Places'
  OBVIOUS
<1>0. BufferInv'
  BY TypesPreserved, FreshPreserved DEF BufferInv
<1> USE ChannelsAssumption, RequestsAssumption
    DEF BufferInv, TypeOK, BuffersFresh, vars, serving, thread, arm, done, history, Requests,
        AllChannels, Outputs, Direct, Cells, Flags, Replies, Advance, Leave, Stage, First,
        Second, Halved, Flag,
        Channel, AnswerInv, Places, OnItsChannel, Found
<1>1. ASSUME NEW c \in Channels, Begins(c) PROVE Places'
  BY <1>1 DEF Begins, Marked, Aged
<1>2. CASE Writes
  BY <1>2 DEF Writes
<1>3. CASE WritesRest
  BY <1>3 DEF WritesRest
<1>4. CASE PollEnds
  BY <1>4 DEF PollEnds
<1>5. CASE Concludes
  BY <1>5 DEF Concludes
<1>6. CASE TaskAwaited
  BY <1>6 DEF TaskAwaited
<1>7. CASE TaskDwells
  BY <1>7 DEF TaskDwells
<1>8. CASE RoundBegins
  BY <1>8 DEF RoundBegins
<1>9. ASSUME NEW c \in Outputs, OutputTested(c) PROVE Places'
  BY <1>9 DEF OutputTested, Takes, Settles, Passes
<1>10. ASSUME NEW c \in Outputs, OutputEmptied(c) PROVE Places'
  BY <1>10 DEF OutputEmptied, Emptied
<1>11. ASSUME NEW c \in Outputs, OutputLoads(c) PROVE Places'
  BY <1>11 DEF OutputLoads
<1>12. ASSUME NEW c \in Outputs, OutputStores(c) PROVE Places'
  BY <1>12 DEF OutputStores, After
<1>13. CASE VoltageSent
  BY <1>13 DEF VoltageSent, Settles
<1>14. CASE AnalogTypeTested
  BY <1>14 DEF AnalogTypeTested, Settles
<1>15. CASE AnalogTypeEmptied
  BY <1>15 DEF AnalogTypeEmptied, Emptied
<1>16. CASE AnalogValueTested
  BY <1>16 DEF AnalogValueTested, Takes
<1>17. CASE AnalogEnters
  BY <1>17 DEF AnalogEnters, Settles
<1>18. CASE AnalogRefused
  BY <1>18 DEF AnalogRefused
<1>19. CASE AnalogLoads
  BY <1>19 DEF AnalogLoads
<1>20. CASE OutputsJudged
  BY <1>20 DEF OutputsJudged, After
<1>21. CASE OutputsConfirmed
  BY <1>21 DEF OutputsConfirmed, After
<1>22. CASE SliderTaken
  BY <1>22 DEF SliderTaken, Takes, Settles
<1>23. ASSUME NEW c \in Direct \union {"slider"}, NothingToDo(c) PROVE Places'
  BY <1>23 DEF NothingToDo, After
<1>24. ASSUME NEW c \in Direct \union {"slider"}, CommandTaken(c) PROVE Places'
  BY <1>24 DEF CommandTaken, Pending, Takes
<1>25. ASSUME NEW c \in Direct \union {"slider"}, CommandAnswered(c) PROVE Places'
  BY <1>25 DEF CommandAnswered, Settles, Records, Result
<1>26. ASSUME NEW c \in Direct \union {"slider"}, CommandEmptied(c) PROVE Places'
  BY <1>26 DEF CommandEmptied, Emptied, After
<1>27. CASE ResendStops
  BY <1>27 DEF ResendStops, TaskStopped
<1>28. CASE ResendConfirms
  BY <1>28 DEF ResendConfirms
<1>29. CASE ResendSends
  BY <1>29 DEF ResendSends, ScriptSent, Settles, Records, Result
<1>30. CASE ResendThrows
  BY <1>30 DEF ResendThrows, MayHaveActed, TaskStopped, ScriptSent, Settles
<1>31. CASE CogEmptied
  BY <1>31 DEF CogEmptied, Emptied, After
<1>32. CASE Flushes
  BY <1>32 DEF Flushes, Result
<1>33. CASE RoundAborts
  BY <1>33 DEF RoundAborts, Throwing, MayHaveActed, TaskStopped, ScriptSent
<1>34. CASE TaskChanges
  BY <1>34 DEF TaskChanges
<1>35. CASE Reads
  BY <1>35 DEF Reads
<1>36. CASE PowerOn
  BY <1>36 DEF PowerOn
<1>37. CASE UNCHANGED vars
  BY <1>37
<1> QED
  BY <1>1, <1>2, <1>3, <1>4, <1>5, <1>6, <1>7, <1>8, <1>9, <1>10, <1>11, <1>12, <1>13,
     <1>14, <1>15, <1>16, <1>17, <1>18, <1>19, <1>20, <1>21, <1>22, <1>23, <1>24, <1>25,
     <1>26, <1>27, <1>28, <1>29, <1>30, <1>31, <1>32, <1>33, <1>34, <1>35, <1>36, <1>37
  DEF Next, Service, Async

\* A clean request keeps its channel to itself.
LEMMA HasChannelPreserved == BufferInv /\ AnswerInv /\ [Next]_vars => (Own => HasChannel)'
<1> SUFFICES ASSUME BufferInv, AnswerInv, [Next]_vars PROVE (Own => HasChannel)'
  OBVIOUS
<1>0. BufferInv'
  BY TypesPreserved, FreshPreserved DEF BufferInv
<1> USE ChannelsAssumption, RequestsAssumption
    DEF BufferInv, TypeOK, BuffersFresh, vars, serving, thread, arm, done, history, Requests,
        AllChannels, Outputs, Direct, Cells, Flags, Replies, Advance, Leave, Stage, First,
        Second, Halved, Flag,
        Channel, AnswerInv, Own, Places, OnItsChannel, Found, HasChannel
<1>1. ASSUME NEW c \in Channels, Begins(c) PROVE (Own => HasChannel)'
  <2> SUFFICES ASSUME Own' PROVE HasChannel'
    OBVIOUS
  <2>1. channel' = c /\ Quiet(c)
    BY <1>1 DEF Begins
  <2>2. cmd' = cmd /\ async' = async /\ at' = at /\ hand' = hand /\ slider' = slider
    BY <1>1 DEF Begins
  <2>3. service' = "write" /\ request' = request + 1
    BY <1>1 DEF Begins
  <2>4. answer'[c] = "waiting"
    BY <1>1, <2>1 DEF Begins, Marked
  <2> QED
    BY <2>1, <2>2, <2>3, <2>4 DEF Quiet
<1>2. CASE Writes
  BY <1>2 DEF Writes
<1>3. CASE WritesRest
  BY <1>3 DEF WritesRest
<1>4. CASE PollEnds
  BY <1>4 DEF PollEnds
<1>5. CASE Concludes
  BY <1>5 DEF Concludes
<1>6. CASE TaskAwaited
  BY <1>6 DEF TaskAwaited
<1>7. CASE TaskDwells
  BY <1>7 DEF TaskDwells
<1>8. CASE RoundBegins
  BY <1>8 DEF RoundBegins
<1>9. ASSUME NEW c \in Outputs, OutputTested(c) PROVE (Own => HasChannel)'
  BY <1>9 DEF OutputTested, Takes, Settles, Passes
<1>10. ASSUME NEW c \in Outputs, OutputEmptied(c) PROVE (Own => HasChannel)'
  BY <1>10 DEF OutputEmptied, Emptied
<1>11. ASSUME NEW c \in Outputs, OutputLoads(c) PROVE (Own => HasChannel)'
  BY <1>11 DEF OutputLoads
<1>12. ASSUME NEW c \in Outputs, OutputStores(c) PROVE (Own => HasChannel)'
  BY <1>12 DEF OutputStores, After
<1>13. CASE VoltageSent
  BY <1>13 DEF VoltageSent, Settles
<1>14. CASE AnalogTypeTested
  BY <1>14 DEF AnalogTypeTested, Settles
<1>15. CASE AnalogTypeEmptied
  BY <1>15 DEF AnalogTypeEmptied, Emptied
<1>16. CASE AnalogValueTested
  BY <1>16 DEF AnalogValueTested, Takes
<1>17. CASE AnalogEnters
  BY <1>17 DEF AnalogEnters, Settles
<1>18. CASE AnalogRefused
  BY <1>18 DEF AnalogRefused
<1>19. CASE AnalogLoads
  BY <1>19 DEF AnalogLoads
<1>20. CASE OutputsJudged
  BY <1>20 DEF OutputsJudged, After
<1>21. CASE OutputsConfirmed
  BY <1>21 DEF OutputsConfirmed, After
<1>22. CASE SliderTaken
  BY <1>22 DEF SliderTaken, Takes, Settles
<1>23. ASSUME NEW c \in Direct \union {"slider"}, NothingToDo(c) PROVE (Own => HasChannel)'
  BY <1>23 DEF NothingToDo, After
<1>24. ASSUME NEW c \in Direct \union {"slider"}, CommandTaken(c) PROVE (Own => HasChannel)'
  BY <1>24 DEF CommandTaken, Pending, Takes
<1>25. ASSUME NEW c \in Direct \union {"slider"}, CommandAnswered(c) PROVE (Own => HasChannel)'
  BY <1>25 DEF CommandAnswered, Settles, Records, Result
<1>26. ASSUME NEW c \in Direct \union {"slider"}, CommandEmptied(c) PROVE (Own => HasChannel)'
  BY <1>26 DEF CommandEmptied, Emptied, After
<1>27. CASE ResendStops
  BY <1>27 DEF ResendStops, TaskStopped
<1>28. CASE ResendConfirms
  BY <1>28 DEF ResendConfirms
<1>29. CASE ResendSends
  BY <1>29 DEF ResendSends, ScriptSent, Settles, Records, Result
<1>30. CASE ResendThrows
  BY <1>30 DEF ResendThrows, MayHaveActed, TaskStopped, ScriptSent, Settles
<1>31. CASE CogEmptied
  BY <1>31 DEF CogEmptied, Emptied, After
<1>32. CASE Flushes
  <2>1. /\ UNCHANGED << serving, cmd, hand, at >>
        /\ slider' = 0 /\ async' = "idle"
    BY <1>32 DEF Flushes
  <2>2. answer' = answer \/ \E v : slider # 0 /\ answer' = [answer EXCEPT !["slider"] = v]
    BY <1>32 DEF Flushes
  <2>3. service \in {"write", "writeRest"} /\ Own => answer'[channel] = answer[channel]
    BY <2>2
  <2> QED
    BY <2>1, <2>3
<1>33. CASE RoundAborts
  BY <1>33 DEF RoundAborts, Throwing, MayHaveActed, TaskStopped, ScriptSent
<1>34. CASE TaskChanges
  BY <1>34 DEF TaskChanges
<1>35. CASE Reads
  BY <1>35 DEF Reads
<1>36. CASE PowerOn
  BY <1>36 DEF PowerOn
<1>37. CASE UNCHANGED vars
  BY <1>37
<1> HIDE DEF BufferInv, AnswerInv, vars, Direct
<1> QED
  BY <1>1, <1>2, <1>3, <1>4, <1>5, <1>6, <1>7, <1>8, <1>9, <1>10, <1>11, <1>12, <1>13,
     <1>14, <1>15, <1>16, <1>17, <1>18, <1>19, <1>20, <1>21, <1>22, <1>23, <1>24, <1>25,
     <1>26, <1>27, <1>28, <1>29, <1>30, <1>31, <1>32, <1>33, <1>34, <1>35, <1>36, <1>37
  DEF Next, Service, Async

\* Its flag goes on holding what became of it.
LEMMA AnsweredPreserved == BufferInv /\ AnswerInv /\ [Next]_vars => (Own => Answered)'
<1> SUFFICES ASSUME BufferInv, AnswerInv, [Next]_vars PROVE (Own => Answered)'
  OBVIOUS
<1>0. BufferInv'
  BY TypesPreserved, FreshPreserved DEF BufferInv
<1> USE ChannelsAssumption, RequestsAssumption
    DEF BufferInv, TypeOK, BuffersFresh, vars, serving, thread, arm, done, history, Requests,
        AllChannels, Outputs, Direct, Cells, Flags, Replies, Advance, Leave, Stage, First,
        Second, Halved, Flag,
        Channel, AnswerInv, Own, Places, OnItsChannel, Found, HasChannel, Answered
<1>1. ASSUME NEW c \in Channels, Begins(c) PROVE (Own => Answered)'
  <2> SUFFICES ASSUME Own' PROVE Answered'
    OBVIOUS
  <2>1. /\ UNCHANGED << cmd, async, at, hand, slider, outcome >>
        /\ request' = request + 1 /\ channel' = c /\ c \notin Outputs /\ Quiet(c)
    BY <1>1 DEF Begins
  <2>2. answer'[c] = "waiting"
    BY <1>1, <2>1 DEF Begins, Marked
  <2>3. request' \in Requests /\ outcome[request'] = "none" /\ slider # request'
    BY <1>1, <2>1 DEF Begins
  <2> QED
    BY <2>1, <2>2, <2>3 DEF Quiet
<1>2. CASE Writes
  BY <1>2 DEF Writes
<1>3. CASE WritesRest
  BY <1>3 DEF WritesRest
<1>4. CASE PollEnds
  BY <1>4 DEF PollEnds
<1>5. CASE Concludes
  BY <1>5 DEF Concludes
<1>6. CASE TaskAwaited
  BY <1>6 DEF TaskAwaited
<1>7. CASE TaskDwells
  BY <1>7 DEF TaskDwells
<1>8. CASE RoundBegins
  BY <1>8 DEF RoundBegins
<1>9. ASSUME NEW c \in Outputs, OutputTested(c) PROVE (Own => Answered)'
  BY <1>9 DEF OutputTested, Takes, Settles, Passes
<1>10. ASSUME NEW c \in Outputs, OutputEmptied(c) PROVE (Own => Answered)'
  BY <1>10 DEF OutputEmptied, Emptied
<1>11. ASSUME NEW c \in Outputs, OutputLoads(c) PROVE (Own => Answered)'
  BY <1>11 DEF OutputLoads
<1>12. ASSUME NEW c \in Outputs, OutputStores(c) PROVE (Own => Answered)'
  BY <1>12 DEF OutputStores, After
<1>13. CASE VoltageSent
  BY <1>13 DEF VoltageSent, Settles
<1>14. CASE AnalogTypeTested
  BY <1>14 DEF AnalogTypeTested, Settles
<1>15. CASE AnalogTypeEmptied
  BY <1>15 DEF AnalogTypeEmptied, Emptied
<1>16. CASE AnalogValueTested
  BY <1>16 DEF AnalogValueTested, Takes
<1>17. CASE AnalogEnters
  BY <1>17 DEF AnalogEnters, Settles
<1>18. CASE AnalogRefused
  BY <1>18 DEF AnalogRefused
<1>19. CASE AnalogLoads
  BY <1>19 DEF AnalogLoads
<1>20. CASE OutputsJudged
  BY <1>20 DEF OutputsJudged, After
<1>21. CASE OutputsConfirmed
  BY <1>21 DEF OutputsConfirmed, After
<1>22. CASE SliderTaken
  <2> SUFFICES ASSUME Own' PROVE Answered'
    OBVIOUS
  <2>0. Own
    BY <1>22 DEF SliderTaken
  <2>1. CASE channel = "slider"
    <3>1. /\ cmd["slider"] = request /\ answer["slider"] = "waiting" /\ slider /= request
      BY <1>22, <2>1 DEF SliderTaken
    <3>2. async' = "slider" /\ at' = "clear" /\ request' = request /\ channel' = channel
        /\ cmd' = cmd
      BY <1>22 DEF SliderTaken
    <3>3. \/ slider' = request /\ outcome' = outcome /\ answer' = answer
          \/ slider' = slider /\ outcome'[request] = "no" /\ answer'["slider"] = "no"
      BY <1>22, <3>1 DEF SliderTaken
    <3> QED
      BY <2>0, <2>1, <3>1, <3>2, <3>3
  <2>2. CASE channel /= "slider"
    <3>1. cmd["slider"] /= request /\ async /= channel
      BY <1>22, <2>2 DEF SliderTaken
    <3>2. /\ outcome'[request] = outcome[request] /\ answer'[channel] = answer[channel]
          /\ slider' /= request /\ cmd' = cmd /\ async' = "slider"
          /\ request' = request /\ channel' = channel
      BY <1>22, <2>2, <3>1 DEF SliderTaken
    <3> QED
      BY <2>0, <2>2, <3>1, <3>2
  <2> QED
    BY <2>1, <2>2
<1>23. ASSUME NEW c \in Direct \union {"slider"}, NothingToDo(c) PROVE (Own => Answered)'
  BY <1>23 DEF NothingToDo, After
<1>24. ASSUME NEW c \in Direct \union {"slider"}, CommandTaken(c) PROVE (Own => Answered)'
  BY <1>24 DEF CommandTaken, Pending, Takes
<1>25. ASSUME NEW c \in Direct \union {"slider"}, CommandAnswered(c) PROVE (Own => Answered)'
  BY <1>25 DEF CommandAnswered, Settles, Records, Result
<1>26. ASSUME NEW c \in Direct \union {"slider"}, CommandEmptied(c) PROVE (Own => Answered)'
  BY <1>26 DEF CommandEmptied, Emptied, After
<1>27. CASE ResendStops
  BY <1>27 DEF ResendStops, TaskStopped
<1>28. CASE ResendConfirms
  BY <1>28 DEF ResendConfirms
<1>29. CASE ResendSends
  BY <1>29 DEF ResendSends, ScriptSent, Settles, Records, Result
<1>30. CASE ResendThrows
  BY <1>30 DEF ResendThrows, MayHaveActed, TaskStopped, ScriptSent, Settles
<1>31. CASE CogEmptied
  BY <1>31 DEF CogEmptied, Emptied, After
<1>32. CASE Flushes
  BY <1>32 DEF Flushes, Result
<1>33. CASE RoundAborts
  BY <1>33 DEF RoundAborts, Throwing, MayHaveActed, TaskStopped, ScriptSent
<1>34. CASE TaskChanges
  BY <1>34 DEF TaskChanges
<1>35. CASE Reads
  BY <1>35 DEF Reads
<1>36. CASE PowerOn
  BY <1>36 DEF PowerOn
<1>37. CASE UNCHANGED vars
  BY <1>37
<1> HIDE DEF BufferInv, AnswerInv, vars, Direct
<1> QED
  BY <1>1, <1>2, <1>3, <1>4, <1>5, <1>6, <1>7, <1>8, <1>9, <1>10, <1>11, <1>12, <1>13,
     <1>14, <1>15, <1>16, <1>17, <1>18, <1>19, <1>20, <1>21, <1>22, <1>23, <1>24, <1>25,
     <1>26, <1>27, <1>28, <1>29, <1>30, <1>31, <1>32, <1>33, <1>34, <1>35, <1>36, <1>37
  DEF Next, Service, Async

\* What its handler concluded stands.
LEMMA ConcludedPreserved == BufferInv /\ AnswerInv /\ [Next]_vars => (Own => Concluded)'
<1> SUFFICES ASSUME BufferInv, AnswerInv, [Next]_vars PROVE (Own => Concluded)'
  OBVIOUS
<1>0. BufferInv'
  BY TypesPreserved, FreshPreserved DEF BufferInv
<1> USE ChannelsAssumption, RequestsAssumption
    DEF BufferInv, TypeOK, BuffersFresh, vars, serving, thread, arm, done, history, Requests,
        AllChannels, Outputs, Direct, Cells, Flags, Replies, Advance, Leave, Stage, First,
        Second, Halved, Flag,
        Channel, AnswerInv, Own, Places, HasChannel, Answered, Concluded
<1>1. ASSUME NEW c \in Channels, Begins(c) PROVE (Own => Concluded)'
  BY <1>1 DEF Begins, Marked, Aged
<1>2. CASE Writes
  BY <1>2 DEF Writes
<1>3. CASE WritesRest
  BY <1>3 DEF WritesRest
<1>4. CASE PollEnds
  BY <1>4 DEF PollEnds
<1>5. CASE Concludes
  BY <1>5 DEF Concludes, Success
<1>6. CASE TaskAwaited
  BY <1>6 DEF TaskAwaited
<1>7. CASE TaskDwells
  BY <1>7 DEF TaskDwells
<1>8. CASE RoundBegins
  BY <1>8 DEF RoundBegins
<1>9. ASSUME NEW c \in Outputs, OutputTested(c) PROVE (Own => Concluded)'
  BY <1>9 DEF OutputTested, Takes, Settles, Passes
<1>10. ASSUME NEW c \in Outputs, OutputEmptied(c) PROVE (Own => Concluded)'
  BY <1>10 DEF OutputEmptied, Emptied
<1>11. ASSUME NEW c \in Outputs, OutputLoads(c) PROVE (Own => Concluded)'
  BY <1>11 DEF OutputLoads
<1>12. ASSUME NEW c \in Outputs, OutputStores(c) PROVE (Own => Concluded)'
  BY <1>12 DEF OutputStores, After
<1>13. CASE VoltageSent
  BY <1>13 DEF VoltageSent, Settles
<1>14. CASE AnalogTypeTested
  BY <1>14 DEF AnalogTypeTested, Settles
<1>15. CASE AnalogTypeEmptied
  BY <1>15 DEF AnalogTypeEmptied, Emptied
<1>16. CASE AnalogValueTested
  BY <1>16 DEF AnalogValueTested, Takes
<1>17. CASE AnalogEnters
  BY <1>17 DEF AnalogEnters, Settles
<1>18. CASE AnalogRefused
  BY <1>18 DEF AnalogRefused
<1>19. CASE AnalogLoads
  BY <1>19 DEF AnalogLoads
<1>20. CASE OutputsJudged
  BY <1>20 DEF OutputsJudged, After
<1>21. CASE OutputsConfirmed
  BY <1>21 DEF OutputsConfirmed, After
<1>22. CASE SliderTaken
  BY <1>22 DEF SliderTaken, Takes, Settles
<1>23. ASSUME NEW c \in Direct \union {"slider"}, NothingToDo(c) PROVE (Own => Concluded)'
  BY <1>23 DEF NothingToDo, After
<1>24. ASSUME NEW c \in Direct \union {"slider"}, CommandTaken(c) PROVE (Own => Concluded)'
  BY <1>24 DEF CommandTaken, Pending, Takes
<1>25. ASSUME NEW c \in Direct \union {"slider"}, CommandAnswered(c) PROVE (Own => Concluded)'
  BY <1>25 DEF CommandAnswered, Settles, Records, Result
<1>26. ASSUME NEW c \in Direct \union {"slider"}, CommandEmptied(c) PROVE (Own => Concluded)'
  BY <1>26 DEF CommandEmptied, Emptied, After
<1>27. CASE ResendStops
  BY <1>27 DEF ResendStops, TaskStopped
<1>28. CASE ResendConfirms
  BY <1>28 DEF ResendConfirms
<1>29. CASE ResendSends
  BY <1>29 DEF ResendSends, ScriptSent, Settles, Records, Result
<1>30. CASE ResendThrows
  BY <1>30 DEF ResendThrows, MayHaveActed, TaskStopped, ScriptSent, Settles
<1>31. CASE CogEmptied
  BY <1>31 DEF CogEmptied, Emptied, After
<1>32. CASE Flushes
  BY <1>32 DEF Flushes, Result
<1>33. CASE RoundAborts
  BY <1>33 DEF RoundAborts, Throwing, MayHaveActed, TaskStopped, ScriptSent
<1>34. CASE TaskChanges
  BY <1>34 DEF TaskChanges
<1>35. CASE Reads
  BY <1>35 DEF Reads
<1>36. CASE PowerOn
  BY <1>36 DEF PowerOn
<1>37. CASE UNCHANGED vars
  BY <1>37
<1> HIDE DEF BufferInv, AnswerInv, vars, Direct
<1> QED
  BY <1>1, <1>2, <1>3, <1>4, <1>5, <1>6, <1>7, <1>8, <1>9, <1>10, <1>11, <1>12, <1>13,
     <1>14, <1>15, <1>16, <1>17, <1>18, <1>19, <1>20, <1>21, <1>22, <1>23, <1>24, <1>25,
     <1>26, <1>27, <1>28, <1>29, <1>30, <1>31, <1>32, <1>33, <1>34, <1>35, <1>36, <1>37
  DEF Next, Service, Async

\* What a handler writes is found after it is there, and emptied after it was found.
LEMMA ApartPreserved ==
  BufferInv /\ AnswerInv /\ ApartInv /\ [Next]_vars => AllApart'
<1> SUFFICES ASSUME BufferInv, AnswerInv, ApartInv, [Next]_vars PROVE AllApart'
  OBVIOUS
<1>0. BufferInv'
  BY TypesPreserved, FreshPreserved DEF BufferInv
<1> USE ChannelsAssumption, RequestsAssumption
    DEF BufferInv, TypeOK, BuffersFresh, vars, serving, thread, arm, done, history, Requests,
        AllChannels, Outputs, Direct, Cells, Flags, Replies, Advance, Leave, Stage, First,
        Second, Halved, Flag,
        Channel, AnswerInv, Places, OnItsChannel, ApartInv, AllApart, Apart, Found
<1>1. ASSUME NEW c \in Channels, Begins(c) PROVE AllApart'
  BY <1>1 DEF Begins, Marked, Aged, Quiet
<1>2. CASE Writes
  BY <1>2 DEF Writes
<1>3. CASE WritesRest
  <2>1. /\ UNCHANGED << async, at, hand, settled, crossed, channel >>
        /\ service = "writeRest" /\ service' = "poll" /\ channel \in Halved
        /\ \A d \in Cells : d # Second(channel) => cmd'[d] = cmd[d]
    BY <1>3 DEF WritesRest
  <2>2. \A c \in AllChannels : First(c) \in Cells /\ First(c) # Second(channel)
    BY <2>1
  <2>3. ASSUME "analog" \notin crossed, Stage("analog", "clearType")
        PROVE  cmd'["type"] \in settled["type"] \union {0}
    <3>1. Apart("analog")
      BY <2>3
    <3>2. channel # "analog"
      BY <2>1, <2>3, <3>1
    <3> QED
      BY <2>1, <2>3, <3>1, <3>2
  <2> QED
    BY <2>1, <2>2, <2>3
<1>4. CASE PollEnds
  BY <1>4 DEF PollEnds
<1>5. CASE Concludes
  BY <1>5 DEF Concludes, Success
<1>6. CASE TaskAwaited
  BY <1>6 DEF TaskAwaited
<1>7. CASE TaskDwells
  BY <1>7 DEF TaskDwells
<1>8. CASE RoundBegins
  BY <1>8 DEF RoundBegins
<1>9. ASSUME NEW c \in Outputs, OutputTested(c) PROVE AllApart'
  BY <1>9 DEF OutputTested, Takes, Settles, Passes
<1>10. ASSUME NEW c \in Outputs, OutputEmptied(c) PROVE AllApart'
  BY <1>10 DEF OutputEmptied, Emptied
<1>11. ASSUME NEW c \in Outputs, OutputLoads(c) PROVE AllApart'
  BY <1>11 DEF OutputLoads
<1>12. ASSUME NEW c \in Outputs, OutputStores(c) PROVE AllApart'
  BY <1>12 DEF OutputStores, After
<1>13. CASE VoltageSent
  BY <1>13 DEF VoltageSent, Settles
<1>14. CASE AnalogTypeTested
  BY <1>14 DEF AnalogTypeTested, Settles
<1>15. CASE AnalogTypeEmptied
  BY <1>15 DEF AnalogTypeEmptied, Emptied
<1>16. CASE AnalogValueTested
  BY <1>16 DEF AnalogValueTested, Takes
<1>17. CASE AnalogEnters
  BY <1>17 DEF AnalogEnters, Settles
<1>18. CASE AnalogRefused
  BY <1>18 DEF AnalogRefused
<1>19. CASE AnalogLoads
  BY <1>19 DEF AnalogLoads
<1>20. CASE OutputsJudged
  BY <1>20 DEF OutputsJudged, After
<1>21. CASE OutputsConfirmed
  BY <1>21 DEF OutputsConfirmed, After
<1>22. CASE SliderTaken
  BY <1>22 DEF SliderTaken, Takes, Settles
<1>23. ASSUME NEW c \in Direct \union {"slider"}, NothingToDo(c) PROVE AllApart'
  BY <1>23 DEF NothingToDo, Pending, After
<1>24. ASSUME NEW c \in Direct \union {"slider"}, CommandTaken(c) PROVE AllApart'
  <2>1. /\ async' = c /\ at' = "call" /\ cmd' = cmd /\ service' = service
        /\ channel' = channel /\ crossed' = crossed
        /\ cmd[First(c)] /= 0 /\ (c = "payload" => cmd["cog"] /= 0)
    BY <1>24 DEF CommandTaken, Pending
  <2>2. hand' = cmd[First(c)]
    BY <1>24, <2>1 DEF CommandTaken, Takes
  <2>3. c \notin crossed /\ channel = c => service \notin {"write", "writeRest"}
    BY <1>24, <2>1 DEF CommandTaken, Matched
  <2> QED
    BY <1>24, <2>1, <2>2, <2>3 DEF CommandTaken
<1>25. ASSUME NEW c \in Direct \union {"slider"}, CommandAnswered(c) PROVE AllApart'
  BY <1>25 DEF CommandAnswered, Settles, Records, Result, TaskStopped
<1>26. ASSUME NEW c \in Direct \union {"slider"}, CommandEmptied(c) PROVE AllApart'
  BY <1>26 DEF CommandEmptied, Emptied, After, Matched
<1>27. CASE ResendStops
  BY <1>27 DEF ResendStops, TaskStopped
<1>28. CASE ResendConfirms
  BY <1>28 DEF ResendConfirms, StoppedSeen
<1>29. CASE ResendSends
  BY <1>29 DEF ResendSends, ScriptSent, Settles, Records, Result
<1>30. CASE ResendThrows
  BY <1>30 DEF ResendThrows, MayHaveActed, TaskStopped, ScriptSent, Settles
<1>31. CASE CogEmptied
  BY <1>31 DEF CogEmptied, Emptied, After
<1>32. CASE Flushes
  BY <1>32 DEF Flushes, Result
<1>33. CASE RoundAborts
  BY <1>33 DEF RoundAborts, Throwing, MayHaveActed, TaskStopped, ScriptSent
<1>34. CASE TaskChanges
  BY <1>34 DEF TaskChanges
<1>35. CASE Reads
  BY <1>35 DEF Reads
<1>36. CASE PowerOn
  BY <1>36 DEF PowerOn
<1>37. CASE UNCHANGED vars
  BY <1>37
<1> QED
  BY <1>1, <1>2, <1>3, <1>4, <1>5, <1>6, <1>7, <1>8, <1>9, <1>10, <1>11, <1>12, <1>13,
     <1>14, <1>15, <1>16, <1>17, <1>18, <1>19, <1>20, <1>21, <1>22, <1>23, <1>24, <1>25,
     <1>26, <1>27, <1>28, <1>29, <1>30, <1>31, <1>32, <1>33, <1>34, <1>35, <1>36, <1>37
  DEF Next, Service, Async

\* Mass and centre of gravity are written, taken and emptied as a pair.
LEMMA MatchedPreserved ==
  BufferInv /\ AnswerInv /\ ApartInv /\ [Next]_vars => ("payload" \notin crossed => Matched)'
<1> SUFFICES ASSUME BufferInv, AnswerInv, ApartInv, [Next]_vars
             PROVE  ("payload" \notin crossed => Matched)'
  OBVIOUS
<1>0. BufferInv'
  BY TypesPreserved, FreshPreserved DEF BufferInv
<1> USE ChannelsAssumption, RequestsAssumption
    DEF BufferInv, TypeOK, BuffersFresh, vars, serving, thread, arm, done, history, Requests,
        AllChannels, Outputs, Direct, Cells, Flags, Replies, Advance, Leave, Stage, First,
        Second, Halved, Flag,
        Channel, AnswerInv, Places, OnItsChannel, ApartInv, AllApart, Apart, Found, Matched
<1>1. ASSUME NEW c \in Channels, Begins(c) PROVE ("payload" \notin crossed => Matched)'
  BY <1>1 DEF Begins, Marked, Aged, Quiet
<1>2. CASE Writes
  BY <1>2 DEF Writes
<1>3. CASE WritesRest
  BY <1>3 DEF WritesRest
<1>4. CASE PollEnds
  BY <1>4 DEF PollEnds
<1>5. CASE Concludes
  BY <1>5 DEF Concludes, Success
<1>6. CASE TaskAwaited
  BY <1>6 DEF TaskAwaited
<1>7. CASE TaskDwells
  BY <1>7 DEF TaskDwells
<1>8. CASE RoundBegins
  BY <1>8 DEF RoundBegins
<1>9. ASSUME NEW c \in Outputs, OutputTested(c) PROVE ("payload" \notin crossed => Matched)'
  BY <1>9 DEF OutputTested, Takes, Settles, Passes
<1>10. ASSUME NEW c \in Outputs, OutputEmptied(c) PROVE ("payload" \notin crossed => Matched)'
  BY <1>10 DEF OutputEmptied, Emptied
<1>11. ASSUME NEW c \in Outputs, OutputLoads(c) PROVE ("payload" \notin crossed => Matched)'
  BY <1>11 DEF OutputLoads
<1>12. ASSUME NEW c \in Outputs, OutputStores(c) PROVE ("payload" \notin crossed => Matched)'
  BY <1>12 DEF OutputStores, After
<1>13. CASE VoltageSent
  BY <1>13 DEF VoltageSent, Settles
<1>14. CASE AnalogTypeTested
  BY <1>14 DEF AnalogTypeTested, Settles
<1>15. CASE AnalogTypeEmptied
  BY <1>15 DEF AnalogTypeEmptied, Emptied
<1>16. CASE AnalogValueTested
  BY <1>16 DEF AnalogValueTested, Takes
<1>17. CASE AnalogEnters
  BY <1>17 DEF AnalogEnters, Settles
<1>18. CASE AnalogRefused
  BY <1>18 DEF AnalogRefused
<1>19. CASE AnalogLoads
  BY <1>19 DEF AnalogLoads
<1>20. CASE OutputsJudged
  BY <1>20 DEF OutputsJudged, After
<1>21. CASE OutputsConfirmed
  BY <1>21 DEF OutputsConfirmed, After
<1>22. CASE SliderTaken
  BY <1>22 DEF SliderTaken, Takes, Settles
<1>23. ASSUME NEW c \in Direct \union {"slider"}, NothingToDo(c)
       PROVE  ("payload" \notin crossed => Matched)'
  BY <1>23 DEF NothingToDo, Pending, After
<1>24. ASSUME NEW c \in Direct \union {"slider"}, CommandTaken(c)
       PROVE  ("payload" \notin crossed => Matched)'
  BY <1>24 DEF CommandTaken, Pending, Takes
<1>25. ASSUME NEW c \in Direct \union {"slider"}, CommandAnswered(c)
       PROVE  ("payload" \notin crossed => Matched)'
  BY <1>25 DEF CommandAnswered, Settles, Records, Result, TaskStopped
<1>26. ASSUME NEW c \in Direct \union {"slider"}, CommandEmptied(c)
       PROVE  ("payload" \notin crossed => Matched)'
  BY <1>26 DEF CommandEmptied, Emptied, After
<1>27. CASE ResendStops
  BY <1>27 DEF ResendStops, TaskStopped
<1>28. CASE ResendConfirms
  BY <1>28 DEF ResendConfirms, StoppedSeen
<1>29. CASE ResendSends
  BY <1>29 DEF ResendSends, ScriptSent, Settles, Records, Result
<1>30. CASE ResendThrows
  BY <1>30 DEF ResendThrows, MayHaveActed, TaskStopped, ScriptSent, Settles
<1>31. CASE CogEmptied
  BY <1>31 DEF CogEmptied, Emptied, After
<1>32. CASE Flushes
  BY <1>32 DEF Flushes, Result
<1>33. CASE RoundAborts
  BY <1>33 DEF RoundAborts, Throwing, MayHaveActed, TaskStopped, ScriptSent
<1>34. CASE TaskChanges
  BY <1>34 DEF TaskChanges
<1>35. CASE Reads
  BY <1>35 DEF Reads
<1>36. CASE PowerOn
  BY <1>36 DEF PowerOn
<1>37. CASE UNCHANGED vars
  BY <1>37
<1> QED
  BY <1>1, <1>2, <1>3, <1>4, <1>5, <1>6, <1>7, <1>8, <1>9, <1>10, <1>11, <1>12, <1>13,
     <1>14, <1>15, <1>16, <1>17, <1>18, <1>19, <1>20, <1>21, <1>22, <1>23, <1>24, <1>25,
     <1>26, <1>27, <1>28, <1>29, <1>30, <1>31, <1>32, <1>33, <1>34, <1>35, <1>36, <1>37
  DEF Next, Service, Async

\* After a clean resend saw the arm stopped there is one script, and it is the new one.
LEMMA RenewedPreserved == BufferInv /\ AnswerInv /\ RenewedInv /\ [Next]_vars => RenewedInv'
<1> SUFFICES ASSUME BufferInv, AnswerInv, RenewedInv, [Next]_vars PROVE RenewedInv'
  OBVIOUS
<1>0. BufferInv'
  BY TypesPreserved, FreshPreserved DEF BufferInv
<1> USE ChannelsAssumption, RequestsAssumption
    DEF BufferInv, TypeOK, BuffersFresh, vars, serving, thread, arm, done, history, Requests,
        AllChannels, Outputs, Direct, Cells, Flags, Replies, Advance, Leave, Stage, First,
        Second, Halved, Flag,
        Channel,
        AnswerInv, Own, Places, OnItsChannel, Found, HasChannel, Answered, Concluded, RenewedInv,
        Renewed,
        Scripts
<1>1. ASSUME NEW c \in Channels, Begins(c) PROVE RenewedInv'
  BY <1>1 DEF Begins, Marked, Aged, Quiet
<1>2. CASE Writes
  BY <1>2 DEF Writes
<1>3. CASE WritesRest
  BY <1>3 DEF WritesRest
<1>4. CASE PollEnds
  BY <1>4 DEF PollEnds
<1>5. CASE Concludes
  BY <1>5 DEF Concludes, Success
<1>6. CASE TaskAwaited
  BY <1>6 DEF TaskAwaited
<1>7. CASE TaskDwells
  BY <1>7 DEF TaskDwells
<1>8. CASE RoundBegins
  BY <1>8 DEF RoundBegins
<1>9. ASSUME NEW c \in Outputs, OutputTested(c) PROVE RenewedInv'
  BY <1>9 DEF OutputTested, Takes, Settles, Passes
<1>10. ASSUME NEW c \in Outputs, OutputEmptied(c) PROVE RenewedInv'
  BY <1>10 DEF OutputEmptied, Emptied
<1>11. ASSUME NEW c \in Outputs, OutputLoads(c) PROVE RenewedInv'
  BY <1>11 DEF OutputLoads
<1>12. ASSUME NEW c \in Outputs, OutputStores(c) PROVE RenewedInv'
  BY <1>12 DEF OutputStores, After
<1>13. CASE VoltageSent
  BY <1>13 DEF VoltageSent, Settles
<1>14. CASE AnalogTypeTested
  BY <1>14 DEF AnalogTypeTested, Settles
<1>15. CASE AnalogTypeEmptied
  BY <1>15 DEF AnalogTypeEmptied, Emptied
<1>16. CASE AnalogValueTested
  BY <1>16 DEF AnalogValueTested, Takes
<1>17. CASE AnalogEnters
  BY <1>17 DEF AnalogEnters, Settles
<1>18. CASE AnalogRefused
  BY <1>18 DEF AnalogRefused
<1>19. CASE AnalogLoads
  BY <1>19 DEF AnalogLoads
<1>20. CASE OutputsJudged
  BY <1>20 DEF OutputsJudged, After
<1>21. CASE OutputsConfirmed
  BY <1>21 DEF OutputsConfirmed, After
<1>22. CASE SliderTaken
  <2>1. /\ UNCHANGED << serving, arm, history >> /\ async' = "slider" /\ at' = "clear"
        /\ answer'["resend"] = answer["resend"]
    BY <1>22 DEF SliderTaken
  <2> QED
    BY <2>1
<1>23. ASSUME NEW c \in Direct \union {"slider"}, NothingToDo(c) PROVE RenewedInv'
  BY <1>23 DEF NothingToDo, Pending, After
<1>24. ASSUME NEW c \in Direct \union {"slider"}, CommandTaken(c) PROVE RenewedInv'
  BY <1>24 DEF CommandTaken, Pending, Takes
<1>25. ASSUME NEW c \in Direct \union {"slider"}, CommandAnswered(c) PROVE RenewedInv'
  BY <1>25 DEF CommandAnswered, Settles, Records, Result, TaskStopped
<1>26. ASSUME NEW c \in Direct \union {"slider"}, CommandEmptied(c) PROVE RenewedInv'
  BY <1>26 DEF CommandEmptied, Emptied, After
<1>27. CASE ResendStops
  BY <1>27 DEF ResendStops, TaskStopped
<1>28. CASE ResendConfirms
  <2>1. ~unsettled' => ~unsettled /\ seen = "none"
    BY <1>28, Zenon DEF ResendConfirms, StoppedSeen
  <2>2. /\ UNCHANGED << serving, answer, arm, witness >>
        /\ Stage("resend", "confirm") /\ async' = async /\ at' = "send"
    BY <1>28 DEF ResendConfirms
  <2> QED
    BY <2>1, <2>2
<1>29. CASE ResendSends
  BY <1>29 DEF ResendSends, ScriptSent, Settles, Records, Result
<1>30. CASE ResendThrows
  BY <1>30 DEF ResendThrows, MayHaveActed, TaskStopped, ScriptSent, Settles
<1>31. CASE CogEmptied
  BY <1>31 DEF CogEmptied, Emptied, After
<1>32. CASE Flushes
  <2>1. /\ UNCHANGED << serving, arm, history, at >>
        /\ async' = "idle" /\ answer'["resend"] = answer["resend"]
    BY <1>32 DEF Flushes
  <2> QED
    BY <2>1
<1>33. CASE RoundAborts
  BY <1>33 DEF RoundAborts, Throwing, MayHaveActed, TaskStopped, ScriptSent
<1>34. CASE TaskChanges
  BY <1>34 DEF TaskChanges
<1>35. CASE Reads
  BY <1>35 DEF Reads
<1>36. CASE PowerOn
  BY <1>36 DEF PowerOn
<1>37. CASE UNCHANGED vars
  BY <1>37
<1> HIDE DEF BufferInv, AnswerInv, RenewedInv, vars, Direct
<1> QED
  BY <1>1, <1>2, <1>3, <1>4, <1>5, <1>6, <1>7, <1>8, <1>9, <1>10, <1>11, <1>12, <1>13,
     <1>14, <1>15, <1>16, <1>17, <1>18, <1>19, <1>20, <1>21, <1>22, <1>23, <1>24, <1>25,
     <1>26, <1>27, <1>28, <1>29, <1>30, <1>31, <1>32, <1>33, <1>34, <1>35, <1>36, <1>37
  DEF Next, Service, Async

-----------------------------------------------------------------------------
LEMMA InitEstablishes == Init => BufferInv /\ AnswerInv /\ ApartInv /\ RenewedInv
<1> SUFFICES ASSUME Init PROVE BufferInv /\ AnswerInv /\ ApartInv /\ RenewedInv
  OBVIOUS
<1> USE RequestsAssumption
<1>1. FlagsOK
  BY Zenon DEF Init, FlagsOK
<1>2. TypeOK
  BY <1>1 DEF Init, TypeOK, Requests, Scripts, AllChannels, Outputs, Direct, Cells, Flags, Points
<1>3. BuffersFresh /\ ~twice
  BY DEF Init, BuffersFresh, Requests
<1>4. AnswerInv
  BY DEF Init, AnswerInv, Places, Own, OnItsChannel
<1>5. ApartInv
  BY DEF Init, ApartInv, AllApart, Apart, Matched, Stage, Cells, AllChannels, Outputs, Direct
<1>6. RenewedInv
  BY DEF Init, RenewedInv, Own
<1> QED
  BY <1>2, <1>3, <1>4, <1>5, <1>6 DEF BufferInv

\* In every reachable state the variables have their types, and a command that was dealt
\* with lies in a buffer only between its call and the store that empties the buffer.
THEOREM BuffersInvariant == Spec => []BufferInv
<1>1. Init => BufferInv
  BY InitEstablishes
<1>2. BufferInv /\ [Next]_vars => BufferInv'
  BY TypesPreserved, FreshPreserved DEF BufferInv
<1> QED
  BY <1>1, <1>2, PTL DEF Spec

\* A command whose call returned, or that entered the recipe, is never taken again:
\* NothingTwice, for any number of requests.
THEOREM CarriedOutOnce == Spec => []NothingTwice
<1>1. BufferInv => NothingTwice
  BY DEF BufferInv, NothingTwice
<1> QED
  BY <1>1, BuffersInvariant, PTL

\* In every reachable state a clean request has its channel to itself, and its flag holds
\* what became of it.
THEOREM AnswersInvariant == Spec => []AnswerInv
<1>1. Init => AnswerInv
  BY InitEstablishes
<1>2. BufferInv /\ AnswerInv /\ [Next]_vars => AnswerInv'
  BY PlacesPreserved, HasChannelPreserved, AnsweredPreserved, ConcludedPreserved DEF AnswerInv
<1> QED
  BY <1>1, <1>2, BuffersInvariant, PTL DEF Spec

\* A clean request that is answered in time reports what became of its own command:
\* AnswerIsOwn, for every set of services and any number of requests.
THEOREM AnswersAreOwn == Spec => []AnswerIsOwn
<1>1. BufferInv /\ AnswerInv => AnswerIsOwn
  <2> SUFFICES ASSUME BufferInv, AnswerInv, service = "idle", Own, ~expired
               PROVE  /\ reply = "yes" => outcome[request] = "yes"
                      /\ reply = "no" /\ channel # "resend" => outcome[request] = "no"
    BY DEF AnswerIsOwn
  <2> QED
    BY DEF AnswerInv, Answered, Concluded
<1> QED
  BY <1>1, BuffersInvariant, AnswersInvariant, PTL

\* In every reachable state, a channel whose requests never overlapped has nothing in its
\* buffers that the thread could lose or mix up.
THEOREM ApartInvariant == Spec => []ApartInv
<1>1. Init => ApartInv
  BY InitEstablishes
<1>2. BufferInv /\ AnswerInv /\ ApartInv /\ [Next]_vars => ApartInv'
  <2> SUFFICES ASSUME BufferInv, AnswerInv, ApartInv, [Next]_vars PROVE ApartInv'
    OBVIOUS
  <2>1. AllApart'
    BY ApartPreserved
  <2>2. ("payload" \notin crossed => Matched)'
    BY MatchedPreserved
  <2> QED
    BY <2>1, <2>2 DEF ApartInv
<1> QED
  BY <1>1, <1>2, BuffersInvariant, AnswersInvariant, PTL DEF Spec

\* The arm is given a mass and a centre of gravity of the same request, although they lie in
\* buffers that are written one after the other: PayloadWhole, for any number of requests.
THEOREM PayloadsAreWhole == Spec => []PayloadWhole
<1>1. ApartInv => PayloadWhole
  <2> SUFFICES ASSUME ApartInv, "payload" \notin crossed, Stage("payload", "clear")
               PROVE  half = hand
    BY DEF PayloadWhole
  <2> QED
    BY DEF ApartInv, Matched
<1> QED
  BY <1>1, ApartInvariant, PTL

\* The buffers that a step empties: the one the thread is at, or those the power-on drops.
LEMMA EmptyingSteps ==
  ASSUME TypeOK, Next, NEW cell \in Cells, cmd[cell] /= 0, cmd'[cell] = 0
  PROVE  \/ PowerOn
         \/ Stage(Channel(cell), "clear") /\ cell \notin {"cog", "type"}
         \/ Stage("payload", "clearCog") /\ cell = "cog"
         \/ Stage("analog", "clearType") /\ cell = "type"
         \/ service \in {"write", "writeRest"} /\ request = 0
<1> USE DEF TypeOK, Cells, Channel, AllChannels, Outputs, Direct, Stage, First, serving, thread,
            arm, done, history
<1>1. CASE Service
  <2>1. CASE Writes \/ WritesRest
    BY <2>1 DEF Writes, WritesRest
  <2>2. CASE PollEnds \/ Concludes \/ TaskAwaited \/ TaskDwells
    BY <2>2 DEF PollEnds, Concludes, TaskAwaited, TaskDwells
  <2>3. ASSUME NEW c \in Channels, Begins(c) PROVE FALSE
    BY <2>3 DEF Begins
  <2> QED
    BY <1>1, <2>1, <2>2, <2>3 DEF Service
<1>2. CASE Async
  <2>1. ASSUME NEW c \in Outputs, OutputEmptied(c)
        PROVE  Stage(Channel(cell), "clear") /\ cell \notin {"cog", "type"}
    BY <2>1 DEF OutputEmptied, Emptied
  <2>2. ASSUME NEW c \in Direct \union {"slider"}, CommandEmptied(c)
        PROVE  Stage(Channel(cell), "clear") /\ cell \notin {"cog", "type"}
    BY <2>2 DEF CommandEmptied, Emptied
  <2>3. CASE CogEmptied
    BY <2>3 DEF CogEmptied, Emptied
  <2>4. ASSUME NEW c \in Outputs, OutputTested(c) \/ OutputLoads(c) \/ OutputStores(c)
        PROVE  FALSE
    BY <2>4 DEF OutputTested, OutputLoads, OutputStores
  <2>5. ASSUME NEW c \in Direct \union {"slider"},
               NothingToDo(c) \/ CommandTaken(c) \/ CommandAnswered(c)
        PROVE  FALSE
    BY <2>5 DEF NothingToDo, CommandTaken, CommandAnswered
  <2>6. ASSUME \/ RoundBegins \/ OutputsJudged \/ OutputsConfirmed \/ SliderTaken \/ Flushes
               \/ RoundAborts
        PROVE  FALSE
    BY <2>6 DEF RoundBegins, OutputsJudged, OutputsConfirmed, SliderTaken, Flushes, RoundAborts
  <2>7. ASSUME ResendStops \/ ResendConfirms \/ ResendSends \/ ResendThrows
        PROVE  FALSE
    BY <2>7 DEF ResendStops, ResendConfirms, ResendSends, ResendThrows
  <2>8. CASE AnalogTypeEmptied
    BY <2>8 DEF AnalogTypeEmptied, Emptied
  <2>9. ASSUME \/ AnalogTypeTested \/ AnalogValueTested \/ AnalogEnters \/ AnalogRefused
               \/ AnalogLoads \/ VoltageSent
        PROVE  FALSE
    BY <2>9 DEF AnalogTypeTested, AnalogValueTested, AnalogEnters, AnalogRefused, AnalogLoads,
                VoltageSent
  <2> QED
    BY <1>2, <2>1, <2>2, <2>3, <2>4, <2>5, <2>6, <2>7, <2>8, <2>9 DEF Async
<1>3. CASE TaskChanges \/ Reads
  BY <1>3 DEF TaskChanges, Reads
<1> QED
  BY <1>1, <1>2, <1>3 DEF Next

\* No command leaves its buffer before it was dealt with, but for the power-on, an overlap on its
\* channel, and the digital outputs: NothingDropped, for any number of requests.
THEOREM NothingIsDropped == Spec => NothingDropped
<1> DEFINE Dropless == \A c \in Cells \ {"digital"} :
                         (cmd[c] # 0 /\ cmd'[c] = 0)
                           => \/ cmd[c] \in settled[c]
                              \/ PowerOn
                              \/ Channel(c) \in crossed
<1>1. BufferInv /\ AnswerInv /\ ApartInv /\ [Next]_vars => [Dropless]_vars
  <2> SUFFICES ASSUME BufferInv, AnswerInv, ApartInv, Next,
                      NEW cell \in Cells \ {"digital"}, cmd[cell] /= 0, cmd'[cell] = 0,
                      ~PowerOn, Channel(cell) \notin crossed
               PROVE  cmd[cell] \in settled[cell]
    OBVIOUS
  <2>1. \/ Stage(Channel(cell), "clear") /\ cell \notin {"cog", "type"}
        \/ Stage("payload", "clearCog") /\ cell = "cog"
        \/ Stage("analog", "clearType") /\ cell = "type"
    BY EmptyingSteps DEF BufferInv, TypeOK, AnswerInv, Places
  <2>2. CASE Stage(Channel(cell), "clear") /\ cell \notin {"cog", "type"}
    <3>1. /\ Channel(cell) \in AllChannels \ ({"digital"} \union crossed)
          /\ First(Channel(cell)) = cell
      BY <2>2 DEF Cells, Channel, AllChannels, Outputs, Direct, First
    <3>2. Apart(Channel(cell))
      BY <3>1 DEF ApartInv, AllApart
    <3> QED
      BY <2>2, <3>1, <3>2 DEF Apart
  <2>3. CASE Stage("payload", "clearCog") /\ cell = "cog"
    BY <2>3 DEF ApartInv, Matched, Channel, Stage
  <2>4. CASE Stage("analog", "clearType") /\ cell = "type"
    <3>1. Apart("analog")
      BY <2>4 DEF ApartInv, AllApart, Channel, AllChannels, Outputs
    <3> QED
      BY <2>4, <3>1 DEF Apart
  <2> QED
    BY <2>1, <2>2, <2>3, <2>4
<1> QED
  BY <1>1, BuffersInvariant, AnswersInvariant, ApartInvariant, PTL DEF Spec, NothingDropped

\* In every reachable state, no script older than the one a clean resend sends is left when
\* it saw the arm stopped.
THEOREM RenewedInvariant == Spec => []RenewedInv
<1>1. Init => RenewedInv
  BY InitEstablishes
<1>2. BufferInv /\ AnswerInv /\ RenewedInv /\ [Next]_vars => RenewedInv'
  BY RenewedPreserved
<1> QED
  BY <1>1, <1>2, BuffersInvariant, AnswersInvariant, PTL DEF Spec

\* A resend that reports success saw its own script execute: ResendConfirmed, for any number
\* of requests.
THEOREM ResendsAreConfirmed == Spec => []ResendConfirmed
<1>1. BufferInv /\ AnswerInv /\ RenewedInv => ResendConfirmed
  <2> SUFFICES ASSUME BufferInv, AnswerInv, RenewedInv,
                      service = "idle", channel = "resend", reply = "yes",
                      clean, ~expired, ~unsettled
               PROVE  witness = "new"
    BY DEF ResendConfirmed
  <2> QED
    BY DEF RenewedInv, Renewed, Own, Outputs
<1> QED
  BY <1>1, BuffersInvariant, AnswersInvariant, RenewedInvariant, PTL
=============================================================================
