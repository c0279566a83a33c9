---------------------------- MODULE ClaudeEngine --------------------------
(***************************************************************************)
(* mohae talks to the Claude Code CLI over its standard streams.  One      *)
(* reader goroutine takes the CLI's frames apart: messages go to a bounded *)
(* channel, answers to the control requests that wait for them, control    *)
(* requests of the CLI to handlers of their own.  A query writes its turns *)
(* and holds the CLI's input open while the CLI may still ask; a client    *)
(* writes turns and requests when it likes.  Whoever called closes it all. *)
(*                                                                         *)
(* The CLI is external, as the frames the reader routes presuppose it: a   *)
(* turn ends with a result, the end of a delegated task runs a turn of its *)
(* own, a question is answered or withdrawn, and end of input makes an     *)
(* idle CLI exit.  It reads its input at once, so that a write ends.  What *)
(* messages say, and sessions of more than one run, are left out.          *)
(***************************************************************************)
EXTENDS Naturals, Sequences, FiniteSets

CONSTANTS Entries,    \* ways in: "query" (Query, QueryStream), "client", or "unused"
          UserTurns,      \* user turns that are written
          MaxSpoken,  \* messages of the CLI besides results and tasks
          Requests,   \* control requests of the caller,
          Handshake,  \* of which the first is initialize
          Asks,       \* control requests of the CLI
          Patient,    \* those whose callback need not return until it is cancelled
          Tasks,      \* delegated tasks, of the deferring types
          TurnsMeet,  \* whether the CLI runs a turn for a task that ends in one
          Room,       \* frames the CLI's output pipe holds
          Buffer,     \* messageBufferSize
          Turn        \* asks on behalf of the turn, and not of a task

ASSUME EngineAssumption ==
    /\ Entries \subseteq {"query", "client", "unused"} /\ Patient \subseteq Asks /\ Handshake \in Requests
    /\ TurnsMeet \in BOOLEAN /\ UserTurns \in Nat /\ MaxSpoken \in Nat /\ Room \in Nat \ {0} /\ Buffer \in Nat \ {0}
    /\ Turn \notin Tasks /\ {"no", "over", "withdrawn"} \cap (Tasks \cup {Turn}) = {}

VARIABLES
    \* The CLI and the pipes.
    cli,          \* up, exited, failed or killed
    queued,       \* turns it has to run
    busy,         \* whether it runs one
    task,         \* per task: new, running or over
    asked,        \* per ask: no, who asks, withdrawn or over
    todo,         \* requests it has to answer
    spoken, stdout,
    \* The transport.
    ready, stdin,
    \* The engine.
    pending,      \* requests with an entry in the table
    slot,         \* per request: what its channel of one place holds
    request,      \* per request: where its caller is
    handler,      \* per ask: none, running or over
    cancelled,    \* asks whose handler's context is cancelled
    inflightTask, firstResult, closed, messages,
    reader,       \* reading, emitting, failing (emitting the error) or done
    cause,        \* why the reader ended
    \* The caller.
    entry, needs, caller, writer, written

cliVars == <<cli, queued, busy, task, asked, todo, spoken>>
pipeVars == <<ready, stdin>>
tableVars == <<pending, slot, request>>
handlerVars == <<handler, cancelled>>
holdVars == <<inflightTask, firstResult>>
readerVars == <<messages, reader, cause>>
callerVars == <<entry, needs, caller, closed, writer, written>>
engineVars == <<cliVars, stdout, pipeVars, tableVars, handlerVars, holdVars, readerVars, callerVars>>

EngineInit ==
    /\ entry \in Entries /\ needs \in (IF entry = "unused" THEN {FALSE} ELSE BOOLEAN)
    /\ cli = "up" /\ queued = 0 /\ busy = FALSE /\ spoken = 0 /\ todo = {}
    /\ task = [t \in Tasks |-> "new"] /\ asked = [a \in Asks |-> "no"]
    /\ stdout = <<>> /\ ready = TRUE /\ stdin = "open"
    /\ pending = {} /\ slot = [r \in Requests |-> "empty"] /\ request = [r \in Requests |-> "new"]
    /\ handler = [a \in Asks |-> "none"] /\ cancelled = {}
    /\ inflightTask = {} /\ firstResult = FALSE
    /\ messages = <<>> /\ reader = "reading" /\ cause = "none"
    /\ caller = "connecting" /\ closed = FALSE /\ writer = "off" /\ written = 0

Running == {t \in Tasks : task[t] = "running"}
AskedBy(who) == {a \in Asks : asked[a] = who}
OpenAsks == {a \in Asks : asked[a] \in Tasks \cup {Turn}}

---------------------------------------------------------------------------
\* The CLI.

Says(kind, what) ==
    /\ cli = "up" /\ Len(stdout) < Room
    /\ stdout' = Append(stdout, [kind |-> kind, of |-> what])

Outside == UNCHANGED <<pipeVars, tableVars, handlerVars, holdVars, readerVars, callerVars>>

BeginTurn ==
    /\ cli = "up" /\ ~busy /\ queued > 0
    /\ busy' = TRUE /\ queued' = queued - 1
    /\ UNCHANGED <<cli, task, asked, todo, spoken, stdout>> /\ Outside

\* A message, or a line that is no frame.
Speak ==
    /\ busy /\ spoken < MaxSpoken
    /\ spoken' = spoken + 1
    /\ \E kind \in {"message", "garbled"} : Says(kind, Turn)
    /\ UNCHANGED <<cli, queued, busy, task, asked, todo>> /\ Outside

EndTurn ==
    /\ busy /\ AskedBy(Turn) = {}
    /\ busy' = FALSE
    /\ Says("result", Turn)
    /\ UNCHANGED <<cli, queued, task, asked, todo, spoken>> /\ Outside

StartTask(t) ==
    /\ busy /\ task[t] = "new"
    /\ task' = [task EXCEPT ![t] = "running"]
    /\ Says("task_started", t)
    /\ UNCHANGED <<cli, queued, busy, asked, todo, spoken>> /\ Outside

\* The end of a task runs a turn; the one that is running may do for it.
EndTask(t) ==
    /\ task[t] = "running" /\ AskedBy(t) = {}
    /\ task' = [task EXCEPT ![t] = "over"]
    /\ queued' = IF busy /\ ~TurnsMeet THEN queued ELSE queued + 1
    /\ Says("task_ended", t)
    /\ UNCHANGED <<cli, busy, asked, todo, spoken>> /\ Outside

Ask(a) ==
    /\ needs /\ asked[a] = "no"
    /\ \E who \in Running \cup IF busy THEN {Turn} ELSE {} : asked' = [asked EXCEPT ![a] = who]
    /\ Says("control_request", a)
    /\ UNCHANGED <<cli, queued, busy, task, todo, spoken>> /\ Outside

Withdraw(a) ==
    /\ a \in OpenAsks
    /\ asked' = [asked EXCEPT ![a] = "withdrawn"]
    /\ Says("control_cancel_request", a)
    /\ UNCHANGED <<cli, queued, busy, task, todo, spoken>> /\ Outside

\* A question nobody can answer any more is taken for refused.
LoseInput(a) ==
    /\ cli = "up" /\ stdin = "ended" /\ a \in OpenAsks
    /\ asked' = [asked EXCEPT ![a] = "over"]
    /\ UNCHANGED <<cli, queued, busy, task, todo, spoken, stdout>> /\ Outside

AnswerRequest(r) ==
    /\ r \in todo
    /\ todo' = todo \ {r}
    /\ Says("control_response", r)
    /\ UNCHANGED <<cli, queued, busy, task, asked, spoken>> /\ Outside

Exit ==
    /\ cli = "up" /\ stdin = "ended" /\ ~busy /\ queued = 0 /\ Running = {} /\ todo = {}
    /\ cli' = "exited"
    /\ UNCHANGED <<queued, busy, task, asked, todo, spoken, stdout>> /\ Outside

Crash ==
    /\ cli = "up" /\ cli' = "failed"
    /\ UNCHANGED <<queued, busy, task, asked, todo, spoken, stdout>> /\ Outside

---------------------------------------------------------------------------
\* The transport: a write fails when the input has ended or nobody reads it.

Written == ready /\ cli = "up"
WriteFails == ~Written /\ ready' = FALSE /\ UNCHANGED stdin
EndInput == stdin' = "ended" /\ ready' = FALSE

---------------------------------------------------------------------------
\* The reader.

ReaderEnds(why) == reader' = "done" /\ cause' = why /\ firstResult' = TRUE

\* failAll up to its emit.
FailAll(why) ==
    /\ slot' = [r \in Requests |-> IF r \in pending THEN "error" ELSE slot[r]]
    /\ pending' = {}
    /\ reader' = "failing" /\ cause' = why
    /\ UNCHANGED <<request, messages, holdVars>>

EmitNext == reader' = "emitting" /\ UNCHANGED <<messages, cause>>

DeliverControlResponse(r) ==
    /\ pending' = pending \ {r}
    /\ slot' = IF r \in pending THEN [slot EXCEPT ![r] = "answer"] ELSE slot
    /\ UNCHANGED <<request, handlerVars, holdVars, readerVars>>

SpawnControlHandler(a) ==
    /\ handler' = [handler EXCEPT ![a] = "running"]
    /\ UNCHANGED <<cancelled, tableVars, holdVars, readerVars>>

\* Mutant of CancelHandler: a handler is only cancelled before it runs.
CancelHandlerLate(a) ==
    /\ cancelled' = IF handler[a] = "none" THEN cancelled \cup {a} ELSE cancelled
    /\ UNCHANGED <<handler, tableVars, holdVars, readerVars>>

CancelHandler(a) ==
    /\ cancelled' = IF handler[a] = "running" THEN cancelled \cup {a} ELSE cancelled
    /\ UNCHANGED <<handler, tableVars, holdVars, readerVars>>

\* Mutant of TrackTask: the end of a task is not noticed.
TrackTaskStart(kind, t) ==
    /\ inflightTask' = IF kind = "task_started" THEN inflightTask \cup {t} ELSE inflightTask
    /\ UNCHANGED <<firstResult, tableVars, handlerVars>>
    /\ EmitNext

TrackTask(kind, t) ==
    /\ inflightTask' = IF kind = "task_started" THEN inflightTask \cup {t} ELSE inflightTask \ {t}
    /\ UNCHANGED <<firstResult, tableVars, handlerVars>>
    /\ EmitNext

\* Mutant of NoteResult: any result ends the run.
NoteResultAtOnce ==
    /\ firstResult' = TRUE
    /\ UNCHANGED <<inflightTask, tableVars, handlerVars>>
    /\ EmitNext

NoteResult ==
    /\ firstResult' = (firstResult \/ inflightTask = {})
    /\ UNCHANGED <<inflightTask, tableVars, handlerVars>>
    /\ EmitNext

Route(f) ==
    \/ f.kind = "control_response" /\ DeliverControlResponse(f.of)
    \/ f.kind = "control_request" /\ SpawnControlHandler(f.of)
    \/ f.kind = "control_cancel_request" /\ CancelHandler(f.of)
    \/ f.kind \in {"task_started", "task_ended"} /\ TrackTask(f.kind, f.of)
    \/ f.kind = "result" /\ NoteResult
    \/ f.kind = "message" /\ EmitNext /\ UNCHANGED <<tableVars, handlerVars, holdVars>>
    \/ f.kind = "garbled" /\ FailAll("garbled") /\ UNCHANGED handlerVars

Read ==
    /\ reader = "reading" /\ stdout # <<>>
    /\ stdout' = Tail(stdout)
    /\ UNCHANGED <<cliVars, pipeVars, callerVars>>
    /\ IF closed
       THEN ReaderEnds("closed") /\ UNCHANGED <<tableVars, handlerVars, inflightTask, messages>>
       ELSE Route(Head(stdout))

\* Waiting for a killed process closes its output, read or not.
ReadEnd ==
    /\ reader = "reading" /\ cli # "up"
    /\ stdout = <<>> \/ cli = "killed"
    /\ ready' = FALSE
    /\ UNCHANGED <<cliVars, stdout, stdin, handlerVars, callerVars>>
    /\ IF cli = "exited"
       THEN ReaderEnds("exited") /\ UNCHANGED <<tableVars, inflightTask, messages>>
       ELSE FailAll("failed")

Accepted ==
    /\ messages' = Append(messages, IF reader = "failing" THEN "error" ELSE "item")
    /\ IF reader = "failing" THEN ReaderEnds(cause) ELSE reader' = "reading" /\ UNCHANGED <<cause, firstResult>>

Refused ==
    /\ closed /\ UNCHANGED messages
    /\ ReaderEnds(IF reader = "failing" THEN cause ELSE "closed")

\* Mutant of Emit: the reader waits for room alone.
EmitBlocks ==
    /\ reader \in {"emitting", "failing"}
    /\ Len(messages) < Buffer /\ Accepted
    /\ UNCHANGED <<cliVars, stdout, pipeVars, tableVars, handlerVars, inflightTask, callerVars>>

Emit ==
    /\ reader \in {"emitting", "failing"}
    /\ \/ Len(messages) < Buffer /\ Accepted
       \/ Refused
    /\ UNCHANGED <<cliVars, stdout, pipeVars, tableVars, handlerVars, inflightTask, callerVars>>

---------------------------------------------------------------------------
\* The caller's control requests, each in a goroutine of its own.

Elsewhere == UNCHANGED <<stdout, handlerVars, holdVars, readerVars, callerVars>>
At(r, place) == request' = [request EXCEPT ![r] = place]

Register(r) ==
    /\ request[r] = "new"
    /\ IF r = Handshake THEN caller = "connecting" ELSE entry = "client" /\ caller # "connecting"
    /\ pending' = pending \cup {r} /\ At(r, "made")
    /\ UNCHANGED <<slot, cliVars, pipeVars>> /\ Elsewhere

SendRequest(r) ==
    /\ request[r] = "made"
    /\ \/ /\ Written /\ todo' = todo \cup {r} /\ At(r, "waiting")
          /\ UNCHANGED <<pending, pipeVars>>
       \/ WriteFails /\ pending' = pending \ {r} /\ At(r, "failed") /\ UNCHANGED todo
    /\ UNCHANGED <<slot, cli, queued, busy, task, asked, spoken>> /\ Elsewhere

Take(r) ==
    /\ request[r] = "waiting" /\ slot[r] # "empty"
    /\ At(r, IF slot[r] = "answer" THEN "answered" ELSE "failed")
    /\ slot' = [slot EXCEPT ![r] = "empty"]
    /\ UNCHANGED <<pending, cliVars, pipeVars>> /\ Elsewhere

\* Mutant of GiveUp: the table keeps a request nobody waits for.
GiveUpKeeps(r) ==
    /\ request[r] = "waiting"
    /\ At(r, "failed")
    /\ UNCHANGED <<pending, slot, cliVars, pipeVars>> /\ Elsewhere

\* The timer, the caller's context, or the engine's closing.
GiveUp(r) ==
    /\ request[r] = "waiting"
    /\ At(r, "failed") /\ pending' = pending \ {r}
    /\ UNCHANGED <<slot, cliVars, pipeVars>> /\ Elsewhere

---------------------------------------------------------------------------
\* A handler: its callback returns, and unless cancelled it replies.

HandlerEnds(a) ==
    /\ handler[a] = "running"
    /\ handler' = [handler EXCEPT ![a] = "over"]
    /\ \/ a \in cancelled /\ UNCHANGED <<asked, pipeVars>>
       \/ /\ a \notin cancelled /\ Written
          /\ asked' = [asked EXCEPT ![a] = "over"] /\ UNCHANGED pipeVars
       \/ a \notin cancelled /\ WriteFails /\ UNCHANGED asked
    /\ UNCHANGED <<cli, queued, busy, task, todo, spoken, stdout, cancelled>>
    /\ UNCHANGED <<tableVars, holdVars, readerVars, callerVars>>

---------------------------------------------------------------------------
\* The caller: a query writes its turns in the background and then holds the
\* input open; a client sends a turn when it likes.

Inside == UNCHANGED <<stdout, tableVars, handlerVars, holdVars, readerVars>>

Connected ==
    /\ caller = "connecting" /\ request[Handshake] = "answered"
    /\ caller' = "looping"
    /\ writer' = IF entry = "query" THEN "writing" ELSE "off"
    /\ UNCHANGED <<cliVars, pipeVars, entry, needs, closed, written>> /\ Inside

SendTurn ==
    /\ written < UserTurns /\ ~closed
    /\ writer = "writing" \/ (entry = "client" /\ caller = "looping")
    /\ \/ /\ Written /\ queued' = queued + 1 /\ written' = written + 1
          /\ UNCHANGED <<pipeVars, writer>>
       \/ /\ WriteFails /\ UNCHANGED <<queued, written>>
          /\ writer' = IF writer = "writing" THEN "stopped" ELSE writer
    /\ UNCHANGED <<cli, busy, task, asked, todo, spoken, entry, needs, caller, closed>> /\ Inside

StopWriting ==
    /\ writer = "writing" /\ (written = UserTurns \/ closed)
    /\ writer' = "stopped"
    /\ UNCHANGED <<cliVars, pipeVars, entry, needs, caller, closed, written>> /\ Inside

EndsInput ==
    /\ writer = "stopped"
    /\ (written > 0 /\ needs) => (firstResult \/ closed)
    /\ EndInput /\ writer' = "over"
    /\ UNCHANGED <<cliVars, entry, needs, caller, closed, written>> /\ Inside

\* The caller takes a message; an error ends its loop.
Receive ==
    /\ caller = "looping" /\ messages # <<>>
    /\ messages' = Tail(messages)
    /\ caller' = IF Head(messages) = "error" THEN "leaving" ELSE "looping"
    /\ UNCHANGED <<cliVars, stdout, pipeVars, tableVars, handlerVars, holdVars, reader, cause>>
    /\ UNCHANGED <<entry, needs, closed, writer, written>>

\* The loop ends with the messages, and may be left at any time before.
LoopEnds ==
    /\ caller = "looping" /\ reader = "done" /\ messages = <<>>
    /\ caller' = "leaving"
    /\ UNCHANGED <<cliVars, pipeVars, entry, needs, closed, writer, written>> /\ Inside

Leave ==
    /\ \/ caller = "looping"
       \/ caller = "connecting" /\ request[Handshake] = "failed"
    /\ caller' = "leaving"
    /\ UNCHANGED <<cliVars, pipeVars, entry, needs, closed, writer, written>> /\ Inside

\* A query first waits for its writer, for five seconds at most.
CloseBegins ==
    /\ caller = "leaving"
    /\ caller' = "closing" /\ closed' = TRUE /\ firstResult' = TRUE
    /\ UNCHANGED <<cliVars, stdout, pipeVars, tableVars, handlerVars, inflightTask, readerVars>>
    /\ UNCHANGED <<entry, needs, writer, written>>

CloseTransport ==
    /\ caller = "closing"
    /\ EndInput
    /\ cli' = IF cli = "up" THEN "killed" ELSE cli
    /\ caller' = "joining"
    /\ UNCHANGED <<queued, busy, task, asked, todo, spoken, entry, needs, closed, writer, written>> /\ Inside

\* Close waits five seconds for the reader: CloseEnds shows it needs no timer.
CloseReturns ==
    /\ caller = "joining" /\ reader = "done" /\ \A a \in Asks : handler[a] # "running"
    /\ caller' = "gone"
    /\ UNCHANGED <<cliVars, pipeVars, entry, needs, closed, writer, written>> /\ Inside

---------------------------------------------------------------------------
CLISteps ==
    \/ BeginTurn \/ Speak \/ EndTurn \/ Exit \/ Crash
    \/ \E t \in Tasks : StartTask(t) \/ EndTask(t)
    \/ \E a \in Asks : Ask(a) \/ Withdraw(a) \/ LoseInput(a)
    \/ \E r \in Requests : AnswerRequest(r)
ReaderSteps == Read \/ ReadEnd \/ Emit
WriterSteps == SendTurn \/ StopWriting \/ EndsInput
CallerSteps == Connected \/ Receive \/ LoopEnds \/ CloseBegins \/ CloseTransport \/ CloseReturns

Used == entry # "unused"

EngineNext ==
    /\ Used
    /\ \/ CLISteps \/ ReaderSteps \/ WriterSteps \/ CallerSteps \/ Leave
       \/ \E r \in Requests : Register(r) \/ SendRequest(r) \/ Take(r) \/ GiveUp(r)
       \/ \E a \in Asks : HandlerEnds(a)

EngineSpec == EngineInit /\ [][EngineNext]_engineVars

\* The CLI ends its turns and tasks, answers and exits; goroutines are not
\* starved; the caller's loop goes on.  Nobody need leave it early, ask,
\* withdraw, speak or crash, and no timer need fire but a request's.  Requests
\* take a few steps each, and so fairness to all of them is fairness to each.
EngineFairness ==
    /\ WF_engineVars(Used /\ (BeginTurn \/ EndTurn \/ Exit))
    /\ WF_engineVars(Used /\ \E t \in Tasks : EndTask(t))
    /\ WF_engineVars(Used /\ \E r \in Requests : AnswerRequest(r))
    /\ WF_engineVars(Used /\ \E r \in Requests : Register(r) \/ SendRequest(r) \/ Take(r) \/ GiveUp(r))
    /\ \A a \in Asks :
           /\ WF_engineVars(Used /\ LoseInput(a))
           /\ WF_engineVars(Used /\ HandlerEnds(a) /\ (a \in Patient => a \in cancelled))
    /\ WF_engineVars(Used /\ ReaderSteps)
    /\ WF_engineVars(Used /\ WriterSteps)
    /\ WF_engineVars(Used /\ (CallerSteps \/ (Leave /\ caller = "connecting")))

FairEngineSpec == EngineSpec /\ EngineFairness

---------------------------------------------------------------------------
\* The state is of its type: channels and the pipe hold what they have room for.
EngineTypeOK ==
    /\ cli \in {"up", "exited", "failed", "killed"} /\ busy \in BOOLEAN
    /\ queued \in Nat /\ spoken \in Nat /\ written \in 0..UserTurns /\ Len(stdout) <= Room
    /\ task \in [Tasks -> {"new", "running", "over"}]
    /\ asked \in [Asks -> {"no", "withdrawn", "over", Turn} \cup Tasks]
    /\ todo \subseteq Requests /\ pending \subseteq Requests /\ cancelled \subseteq Asks
    /\ slot \in [Requests -> {"empty", "answer", "error"}]
    /\ request \in [Requests -> {"new", "made", "waiting", "answered", "failed"}]
    /\ handler \in [Asks -> {"none", "running", "over"}]
    /\ inflightTask \subseteq Tasks /\ firstResult \in BOOLEAN /\ closed \in BOOLEAN
    /\ messages \in Seq({"item", "error"}) /\ Len(messages) <= Buffer
    /\ ready \in BOOLEAN /\ stdin \in {"open", "ended"} /\ entry \in Entries /\ needs \in BOOLEAN
    /\ reader \in {"reading", "emitting", "failing", "done"}
    /\ cause \in {"none", "closed", "garbled", "exited", "failed"}
    /\ caller \in {"connecting", "looping", "leaving", "closing", "joining", "gone"}
    /\ writer \in {"off", "writing", "stopped", "over"}

\* A request that waits can be woken: it is in the table, or its channel holds
\* the outcome.  The table has nobody who gave up, and nobody whose channel is
\* full: the reader never blocks on handing an answer over.
RequestsAccounted ==
    \A r \in Requests :
        /\ request[r] \in {"made", "waiting"} => r \in pending \/ slot[r] # "empty"
        /\ r \in pending => request[r] \in {"made", "waiting"} /\ slot[r] = "empty"

\* When the CLI has failed and the reader has seen it, no request is left to
\* its timer of a minute.
FailureWakesAll == cause = "failed" => \A r \in Requests : request[r] = "waiting" => slot[r] # "empty"

\* No request is forgotten, whoever takes it out of the table and when.
NoRequestForgotten == RequestsAccounted /\ FailureWakesAll

\* While the CLI waits for a reply its input is open: the hold outlives every
\* turn and task that may ask, unless the session is over.
InputOpenWhileAsked == OpenAsks # {} /\ stdin = "ended" => closed \/ reader \in {"failing", "done"}

\* A callback that waits for the user, and that nobody has cancelled.
WaitsForUser == \E a \in Patient : handler[a] = "running" /\ a \notin cancelled

\* A query ends: its hold is released, the CLI exits, the reader ends, and the
\* close waits for nobody, except a callback nobody cancels.
QueryEnds == entry = "query" ~> caller = "gone" \/ WaitsForUser

\* Close returns, even when nobody takes messages any more.
CloseEnds == caller = "closing" ~> caller = "gone" \/ WaitsForUser

\* The handler of a question the CLI withdraws ends, whatever its callback does,
\* unless the session is over before the reader has come to it.
WithdrawnEnds ==
    \A a \in Asks :
        asked[a] = "withdrawn" /\ handler[a] = "running"
            ~> handler[a] = "over" \/ closed \/ reader = "done"
===========================================================================
