----------------------------- MODULE AgentsProofs ----------------------------
(***************************************************************************)
(* Proofs about mohae's clients of the two agents, which share no state.   *)
(*                                                                         *)
(* The engine of the Claude client, for any requests, asks and bounds:     *)
(* every control request of the caller is accounted for, and none is left  *)
(* to its timer when the CLI fails.  The first needs nothing but itself    *)
(* and the typing of what travels on the CLI's output; the second rests on *)
(* a failure being final: a process that is not up takes no request.       *)
(*                                                                         *)
(* The client of the codex app-server, for any number of turns and any     *)
(* room in its pipe, queue and channels: a stream is ended by its own      *)
(* turn.  That rests on the order of the notes from the server to the      *)
(* pump, and on the end of every waiting stream being on its way or lost.  *)
(***************************************************************************)
EXTENDS ClaudeEngine, CodexTurns, TLAPS, SequenceTheorems, NaturalsInduction, WellFoundedInduction

FrameKinds == {"message", "garbled", "result", "task_started", "task_ended",
               "control_request", "control_cancel_request", "control_response"}

Frames ==
    {f \in [kind : FrameKinds, of : Tasks \cup Asks \cup Requests \cup {Turn}] :
        /\ f.kind \in {"task_started", "task_ended"} => f.of \in Tasks
        /\ f.kind \in {"control_request", "control_cancel_request"} => f.of \in Asks
        /\ f.kind = "control_response" => f.of \in Requests}

\* The parts of the state: what the CLI has, what the table has, the rest.
CliTyped ==
    /\ cli \in {"up", "exited", "failed", "killed"} /\ busy \in BOOLEAN
    /\ queued \in Nat /\ spoken \in Nat
    /\ stdout \in Seq(Frames) /\ Len(stdout) <= Room
    /\ task \in [Tasks -> {"new", "running", "over"}]
    /\ asked \in [Asks -> {"no", "withdrawn", "over", Turn} \cup Tasks]
    /\ todo \subseteq Requests

TableTyped ==
    /\ pending \subseteq Requests
    /\ slot \in [Requests -> {"empty", "answer", "error"}]
    /\ request \in [Requests -> {"new", "made", "waiting", "answered", "failed"}]
    /\ \A r \in Requests : request[r] = "new" => slot[r] = "empty"

HandlersTyped ==
    /\ handler \in [Asks -> {"none", "running", "over"}] /\ cancelled \subseteq Asks
    /\ inflightTask \subseteq Tasks /\ firstResult \in BOOLEAN

ReaderTyped ==
    /\ messages \in Seq({"item", "error"}) /\ Len(messages) <= Buffer
    /\ reader \in {"reading", "emitting", "failing", "done"}
    /\ cause \in {"none", "closed", "garbled", "exited", "failed"}

CallerTyped ==
    /\ written \in 0..UserTurns /\ closed \in BOOLEAN
    /\ ready \in BOOLEAN /\ stdin \in {"open", "ended"} /\ entry \in Entries /\ needs \in BOOLEAN
    /\ caller \in {"connecting", "looping", "leaving", "closing", "joining", "gone"}
    /\ writer \in {"off", "writing", "stopped", "over"}

Typed == CliTyped /\ TableTyped /\ HandlersTyped /\ ReaderTyped /\ CallerTyped

FailureIsFinal == cause = "failed" => cli # "up"

EInv == Typed /\ RequestsAccounted /\ FailureWakesAll /\ FailureIsFinal

LEMMA EngineBegins == EngineInit => EInv
<1> SUFFICES ASSUME EngineInit PROVE EInv OBVIOUS
<1> USE EngineAssumption DEF EngineInit
<1>1. CliTyped
  <2>1. stdout \in Seq(Frames) /\ Len(stdout) <= Room OBVIOUS
  <2>2. task \in [Tasks -> {"new", "running", "over"}] OBVIOUS
  <2>3. asked \in [Asks -> {"no", "withdrawn", "over", Turn} \cup Tasks] OBVIOUS
  <2>4. todo \subseteq Requests OBVIOUS
  <2> QED BY <2>1, <2>2, <2>3, <2>4 DEF CliTyped
<1>2. TableTyped BY DEF TableTyped
<1>3. HandlersTyped BY DEF HandlersTyped
<1>4. ReaderTyped BY DEF ReaderTyped
<1>5. CallerTyped
  <2>1. needs \in BOOLEAN /\ entry \in Entries OBVIOUS
  <2>2. written \in 0..UserTurns OBVIOUS
  <2> QED BY <2>1, <2>2 DEF CallerTyped
<1>6. RequestsAccounted /\ FailureWakesAll /\ FailureIsFinal
  BY DEF RequestsAccounted, FailureWakesAll, FailureIsFinal
<1> QED BY <1>1, <1>2, <1>3, <1>4, <1>5, <1>6 DEF EInv, Typed

\* Steps that leave the table alone, and the outcome of the reader with it.
LEMMA TableUntouched ==
    ASSUME TableTyped, RequestsAccounted, FailureWakesAll, FailureIsFinal,
           UNCHANGED <<pending, slot, request, cause>>, cli = cli' \/ cli' # "up"
    PROVE  TableTyped' /\ RequestsAccounted' /\ FailureWakesAll' /\ FailureIsFinal'
BY DEF TableTyped, RequestsAccounted, FailureWakesAll, FailureIsFinal

\* A frame is put on the CLI's output.
LEMMA SaysTyped ==
    ASSUME CliTyped, NEW kind, NEW what, Says(kind, what), [kind |-> kind, of |-> what] \in Frames
    PROVE  stdout' \in Seq(Frames) /\ Len(stdout') <= Room
BY EngineAssumption DEF CliTyped, Says

LEMMA CLIKeeps == ASSUME EInv, CLISteps PROVE EInv'
<1> USE EngineAssumption
<1>1. UNCHANGED <<pipeVars, tableVars, handlerVars, holdVars, readerVars, callerVars>>
  BY DEF CLISteps, Outside, BeginTurn, Speak, EndTurn, Exit, Crash, StartTask, EndTask, Ask, Withdraw,
         LoseInput, AnswerRequest
<1>2. HandlersTyped' /\ ReaderTyped' /\ CallerTyped'
  BY <1>1 DEF EInv, Typed, HandlersTyped, ReaderTyped, CallerTyped, pipeVars, handlerVars, holdVars,
              readerVars, callerVars
<1>3. cli' = cli \/ cli' # "up"
  BY DEF CLISteps, BeginTurn, Speak, EndTurn, Exit, Crash, StartTask, EndTask, Ask, Withdraw,
         LoseInput, AnswerRequest
<1>4. TableTyped' /\ RequestsAccounted' /\ FailureWakesAll' /\ FailureIsFinal'
  BY <1>1, <1>3, TableUntouched DEF EInv, Typed, tableVars, readerVars
<1>5. CliTyped'
  <2> USE DEF EInv, Typed
  <2>1. CASE BeginTurn BY <2>1 DEF BeginTurn, CliTyped
  <2>2. CASE Speak
    <3>1. PICK kind \in {"message", "garbled"} : Says(kind, Turn) BY <2>2 DEF Speak
    <3>2. [kind |-> kind, of |-> Turn] \in Frames BY DEF Frames, FrameKinds
    <3> QED BY <2>2, <3>1, <3>2, SaysTyped DEF Speak, CliTyped
  <2>3. CASE EndTurn
    <3>1. [kind |-> "result", of |-> Turn] \in Frames BY DEF Frames, FrameKinds
    <3> QED BY <2>3, <3>1, SaysTyped DEF EndTurn, CliTyped
  <2>4. ASSUME NEW t \in Tasks, StartTask(t) PROVE CliTyped'
    <3>1. [kind |-> "task_started", of |-> t] \in Frames BY DEF Frames, FrameKinds
    <3> QED BY <2>4, <3>1, SaysTyped DEF StartTask, CliTyped
  <2>5. ASSUME NEW t \in Tasks, EndTask(t) PROVE CliTyped'
    <3>1. [kind |-> "task_ended", of |-> t] \in Frames BY DEF Frames, FrameKinds
    <3> QED BY <2>5, <3>1, SaysTyped DEF EndTask, CliTyped
  <2>6. ASSUME NEW a \in Asks, Ask(a) PROVE CliTyped'
    <3>1. [kind |-> "control_request", of |-> a] \in Frames BY DEF Frames, FrameKinds
    <3> QED BY <2>6, <3>1, SaysTyped DEF Ask, CliTyped, Running
  <2>7. ASSUME NEW a \in Asks, Withdraw(a) PROVE CliTyped'
    <3>1. [kind |-> "control_cancel_request", of |-> a] \in Frames BY DEF Frames, FrameKinds
    <3> QED BY <2>7, <3>1, SaysTyped DEF Withdraw, CliTyped
  <2>8. ASSUME NEW a \in Asks, LoseInput(a) PROVE CliTyped' BY <2>8 DEF LoseInput, CliTyped
  <2>9. ASSUME NEW r \in Requests, AnswerRequest(r) PROVE CliTyped'
    <3>1. [kind |-> "control_response", of |-> r] \in Frames BY DEF Frames, FrameKinds
    <3> QED BY <2>9, <3>1, SaysTyped DEF AnswerRequest, CliTyped
  <2>10. CASE Exit \/ Crash BY <2>10 DEF Exit, Crash, CliTyped
  <2> QED BY <2>1, <2>2, <2>3, <2>4, <2>5, <2>6, <2>7, <2>8, <2>9, <2>10 DEF CLISteps
<1> QED BY <1>2, <1>4, <1>5 DEF EInv, Typed

---------------------------------------------------------------------------
\* The reader takes a frame, comes to the end, or hands a message on.

TableInv == TableTyped /\ RequestsAccounted /\ FailureWakesAll /\ FailureIsFinal

LEMMA FailAllKeeps ==
    ASSUME TableInv, NEW why \in {"garbled", "failed"}, FailAll(why), cli' = cli, why = "failed" => cli # "up"
    PROVE  TableInv'
BY DEF TableInv, TableTyped, RequestsAccounted, FailureWakesAll, FailureIsFinal, FailAll

\* An outcome other than failure, with the table as it is.
LEMMA EndKeeps ==
    ASSUME TableInv, UNCHANGED tableVars, cli' = cli, cause' \in {cause, "closed", "exited"}
    PROVE  TableInv'
BY DEF TableInv, TableTyped, RequestsAccounted, FailureWakesAll, FailureIsFinal, tableVars

LEMMA RouteKeeps ==
    ASSUME EInv, NEW f \in Frames, Route(f), cli' = cli
    PROVE  TableInv' /\ HandlersTyped' /\ ReaderTyped'
<1> USE DEF EInv, Typed, TableInv
<1>1. CASE f.kind = "control_response" /\ DeliverControlResponse(f.of)
  <2>1. f.of \in Requests BY <1>1 DEF Frames
  <2>2. TableInv'
    BY <1>1, <2>1 DEF DeliverControlResponse, TableTyped, RequestsAccounted, FailureWakesAll,
                      FailureIsFinal, readerVars
  <2> QED BY <1>1, <2>2 DEF DeliverControlResponse, handlerVars, holdVars, readerVars, HandlersTyped, ReaderTyped
<1>2. CASE f.kind = "control_request" /\ SpawnControlHandler(f.of)
  <2>1. f.of \in Asks BY <1>2 DEF Frames
  <2>2. TableInv' BY <1>2, EndKeeps DEF SpawnControlHandler, readerVars
  <2> QED BY <1>2, <2>1, <2>2 DEF SpawnControlHandler, holdVars, readerVars, HandlersTyped, ReaderTyped
<1>3. CASE f.kind = "control_cancel_request" /\ CancelHandler(f.of)
  <2>1. f.of \in Asks BY <1>3 DEF Frames
  <2>2. TableInv' BY <1>3, EndKeeps DEF CancelHandler, readerVars
  <2> QED BY <1>3, <2>1, <2>2 DEF CancelHandler, holdVars, readerVars, HandlersTyped, ReaderTyped
<1>4. CASE f.kind \in {"task_started", "task_ended"} /\ TrackTask(f.kind, f.of)
  <2>1. f.of \in Tasks BY <1>4 DEF Frames
  <2>2. TableInv' BY <1>4, EndKeeps DEF TrackTask, EmitNext
  <2> QED BY <1>4, <2>1, <2>2 DEF TrackTask, EmitNext, handlerVars, HandlersTyped, ReaderTyped
<1>5. CASE f.kind = "result" /\ NoteResult
  <2>2. TableInv' BY <1>5, EndKeeps DEF NoteResult, EmitNext
  <2> QED BY <1>5, <2>2 DEF NoteResult, EmitNext, handlerVars, HandlersTyped, ReaderTyped
<1>6. CASE f.kind = "message" /\ EmitNext /\ UNCHANGED <<tableVars, handlerVars, holdVars>>
  <2>2. TableInv' BY <1>6, EndKeeps DEF EmitNext
  <2> QED BY <1>6, <2>2 DEF EmitNext, handlerVars, holdVars, HandlersTyped, ReaderTyped
<1>7. CASE f.kind = "garbled" /\ FailAll("garbled") /\ UNCHANGED handlerVars
  <2>2. TableInv' BY <1>7, FailAllKeeps
  <2> QED BY <1>7, <2>2 DEF FailAll, handlerVars, holdVars, HandlersTyped, ReaderTyped
<1> QED BY <1>1, <1>2, <1>3, <1>4, <1>5, <1>6, <1>7 DEF Route

LEMMA ReadKeeps == ASSUME EInv, Read PROVE EInv'
<1> USE DEF EInv, Typed, TableInv
<1>1. /\ stdout # <<>> /\ stdout' = Tail(stdout)
      /\ UNCHANGED <<cliVars, pipeVars, callerVars>>
  BY DEF Read
<1>2. Head(stdout) \in Frames /\ stdout' \in Seq(Frames) /\ Len(stdout') <= Room
  BY <1>1, EngineAssumption DEF CliTyped
<1>3. CliTyped' /\ CallerTyped'
  BY <1>1, <1>2 DEF CliTyped, CallerTyped, cliVars, pipeVars, callerVars
<1>4. CASE closed
  <2>1. ReaderEnds("closed") /\ UNCHANGED <<tableVars, handlerVars, inflightTask, messages>>
    BY <1>4 DEF Read
  <2>2. TableInv' BY <1>1, <2>1, EndKeeps DEF ReaderEnds, cliVars
  <2>3. HandlersTyped' /\ ReaderTyped' BY <2>1 DEF ReaderEnds, handlerVars, HandlersTyped, ReaderTyped
  <2> QED BY <1>3, <2>2, <2>3
<1>5. CASE ~closed
  <2>1. Route(Head(stdout)) BY <1>5 DEF Read
  <2>2. TableInv' /\ HandlersTyped' /\ ReaderTyped' BY <1>1, <1>2, <2>1, RouteKeeps DEF cliVars
  <2> QED BY <1>3, <2>2
<1> QED BY <1>4, <1>5

LEMMA ReadEndKeeps == ASSUME EInv, ReadEnd PROVE EInv'
<1> USE DEF EInv, Typed, TableInv
<1>1. /\ ready' = FALSE /\ cli # "up"
      /\ UNCHANGED <<cliVars, stdout, stdin, handlerVars, callerVars>>
  BY DEF ReadEnd
<1>2. CliTyped' /\ CallerTyped'
  BY <1>1 DEF CliTyped, CallerTyped, cliVars, callerVars
<1>3. CASE cli = "exited"
  <2>1. ReaderEnds("exited") /\ UNCHANGED <<tableVars, inflightTask, messages>> BY <1>3 DEF ReadEnd
  <2>2. TableInv' BY <1>1, <2>1, EndKeeps DEF ReaderEnds, cliVars
  <2>3. HandlersTyped' /\ ReaderTyped' BY <1>1, <2>1 DEF ReaderEnds, handlerVars, HandlersTyped, ReaderTyped
  <2> QED BY <1>2, <2>2, <2>3
<1>4. CASE cli # "exited"
  <2>1. FailAll("failed") BY <1>4 DEF ReadEnd
  <2>2. TableInv' BY <1>1, <2>1, FailAllKeeps DEF cliVars
  <2>3. HandlersTyped' /\ ReaderTyped'
    BY <1>1, <2>1 DEF FailAll, handlerVars, holdVars, HandlersTyped, ReaderTyped
  <2> QED BY <1>2, <2>2, <2>3
<1> QED BY <1>3, <1>4

LEMMA EmitKeeps == ASSUME EInv, Emit PROVE EInv'
<1> USE DEF EInv, Typed, TableInv
<1>1. UNCHANGED <<cliVars, stdout, pipeVars, tableVars, handlerVars, inflightTask, callerVars>> BY DEF Emit
<1>2. CliTyped' /\ CallerTyped'
  BY <1>1 DEF CliTyped, CallerTyped, cliVars, pipeVars, callerVars
<1>3. cause' \in {cause, "closed"} /\ firstResult' \in BOOLEAN
      /\ reader' \in {"reading", "done"}
  BY DEF Emit, Accepted, Refused, ReaderEnds, HandlersTyped, ReaderTyped
<1>4. messages' \in Seq({"item", "error"}) /\ Len(messages') <= Buffer
  <2>1. CASE Len(messages) < Buffer /\ Accepted BY <2>1, EngineAssumption DEF Accepted, ReaderTyped
  <2>2. CASE Refused BY <2>2 DEF Refused, ReaderTyped
  <2> QED BY <2>1, <2>2 DEF Emit
<1>5. TableInv' BY <1>1, <1>3, EndKeeps DEF cliVars
<1>6. HandlersTyped' /\ ReaderTyped' BY <1>1, <1>3, <1>4 DEF handlerVars, HandlersTyped, ReaderTyped
<1> QED BY <1>2, <1>5, <1>6

---------------------------------------------------------------------------
\* The caller's requests, the handlers, and the caller itself.

LEMMA RequestKeeps ==
    ASSUME EInv, NEW r \in Requests, Register(r) \/ SendRequest(r) \/ Take(r) \/ GiveUp(r)
    PROVE  EInv'
<1> USE DEF EInv, Typed, TableInv, At
<1>1. UNCHANGED <<stdout, handlerVars, holdVars, readerVars, callerVars, stdin>>
  BY DEF Register, SendRequest, Take, GiveUp, Elsewhere, pipeVars, WriteFails
<1>2. HandlersTyped' /\ ReaderTyped'
  BY <1>1 DEF handlerVars, holdVars, readerVars, HandlersTyped, ReaderTyped
<1>3. ready' \in BOOLEAN BY DEF Register, SendRequest, Take, GiveUp, pipeVars, WriteFails, CallerTyped
<1>4. CallerTyped' BY <1>1, <1>3 DEF callerVars, CallerTyped
<1>5. CliTyped'
  BY <1>1 DEF Register, SendRequest, Take, GiveUp, cliVars, CliTyped
<1>6. TableInv'
  <2> USE DEF TableTyped, RequestsAccounted, FailureWakesAll, FailureIsFinal
  <2>1. CASE Register(r) BY <1>1, <2>1 DEF Register, cliVars, readerVars
  <2>2. CASE SendRequest(r) BY <1>1, <2>2 DEF SendRequest, Written, WriteFails, readerVars
  <2>3. CASE Take(r) BY <1>1, <2>3 DEF Take, cliVars, readerVars
  <2>4. CASE GiveUp(r) BY <1>1, <2>4 DEF GiveUp, cliVars, readerVars
  <2> QED BY <2>1, <2>2, <2>3, <2>4
<1> QED BY <1>2, <1>4, <1>5, <1>6

LEMMA HandlerKeeps == ASSUME EInv, NEW a \in Asks, HandlerEnds(a) PROVE EInv'
<1> USE DEF EInv, Typed, TableInv
<1>1. /\ handler' = [handler EXCEPT ![a] = "over"]
      /\ UNCHANGED <<cli, queued, busy, task, todo, spoken, stdout, cancelled>>
      /\ UNCHANGED <<tableVars, holdVars, readerVars, callerVars>>
      /\ asked' \in {asked, [asked EXCEPT ![a] = "over"]} /\ stdin' = stdin /\ ready' \in {ready, FALSE}
  BY DEF HandlerEnds, pipeVars, WriteFails
<1>2. CliTyped' BY <1>1 DEF CliTyped
<1>3. TableInv' BY <1>1, EndKeeps DEF readerVars
<1>4. HandlersTyped' BY <1>1 DEF holdVars, HandlersTyped
<1>5. ReaderTyped' /\ CallerTyped' BY ZenonT(60), <1>1 DEF readerVars, callerVars, ReaderTyped, CallerTyped
<1> QED BY <1>2, <1>3, <1>4, <1>5

LEMMA CallerKeeps == ASSUME EInv, WriterSteps \/ CallerSteps \/ Leave PROVE EInv'
<1> USE DEF EInv, Typed, TableInv
<1>1. CASE SendTurn
  <2>1. UNCHANGED <<cli, busy, task, asked, todo, spoken, entry, needs, caller, closed, tableVars,
                    stdout, handlerVars, holdVars, readerVars, stdin>>
    BY <1>1 DEF SendTurn, Inside, pipeVars, WriteFails
  <2>2. queued' \in Nat /\ written' \in 0..UserTurns BY <1>1, EngineAssumption DEF SendTurn, CliTyped, CallerTyped
  <2>3. ready' \in BOOLEAN /\ writer' \in {writer, "stopped"} BY <1>1 DEF SendTurn, pipeVars, WriteFails, CallerTyped
  <2>4. CliTyped' /\ CallerTyped' BY <2>1, <2>2, <2>3 DEF CliTyped, CallerTyped
  <2>5. HandlersTyped' /\ ReaderTyped' BY <2>1 DEF handlerVars, holdVars, readerVars, HandlersTyped, ReaderTyped
  <2>6. TableInv' BY <2>1, EndKeeps DEF readerVars
  <2> QED BY <2>4, <2>5, <2>6
<1>2. CASE Receive
  <2>1. UNCHANGED <<cliVars, stdout, pipeVars, tableVars, handlerVars, holdVars, reader, cause,
                    entry, needs, closed, writer, written>>
    BY <1>2 DEF Receive
  <2>2. messages' \in Seq({"item", "error"}) /\ Len(messages') <= Buffer
    BY <1>2, EngineAssumption DEF Receive, ReaderTyped
  <2>3. caller' \in {"leaving", "looping"} BY <1>2 DEF Receive
  <2>4. CliTyped' /\ CallerTyped' BY <2>1, <2>3 DEF CliTyped, CallerTyped, cliVars, pipeVars
  <2>5. HandlersTyped' /\ ReaderTyped' BY <2>1, <2>2 DEF handlerVars, holdVars, HandlersTyped, ReaderTyped
  <2>6. TableInv' BY <2>1, EndKeeps DEF cliVars
  <2> QED BY <2>4, <2>5, <2>6
<1>3. CASE CloseTransport
  <2>1. UNCHANGED <<queued, busy, task, asked, todo, spoken, stdout, entry, needs, closed, writer, written,
                    tableVars, handlerVars, holdVars, readerVars>>
    BY <1>3 DEF CloseTransport, Inside
  <2>2. /\ cli' = (IF cli = "up" THEN "killed" ELSE cli)
        /\ caller' = "joining" /\ stdin' = "ended" /\ ready' = FALSE
    BY <1>3 DEF CloseTransport, EndInput
  <2>3. CliTyped' /\ CallerTyped' BY <2>1, <2>2 DEF CliTyped, CallerTyped
  <2>4. HandlersTyped' /\ ReaderTyped' BY <2>1 DEF handlerVars, holdVars, readerVars, HandlersTyped, ReaderTyped
  <2>5. TableInv' BY <2>1, <2>2, TableUntouched DEF tableVars, readerVars
  <2> QED BY <2>3, <2>4, <2>5
<1>4. CASE Connected \/ StopWriting \/ EndsInput \/ LoopEnds \/ CloseBegins \/ CloseReturns \/ Leave
  <2>1. /\ UNCHANGED <<cliVars, stdout, tableVars, handlerVars, inflightTask, readerVars, entry, needs, written>>
        /\ firstResult' \in {firstResult, TRUE}
        /\ closed' \in {closed, TRUE} /\ ready' \in {ready, FALSE} /\ stdin' \in {stdin, "ended"}
        /\ caller' \in {caller, "looping", "leaving", "closing", "gone"}
        /\ writer' \in {writer, "writing", "off", "stopped", "over"}
    BY <1>4 DEF Connected, StopWriting, EndsInput, LoopEnds, CloseBegins, CloseReturns, Leave, Inside,
                EndInput, pipeVars, holdVars
  <2>2. CliTyped' BY <2>1 DEF CliTyped, cliVars
  <2>3. CallerTyped' BY ZenonT(60), <2>1 DEF CallerTyped
  <2>4. HandlersTyped' /\ ReaderTyped' BY <2>1 DEF handlerVars, readerVars, HandlersTyped, ReaderTyped
  <2>5. TableInv' BY <2>1, EndKeeps DEF cliVars, readerVars
  <2> QED BY <2>2, <2>3, <2>4, <2>5
<1> QED BY <1>1, <1>2, <1>3, <1>4 DEF WriterSteps, CallerSteps

---------------------------------------------------------------------------
THEOREM EngineInvariant == EngineSpec => []EInv
<1>1. EInv /\ [EngineNext]_engineVars => EInv'
  <2> SUFFICES ASSUME EInv, [EngineNext]_engineVars PROVE EInv' OBVIOUS
  <2>1. CASE EngineNext
    BY <2>1, CLIKeeps, ReadKeeps, ReadEndKeeps, EmitKeeps, RequestKeeps, HandlerKeeps, CallerKeeps
       DEF EngineNext, ReaderSteps
  <2>2. CASE UNCHANGED engineVars
    BY <2>2 DEF EInv, Typed, CliTyped, TableTyped, HandlersTyped, ReaderTyped, CallerTyped, RequestsAccounted,
                FailureWakesAll, FailureIsFinal, engineVars, cliVars, pipeVars, tableVars, handlerVars,
                holdVars, readerVars, callerVars
  <2> QED BY <2>1, <2>2
<1> QED BY <1>1, EngineBegins, PTL DEF EngineSpec

\* The state is of its type: the pipe and the channel of messages hold no more
\* than they have room for, whatever the CLI says.
THEOREM EngineTyping == EngineSpec => []EngineTypeOK
<1>1. EInv => EngineTypeOK
  BY DEF EInv, Typed, CliTyped, TableTyped, HandlersTyped, ReaderTyped, CallerTyped, EngineTypeOK
<1> QED BY <1>1, EngineInvariant, PTL

\* Every request that waits can be woken, the table keeps nobody who does not
\* wait, and the failure of the CLI leaves no request to its timer, for any
\* number of requests under way at once.
THEOREM NoneForgotten == EngineSpec => []NoRequestForgotten
<1>1. EInv => NoRequestForgotten BY DEF EInv, NoRequestForgotten
<1> QED BY <1>1, EngineInvariant, PTL

---------------------------------------------------------------------------
(***************************************************************************)
(* The hold on the CLI's input.  It is released by a result that the       *)
(* reader finds without open tasks, while the CLI may be far ahead of the  *)
(* reader.  What the reader will conclude from the frames that are still   *)
(* on their way is part of the invariant: each result among them either    *)
(* leaves the CLI with nothing to do any more, or comes while the reader   *)
(* knows of a task whose end it has not read.                              *)
(*                                                                         *)
(* This is so for one user turn and one delegated task, where the end of   *)
(* a task never runs two turns.  Otherwise it fails, see the README.       *)
(***************************************************************************)

\* The reader has missed nothing, and goes on.
Following == ~closed /\ reader \in {"reading", "emitting"}

\* Nothing will be asked any more.
Quiet == ~busy /\ queued = 0 /\ Running = {} /\ written = UserTurns

TaskFrame(kind, t) == [kind |-> kind, of |-> t]

\* The reader will know of an open task when it comes to frame i.
Deferred(i) ==
    \E t \in Tasks :
        /\ t \in inflightTask \/ \E j \in 1..i - 1 : stdout[j] = TaskFrame("task_started", t)
        /\ \A j \in 1..i - 1 : stdout[j] # TaskFrame("task_ended", t)

\* Turns and tasks of the CLI: one is run at a time, and who asks is running.
TurnsInOrder ==
    /\ queued <= 1 /\ (busy \/ Running # {} => queued = 0)
    /\ written = 0 => ~busy /\ queued = 0 /\ \A t \in Tasks : task[t] = "new"
    /\ \A a \in Asks : /\ asked[a] = Turn => busy
                       /\ asked[a] \in Tasks => task[asked[a]] = "running"
                       /\ asked[a] \in Tasks \cup {Turn} => needs

\* The input is ended by the writer of a query, after its hold, or by Close.
HoldKept ==
    /\ writer # "off" => entry = "query" /\ caller # "connecting"
    /\ caller \in {"closing", "joining", "gone"} => closed
    /\ stdin = "ended" => closed \/ (writer = "over" /\ (written > 0 /\ needs => firstResult))

TasksFollowed ==
    \A t \in Tasks :
        /\ task[t] = "running" => \/ t \in inflightTask
                                  \/ \E i \in 1..Len(stdout) : stdout[i] = TaskFrame("task_started", t)
        /\ task[t] # "over" => \A i \in 1..Len(stdout) : stdout[i] # TaskFrame("task_ended", t)

ResultsFollowed ==
    /\ \A i \in 1..Len(stdout) : stdout[i].kind = "result" => Quiet \/ Deferred(i)
    /\ firstResult => Quiet

HInv ==
    /\ EInv /\ TurnsInOrder /\ HoldKept
    /\ Following => TasksFollowed /\ ResultsFollowed

\* One user turn and one delegated task, and no turn for a task that ends in one.
OneByOne == UserTurns <= 1 /\ ~TurnsMeet /\ \A t, u \in Tasks : t = u

LEMMA HoldBegins == EngineInit => HInv
<1> SUFFICES ASSUME EngineInit PROVE HInv OBVIOUS
<1>1. EInv BY EngineBegins
<1>2. Running = {} /\ Len(stdout) = 0 BY DEF EngineInit, Running
<1>3. TurnsInOrder BY <1>2, EngineAssumption DEF EngineInit, TurnsInOrder
<1>4. HoldKept BY DEF EngineInit, HoldKept
<1>5. TasksFollowed BY <1>2 DEF EngineInit, TasksFollowed
<1>6. ResultsFollowed BY <1>2 DEF EngineInit, ResultsFollowed
<1> QED BY <1>1, <1>3, <1>4, <1>5, <1>6 DEF HInv

\* A frame more on the CLI's output, with all that were there in their places.
More(f) ==
    /\ Len(stdout') = Len(stdout) + 1 /\ stdout'[Len(stdout) + 1] = f
    /\ \A i \in 1..Len(stdout) : stdout'[i] = stdout[i]

LEMMA SaysMore ==
    ASSUME CliTyped, NEW kind, NEW what, Says(kind, what), [kind |-> kind, of |-> what] \in Frames
    PROVE  More([kind |-> kind, of |-> what]) /\ Len(stdout) \in Nat
<1>1. stdout \in Seq(Frames) /\ stdout' = Append(stdout, [kind |-> kind, of |-> what])
  BY DEF CliTyped, Says
<1> QED BY <1>1 DEF More

\* What the reader knows when it comes to a frame does not depend on later frames.
LEMMA DeferredStays ==
    ASSUME Len(stdout) \in Nat, NEW f, More(f), inflightTask' = inflightTask,
           NEW i \in 1..Len(stdout) + 1
    PROVE  Deferred(i)' <=> Deferred(i)
<1>1. ASSUME NEW j \in 1..i - 1 PROVE stdout'[j] = stdout[j]
  <2>1. j \in 1..Len(stdout) OBVIOUS
  <2> QED BY <2>1 DEF More
<1> QED BY <1>1 DEF Deferred

\* A frame that ends no task, and none changes.
LEMMA TasksStay ==
    ASSUME Len(stdout) \in Nat, TasksFollowed, UNCHANGED <<inflightTask, task>>,
           NEW f, f.kind # "task_ended", More(f)
    PROVE  TasksFollowed'
<1> SUFFICES ASSUME NEW t \in Tasks
             PROVE  /\ task[t] = "running" =>
                          \/ t \in inflightTask
                          \/ \E i \in 1..Len(stdout') : stdout'[i] = TaskFrame("task_started", t)
                    /\ task[t] # "over" => \A i \in 1..Len(stdout') : stdout'[i] # TaskFrame("task_ended", t)
  BY DEF TasksFollowed
<1>1. ASSUME NEW i \in 1..Len(stdout)
      PROVE  i \in 1..Len(stdout') /\ stdout'[i] = stdout[i]
  BY DEF More
<1>2. task[t] = "running" => \/ t \in inflightTask
                             \/ \E i \in 1..Len(stdout) : stdout[i] = TaskFrame("task_started", t)
  BY DEF TasksFollowed
<1>3. ASSUME task[t] # "over", NEW i \in 1..Len(stdout')
      PROVE  stdout'[i] # TaskFrame("task_ended", t)
  <2>1. CASE i = Len(stdout) + 1 BY <2>1 DEF More, TaskFrame
  <2>2. CASE i # Len(stdout) + 1
    <3>1. i \in 1..Len(stdout) BY <2>2 DEF More
    <3> QED BY <1>1, <1>3, <3>1 DEF TasksFollowed
  <2> QED BY <2>1, <2>2
<1> QED BY <1>1, <1>2, <1>3

\* A step of the CLI that says nothing about turns and tasks.
LEMMA OtherSteps ==
    ASSUME CliTyped, TasksFollowed, ResultsFollowed, UNCHANGED <<inflightTask, firstResult, task>>,
           Quiet => Quiet',
           \/ stdout' = stdout
           \/ \E f \in Frames : f.kind \notin {"result", "task_ended"} /\ More(f)
    PROVE  TasksFollowed' /\ ResultsFollowed'
<1>0. Len(stdout) \in Nat BY DEF CliTyped
<1>1. CASE stdout' = stdout
  <2>1. \A i : Deferred(i)' <=> Deferred(i) BY <1>1 DEF Deferred
  <2> QED BY <1>1, <2>1 DEF TasksFollowed, ResultsFollowed
<1>2. ASSUME NEW f \in Frames, f.kind \notin {"result", "task_ended"}, More(f)
      PROVE  TasksFollowed' /\ ResultsFollowed'
  <2>1. TasksFollowed'
    BY <1>0, <1>2, TasksStay
  <2>2. ASSUME NEW i \in 1..Len(stdout'), stdout'[i].kind = "result"
        PROVE  Quiet' \/ Deferred(i)'
    <3>1. i \in 1..Len(stdout) /\ stdout[i].kind = "result" BY <1>0, <1>2, <2>2 DEF More
    <3>2. Deferred(i)' <=> Deferred(i) BY <1>0, <1>2, <3>1, DeferredStays
    <3> QED BY <3>1, <3>2 DEF ResultsFollowed
  <2> QED BY <2>1, <2>2 DEF ResultsFollowed
<1> QED BY <1>1, <1>2

\* A turn ends and leaves a task or nothing.
LEMMA TurnEndFollowed ==
    ASSUME OneByOne, HInv, EndTurn, TasksFollowed, ResultsFollowed
    PROVE  TasksFollowed' /\ ResultsFollowed'
<1> DEFINE f == [kind |-> "result", of |-> Turn]
           n == Len(stdout) + 1
<1>0. CliTyped /\ f \in Frames BY DEF HInv, EInv, Typed, Frames, FrameKinds
<1>1. More(f) /\ Len(stdout) \in Nat BY <1>0, SaysMore DEF EndTurn
<1>2. busy /\ busy' = FALSE /\ UNCHANGED <<queued, task, inflightTask, firstResult, written>>
  BY DEF EndTurn, Outside, holdVars, callerVars
<1>3. queued = 0 /\ written = UserTurns
  BY <1>2, EngineAssumption DEF HInv, TurnsInOrder, OneByOne, EInv, Typed, CallerTyped
<1>4. TasksFollowed' BY <1>1, <1>2, TasksStay
<1>5. ~Quiet BY <1>2 DEF Quiet
<1>6. ASSUME NEW i \in 1..Len(stdout'), stdout'[i].kind = "result"
      PROVE  Quiet' \/ Deferred(i)'
  <2>1. CASE i \in 1..Len(stdout)
    <3>1. Deferred(i)' <=> Deferred(i) BY <1>1, <1>2, <2>1, DeferredStays
    <3> QED BY <1>1, <1>5, <1>6, <2>1, <3>1 DEF ResultsFollowed, More
  <2>2. CASE i = n
    <3>1. CASE Running = {} BY <1>2, <1>3, <3>1 DEF Quiet, Running
    <3>2. CASE Running # {}
      <4>1. PICK t \in Tasks : task[t] = "running" BY <3>2 DEF Running
      <4>2. t \in inflightTask \/ \E j \in 1..n - 1 : stdout[j] = TaskFrame("task_started", t)
        BY <1>1, <4>1 DEF TasksFollowed
      <4>3. \A j \in 1..n - 1 : stdout[j] # TaskFrame("task_ended", t)
        BY <1>1, <4>1 DEF TasksFollowed
      <4>4. Deferred(n) BY <4>2, <4>3 DEF Deferred
      <4> QED BY <1>1, <1>2, <2>2, <4>4, DeferredStays
    <3> QED BY <3>1, <3>2
  <2> QED BY <1>1, <1>6, <2>1, <2>2 DEF More
<1>7. ~firstResult BY <1>5 DEF ResultsFollowed
<1> QED BY <1>2, <1>4, <1>6, <1>7 DEF ResultsFollowed

\* A task starts or ends.
LEMMA TaskFollowed ==
    ASSUME OneByOne, HInv, NEW t \in Tasks, StartTask(t) \/ EndTask(t), TasksFollowed, ResultsFollowed
    PROVE  TasksFollowed' /\ ResultsFollowed'
<1>0. CliTyped BY DEF HInv, EInv, Typed
<1>1. PICK kind \in {"task_started", "task_ended"} :
          /\ Says(kind, t) /\ task' = [task EXCEPT ![t] = IF kind = "task_started" THEN "running" ELSE "over"]
          /\ UNCHANGED <<inflightTask, firstResult>>
  BY DEF StartTask, EndTask, Outside, holdVars
<1>2. TaskFrame(kind, t) \in Frames BY DEF Frames, FrameKinds, TaskFrame
<1>3. More(TaskFrame(kind, t)) /\ Len(stdout) \in Nat BY <1>0, <1>1, <1>2, SaysMore DEF TaskFrame
<1>4. ~Quiet BY DEF StartTask, EndTask, Quiet, Running
<1>5. ~firstResult BY <1>4 DEF ResultsFollowed
<1>6. TasksFollowed'
  <2> SUFFICES ASSUME NEW u \in Tasks
               PROVE  /\ task'[u] = "running" =>
                            \/ u \in inflightTask
                            \/ \E i \in 1..Len(stdout') : stdout'[i] = TaskFrame("task_started", u)
                      /\ task'[u] # "over" => \A i \in 1..Len(stdout') : stdout'[i] # TaskFrame("task_ended", u)
    BY <1>1 DEF TasksFollowed
  <2>1. u = t BY DEF OneByOne
  <2>2. CASE kind = "task_ended" BY <1>0, <1>1, <2>1, <2>2 DEF CliTyped
  <2>3. CASE kind = "task_started"
    <3>1. stdout'[Len(stdout) + 1] = TaskFrame("task_started", u) /\ Len(stdout') = Len(stdout) + 1
      BY <1>3, <2>1, <2>3 DEF More
    <3>2. task[t] # "over" BY <1>0, <1>1, <2>3 DEF StartTask, EndTask, CliTyped
    <3>3. \A i \in 1..Len(stdout) : stdout'[i] # TaskFrame("task_ended", u)
      BY <1>3, <2>1, <3>2 DEF TasksFollowed, More
    <3> QED BY <1>3, <3>1, <3>3 DEF TaskFrame
  <2> QED BY <2>2, <2>3
<1>7. ASSUME NEW i \in 1..Len(stdout'), stdout'[i].kind = "result"
      PROVE  Deferred(i)'
  <2>1. i \in 1..Len(stdout) /\ stdout[i].kind = "result" BY <1>3, <1>7 DEF More, TaskFrame
  <2>2. Deferred(i)' <=> Deferred(i) BY <1>1, <1>3, <2>1, DeferredStays
  <2> QED BY <1>4, <2>1, <2>2 DEF ResultsFollowed
<1> QED BY <1>1, <1>5, <1>6, <1>7 DEF ResultsFollowed

\* No step of the CLI begins anything when it has nothing to do.
LEMMA CLIHolds ==
    ASSUME OneByOne, HInv, CLISteps
    PROVE  HInv'
<1>0. EInv' BY CLIKeeps DEF HInv
<1>1. UNCHANGED <<pipeVars, tableVars, handlerVars, holdVars, readerVars, callerVars>>
  BY DEF CLISteps, Outside, BeginTurn, Speak, EndTurn, Exit, Crash, StartTask, EndTask, Ask, Withdraw,
         LoseInput, AnswerRequest
<1>2. HoldKept'
  BY <1>1 DEF HInv, HoldKept, pipeVars, holdVars, callerVars
<1>3. (Following <=> Following') /\ written' = written /\ needs' = needs
      /\ inflightTask' = inflightTask /\ firstResult' = firstResult
  BY <1>1 DEF Following, readerVars, callerVars, holdVars
<1>4. CliTyped /\ CallerTyped /\ TurnsInOrder BY DEF HInv, EInv, Typed
<1>5. TurnsInOrder'
  <2> USE EngineAssumption DEF TurnsInOrder, CliTyped, Running
  <2>1. CASE BeginTurn BY <1>3, <1>4, <2>1 DEF BeginTurn, OneByOne
  <2>2. CASE Speak \/ Exit \/ Crash BY <1>3, <1>4, <2>2 DEF Speak, Exit, Crash
  <2>3. CASE EndTurn BY <1>3, <1>4, <2>3 DEF EndTurn, AskedBy
  <2>4. ASSUME NEW t \in Tasks, StartTask(t) PROVE TurnsInOrder'
    BY <1>3, <1>4, <2>4 DEF StartTask
  <2>5. ASSUME NEW t \in Tasks, EndTask(t) PROVE TurnsInOrder'
    BY <1>3, <1>4, <2>5 DEF EndTask, AskedBy, OneByOne
  <2>6. ASSUME NEW a \in Asks, Ask(a) PROVE TurnsInOrder'
    BY <1>3, <1>4, <2>6 DEF Ask
  <2>7. ASSUME NEW a \in Asks, Withdraw(a) \/ LoseInput(a) PROVE TurnsInOrder'
    BY <1>3, <1>4, <2>7 DEF Withdraw, LoseInput, OpenAsks
  <2>8. ASSUME NEW r \in Requests, AnswerRequest(r) PROVE TurnsInOrder'
    BY <1>3, <1>4, <2>8 DEF AnswerRequest
  <2> QED BY <2>1, <2>2, <2>3, <2>4, <2>5, <2>6, <2>7, <2>8 DEF CLISteps
<1>6. ASSUME Following PROVE TasksFollowed' /\ ResultsFollowed'
  <2>0. TasksFollowed /\ ResultsFollowed BY <1>6 DEF HInv
  <2>1. CASE BeginTurn
    <3>1. ~Quiet BY <2>1 DEF BeginTurn, Quiet
    <3> QED BY <1>3, <1>4, <2>0, <2>1, <3>1, OtherSteps DEF BeginTurn
  <2>2. CASE EndTurn BY <2>0, <2>2, TurnEndFollowed
  <2>3. CASE \E t \in Tasks : StartTask(t) \/ EndTask(t) BY <2>0, <2>3, TaskFollowed
  <2>4. CASE Exit \/ Crash \/ \E a \in Asks : LoseInput(a)
    <3>1. UNCHANGED <<stdout, task, busy, queued>> BY <2>4 DEF Exit, Crash, LoseInput
    <3>2. Quiet => Quiet' BY <1>3, <3>1 DEF Quiet, Running
    <3> QED BY <1>3, <1>4, <2>0, <3>1, <3>2, OtherSteps
  <2>5. CASE \/ Speak
             \/ \E a \in Asks : Ask(a) \/ Withdraw(a)
             \/ \E r \in Requests : AnswerRequest(r)
    <3>1. UNCHANGED <<task, busy, queued>> BY <2>5 DEF Speak, Ask, Withdraw, AnswerRequest
    <3>2. Quiet => Quiet' BY <1>3, <3>1 DEF Quiet, Running
    <3>3. PICK kind, what : Says(kind, what) /\ [kind |-> kind, of |-> what] \in Frames
                            /\ kind \notin {"result", "task_ended"}
      BY <2>5 DEF Speak, Ask, Withdraw, AnswerRequest, Frames, FrameKinds
    <3>4. More([kind |-> kind, of |-> what]) BY <1>4, <3>3, SaysMore
    <3>5. \E f \in Frames : f.kind \notin {"result", "task_ended"} /\ More(f) BY <3>3, <3>4
    <3> QED BY <1>3, <1>4, <2>0, <3>1, <3>2, <3>5, OtherSteps
  <2> QED BY <2>1, <2>2, <2>3, <2>4, <2>5 DEF CLISteps
<1> QED BY <1>0, <1>2, <1>3, <1>5, <1>6 DEF HInv

---------------------------------------------------------------------------
\* The reader takes a frame: all that follow move up.
LEMMA FrameFollowed ==
    ASSUME OneByOne, EInv, TasksFollowed, ResultsFollowed, stdout # <<>>, stdout' = Tail(stdout),
           UNCHANGED <<cliVars, callerVars>>, Route(Head(stdout)), reader' # "failing"
    PROVE  TasksFollowed' /\ ResultsFollowed'
<1> DEFINE f == Head(stdout)
<1>0. stdout \in Seq(Frames) BY DEF EInv, Typed, CliTyped
<1>1. /\ Len(stdout) \in Nat \ {0} /\ f = stdout[1] /\ f \in Frames
      /\ Len(stdout') = Len(stdout) - 1
      /\ \A i \in 1..Len(stdout') : stdout'[i] = stdout[i + 1]
  BY <1>0
<1>2. Quiet' <=> Quiet BY DEF Quiet, Running, cliVars, callerVars
<1>3. task' = task BY DEF cliVars
<1>4. inflightTask' = IF f.kind = "task_started" THEN inflightTask \cup {f.of}
                      ELSE IF f.kind = "task_ended" THEN inflightTask \ {f.of} ELSE inflightTask
  BY <1>1 DEF Route, DeliverControlResponse, SpawnControlHandler, CancelHandler, TrackTask, NoteResult,
         FailAll, holdVars
<1>5. firstResult' = IF f.kind = "result" THEN firstResult \/ inflightTask = {} ELSE firstResult
  BY <1>1 DEF Route, DeliverControlResponse, SpawnControlHandler, CancelHandler, TrackTask, NoteResult,
         FailAll, holdVars
<1>6. ASSUME NEW t \in Tasks, f.kind \in {"task_started", "task_ended"}
      PROVE  f = TaskFrame(f.kind, t)
  <2>1. f.of = t BY <1>1, <1>6 DEF Frames, OneByOne
  <2> QED BY <1>1, <2>1 DEF Frames, TaskFrame
<1>7. TasksFollowed'
  <2> SUFFICES ASSUME NEW t \in Tasks
               PROVE  /\ task[t] = "running" =>
                            \/ t \in inflightTask'
                            \/ \E i \in 1..Len(stdout') : stdout'[i] = TaskFrame("task_started", t)
                      /\ task[t] # "over" => \A i \in 1..Len(stdout') : stdout'[i] # TaskFrame("task_ended", t)
    BY <1>3 DEF TasksFollowed
  <2>1. ASSUME task[t] # "over" PROVE \A i \in 1..Len(stdout') : stdout'[i] # TaskFrame("task_ended", t)
    BY <1>1, <2>1 DEF TasksFollowed
  <2>2. ASSUME task[t] = "running"
        PROVE  \/ t \in inflightTask'
               \/ \E i \in 1..Len(stdout') : stdout'[i] = TaskFrame("task_started", t)
    <3>1. f.kind # "task_ended" BY <1>1, <1>6, <2>2 DEF TasksFollowed
    <3>2. CASE t \in inflightTask BY <1>4, <3>1, <3>2
    <3>3. CASE t \notin inflightTask
      <4>1. PICK i \in 1..Len(stdout) : stdout[i] = TaskFrame("task_started", t)
        BY <2>2, <3>3 DEF TasksFollowed
      <4>2. CASE i = 1 BY <1>1, <1>4, <4>1, <4>2 DEF TaskFrame
      <4>3. CASE i # 1
        <5>1. i - 1 \in 1..Len(stdout') /\ (i - 1) + 1 = i BY <1>1, <4>3
        <5> QED BY <1>1, <4>1, <5>1
      <4> QED BY <4>2, <4>3
    <3> QED BY <3>2, <3>3
  <2> QED BY <2>1, <2>2
<1>8. ASSUME NEW i \in 1..Len(stdout'), stdout'[i].kind = "result", ~Quiet
      PROVE  Deferred(i)'
  <2>1. i + 1 \in 1..Len(stdout) /\ stdout[i + 1].kind = "result" BY <1>1, <1>8
  <2>2. Deferred(i + 1) BY <1>8, <2>1 DEF ResultsFollowed
  <2>3. PICK t \in Tasks :
            /\ t \in inflightTask \/ \E j \in 1..(i + 1) - 1 : stdout[j] = TaskFrame("task_started", t)
            /\ \A j \in 1..(i + 1) - 1 : stdout[j] # TaskFrame("task_ended", t)
    BY <2>2 DEF Deferred
  <2>4. (i + 1) - 1 = i /\ 1 \in 1..i BY <1>1
  <2>5. f.kind # "task_ended" BY <1>1, <1>6, <2>3, <2>4
  <2>6. \A j \in 1..i - 1 : j + 1 \in 1..i /\ stdout'[j] = stdout[j + 1] BY <1>1
  <2>7. \A j \in 1..i - 1 : stdout'[j] # TaskFrame("task_ended", t) BY <2>3, <2>4, <2>6
  <2>8. t \in inflightTask' \/ \E j \in 1..i - 1 : stdout'[j] = TaskFrame("task_started", t)
    <3>1. CASE t \in inflightTask BY <1>4, <2>5, <3>1
    <3>2. CASE t \notin inflightTask
      <4>1. PICK j \in 1..i : stdout[j] = TaskFrame("task_started", t) BY <2>3, <2>4, <3>2
      <4>2. CASE j = 1 BY <1>1, <1>4, <4>1, <4>2 DEF TaskFrame
      <4>3. CASE j # 1
        <5>1. j - 1 \in 1..i - 1 /\ (j - 1) + 1 = j BY <1>1, <4>3
        <5> QED BY <2>6, <4>1, <5>1
      <4> QED BY <4>2, <4>3
    <3> QED BY <3>1, <3>2
  <2> QED BY <2>7, <2>8 DEF Deferred
<1>9. ASSUME firstResult' PROVE Quiet
  <2>1. CASE firstResult BY <2>1 DEF ResultsFollowed
  <2>2. CASE ~firstResult
    <3>1. f.kind = "result" /\ inflightTask = {} BY <1>5, <1>9, <2>2
    <3>2. Quiet \/ Deferred(1) BY <1>1, <3>1 DEF ResultsFollowed
    <3>3. ~Deferred(1) BY <3>1 DEF Deferred
    <3> QED BY <3>2, <3>3
  <2> QED BY <2>1, <2>2
<1> QED BY <1>2, <1>7, <1>8, <1>9 DEF ResultsFollowed

LEMMA ReadHolds == ASSUME OneByOne, HInv, Read PROVE HInv'
<1>0. EInv' BY ReadKeeps DEF HInv
<1>1. /\ stdout # <<>> /\ stdout' = Tail(stdout)
      /\ UNCHANGED <<cliVars, pipeVars, callerVars>> /\ reader = "reading"
  BY DEF Read
<1>2. TurnsInOrder' BY <1>1 DEF HInv, TurnsInOrder, Running, cliVars, callerVars
<1>3. firstResult => firstResult'
  BY DEF HInv, EInv, Typed, HandlersTyped, Read, ReaderEnds, Route, DeliverControlResponse, SpawnControlHandler,
         CancelHandler, TrackTask, NoteResult, FailAll, holdVars
<1>4. HoldKept' BY <1>1, <1>3 DEF HInv, HoldKept, pipeVars, callerVars
<1>5. ASSUME Following' PROVE TasksFollowed' /\ ResultsFollowed'
  <2>1. ~closed /\ reader' # "failing" BY <1>1, <1>5 DEF Following, callerVars
  <2>2. Route(Head(stdout)) BY <2>1 DEF Read
  <2>3. TasksFollowed /\ ResultsFollowed BY <1>1, <2>1 DEF HInv, Following
  <2> QED BY <1>1, <2>1, <2>2, <2>3, FrameFollowed DEF HInv
<1> QED BY <1>0, <1>2, <1>4, <1>5 DEF HInv

\* Steps that take nothing from the CLI's output and give it no turn.
LEMMA OthersHold ==
    ASSUME HInv, EInv', UNCHANGED <<stdout, busy, queued, task, inflightTask, written, needs, entry>>,
           asked' = asked \/ \E a \in Asks : asked' = [asked EXCEPT ![a] = "over"],
           closed => closed', firstResult => firstResult',
           Following' => Following /\ firstResult' = firstResult, HoldKept'
    PROVE  HInv'
<1>1. TurnsInOrder'
  <2>1. TurnsInOrder /\ asked \in [Asks -> {"no", "withdrawn", "over", Turn} \cup Tasks]
    BY DEF HInv, EInv, Typed, CliTyped
  <2>2. "over" # Turn /\ "over" \notin Tasks BY EngineAssumption
  <2>3. \A a \in Asks : asked'[a] = asked[a] \/ asked'[a] = "over"
    BY <2>1
  <2>4. Running' = Running BY DEF Running
  <2> QED BY <2>1, <2>2, <2>3, <2>4, Zenon DEF TurnsInOrder
<1>2. ASSUME Following' PROVE TasksFollowed' /\ ResultsFollowed'
  <2>1. TasksFollowed /\ ResultsFollowed /\ firstResult' = firstResult BY <1>2 DEF HInv
  <2>2. \A i : Deferred(i)' <=> Deferred(i) BY DEF Deferred
  <2>3. Quiet' <=> Quiet BY DEF Quiet, Running
  <2> QED BY <2>1, <2>2, <2>3 DEF TasksFollowed, ResultsFollowed
<1> QED BY <1>1, <1>2 DEF HInv

LEMMA ReaderHolds == ASSUME HInv, ReadEnd \/ Emit PROVE HInv'
<1>0. EInv' BY ReadEndKeeps, EmitKeeps DEF HInv
<1>1. UNCHANGED <<cliVars, stdout, stdin, callerVars, inflightTask>>
  BY DEF ReadEnd, Emit, ReaderEnds, FailAll, pipeVars, holdVars
<1>2. firstResult' = firstResult \/ (firstResult' = TRUE /\ reader' = "done")
  BY DEF ReadEnd, Emit, ReaderEnds, FailAll, Accepted, Refused, holdVars
<1>3. reader' \in {"failing", "done"} \/ (reader = "emitting" /\ reader' = "reading")
  BY DEF ReadEnd, Emit, ReaderEnds, FailAll, Accepted, Refused
<1>4. firstResult => firstResult' BY <1>2
<1>5. HoldKept' BY <1>1, <1>4 DEF HInv, HoldKept, callerVars
<1>6. Following' => Following /\ firstResult' = firstResult BY <1>1, <1>2, <1>3 DEF Following, callerVars
<1>7. UNCHANGED <<stdout, busy, queued, task, inflightTask, written, needs, entry, asked, closed>>
  BY <1>1 DEF cliVars, callerVars
<1> QED BY <1>0, <1>4, <1>5, <1>6, <1>7, OthersHold

LEMMA RequestHolds ==
    ASSUME HInv, \/ \E r \in Requests : Register(r) \/ SendRequest(r) \/ Take(r) \/ GiveUp(r)
                 \/ \E a \in Asks : HandlerEnds(a)
    PROVE  HInv'
<1>0. EInv' BY RequestKeeps, HandlerKeeps DEF HInv
<1>1. UNCHANGED <<stdout, busy, queued, task, holdVars, readerVars, callerVars, stdin>>
  BY DEF Register, SendRequest, Take, GiveUp, Elsewhere, HandlerEnds, cliVars, pipeVars, WriteFails
<1>2. asked' = asked \/ \E a \in Asks : asked' = [asked EXCEPT ![a] = "over"]
  BY DEF Register, SendRequest, Take, GiveUp, HandlerEnds, cliVars
<1>3. HoldKept' BY <1>1 DEF HInv, HoldKept, callerVars, holdVars
<1>4. UNCHANGED <<stdout, busy, queued, task, inflightTask, firstResult, reader, written, needs, entry, closed>>
  BY <1>1 DEF holdVars, readerVars, callerVars
<1>5. Following' => Following /\ firstResult' = firstResult BY <1>4 DEF Following
<1> QED BY <1>0, <1>2, <1>3, <1>4, <1>5, OthersHold

LEMMA CallerHolds == ASSUME OneByOne, HInv, WriterSteps \/ CallerSteps \/ Leave PROVE HInv'
<1>0. EInv' BY CallerKeeps DEF HInv
<1>1. CASE SendTurn
  <2>1. UNCHANGED <<busy, task, asked, entry, needs, caller, closed, stdout, inflightTask, firstResult, reader, stdin>>
    BY <1>1 DEF SendTurn, Inside, pipeVars, WriteFails, holdVars, readerVars
  <2>2. CASE UNCHANGED <<queued, written>>
    <3>1. HoldKept' BY <1>1, <2>1, <2>2 DEF HInv, HoldKept, SendTurn
    <3>2. Following' => Following BY <2>1 DEF Following
    <3> QED BY <1>0, <2>1, <2>2, <3>1, <3>2, OthersHold
  <2>3. CASE queued' = queued + 1 /\ written' = written + 1 /\ UNCHANGED <<pipeVars, writer>>
    <3>1. written = 0 /\ UserTurns = 1 /\ written' = 1
      BY <1>1, <2>3, EngineAssumption DEF SendTurn, OneByOne, HInv, EInv, Typed, CallerTyped
    <3>2. ~busy /\ queued = 0 /\ \A t \in Tasks : task[t] = "new"
      BY <3>1 DEF HInv, TurnsInOrder
    <3>3. TurnsInOrder' BY <2>1, <2>3, <3>1, <3>2 DEF HInv, TurnsInOrder, Running
    <3>4. writer # "over" BY <1>1 DEF SendTurn, HInv, HoldKept
    <3>5. HoldKept' BY <2>1, <2>3, <3>4 DEF HInv, HoldKept
    <3>6. ~Quiet BY <3>1 DEF Quiet
    <3>7. ASSUME Following PROVE TasksFollowed' /\ ResultsFollowed'
      <4>1. TasksFollowed /\ ResultsFollowed BY <3>7 DEF HInv
      <4>2. \A i : Deferred(i)' <=> Deferred(i) BY <2>1 DEF Deferred
      <4> QED BY <2>1, <3>6, <4>1, <4>2 DEF TasksFollowed, ResultsFollowed
    <3>8. Following' <=> Following BY <2>1 DEF Following
    <3> QED BY <1>0, <3>3, <3>5, <3>7, <3>8 DEF HInv
  <2> QED BY <1>1, <2>2, <2>3 DEF SendTurn
<1>2. CASE EndsInput
  <2>1. UNCHANGED <<cliVars, stdout, entry, needs, caller, closed, written, holdVars, reader>>
    BY <1>2 DEF EndsInput, Inside, readerVars
  <2>2. writer = "stopped" /\ writer' = "over" /\ ((written > 0 /\ needs) => (firstResult \/ closed))
    BY <1>2 DEF EndsInput
  <2>3. HoldKept' BY <2>1, <2>2 DEF HInv, HoldKept, holdVars
  <2>4. UNCHANGED <<stdout, busy, queued, task, inflightTask, firstResult, written, needs, entry, asked, closed>>
    BY <2>1 DEF cliVars, holdVars
  <2>5. Following' => Following BY <2>1 DEF Following
  <2> QED BY <1>0, <2>3, <2>4, <2>5, OthersHold
<1>3. CASE CloseBegins \/ CloseTransport
  <2>1. UNCHANGED <<stdout, busy, queued, task, inflightTask, written, needs, entry, asked, writer>>
    BY <1>3 DEF CloseBegins, CloseTransport, Inside, cliVars, holdVars
  <2>2. closed' /\ firstResult => firstResult' BY <1>3 DEF CloseBegins, CloseTransport, Inside, holdVars
  <2>3. closed'
    BY <1>3 DEF CloseBegins, CloseTransport, HInv, HoldKept
  <2>4. HoldKept' BY <1>3, <2>1, <2>3 DEF HInv, HoldKept, CloseBegins, CloseTransport
  <2>5. ~Following' BY <2>3 DEF Following
  <2> QED BY <1>0, <2>1, <2>2, <2>3, <2>4, <2>5, OthersHold
<1>4. CASE Connected \/ StopWriting \/ Receive \/ LoopEnds \/ CloseReturns \/ Leave
  <2>1. UNCHANGED <<cliVars, stdout, pipeVars, holdVars, reader, entry, needs, closed, written>>
    BY <1>4 DEF Connected, StopWriting, Receive, LoopEnds, CloseReturns, Leave, Inside, readerVars
  <2>2. /\ caller' \in {"closing", "joining", "gone"} => caller \in {"closing", "joining", "gone"}
        /\ writer' # "off" => entry = "query" /\ caller' # "connecting"
        /\ writer = "over" => writer' = "over"
    BY <1>4 DEF Connected, StopWriting, Receive, LoopEnds, CloseReturns, Leave, HInv, HoldKept
  <2>3. HoldKept' BY <2>1, <2>2 DEF HInv, HoldKept, pipeVars, holdVars
  <2>4. UNCHANGED <<stdout, busy, queued, task, inflightTask, firstResult, written, needs, entry, asked, closed>>
    BY <2>1 DEF cliVars, holdVars
  <2>5. Following' => Following BY <2>1 DEF Following
  <2> QED BY <1>0, <2>3, <2>4, <2>5, OthersHold
<1> QED BY <1>1, <1>2, <1>3, <1>4 DEF WriterSteps, CallerSteps

LEMMA NoAskOverEnd == ASSUME HInv PROVE InputOpenWhileAsked
<1> SUFFICES ASSUME OpenAsks # {}, stdin = "ended", ~closed, reader \notin {"failing", "done"} PROVE FALSE
  BY DEF InputOpenWhileAsked
<1>1. Following BY DEF Following, HInv, EInv, Typed, ReaderTyped
<1>2. PICK a \in Asks : asked[a] \in Tasks \cup {Turn} BY DEF OpenAsks
<1>3. needs /\ (busy \/ Running # {})
  BY <1>2, EngineAssumption DEF HInv, TurnsInOrder, Running
<1>4. written > 0 BY <1>3 DEF HInv, EInv, Typed, CallerTyped, TurnsInOrder, Running
<1>5. firstResult BY <1>3, <1>4 DEF HInv, HoldKept
<1>6. Quiet BY <1>1, <1>5 DEF HInv, ResultsFollowed
<1> QED BY <1>3, <1>6 DEF Quiet

\* While the CLI waits for a reply its input is open, for any number of
\* questions, whatever room the pipe and the channel have, and however far the
\* reader is behind: with one user turn and one delegated task.
THEOREM InputHeld ==
    ASSUME OneByOne
    PROVE  EngineSpec => []InputOpenWhileAsked
<1>1. HInv /\ [EngineNext]_engineVars => HInv'
  <2> SUFFICES ASSUME HInv, [EngineNext]_engineVars PROVE HInv' OBVIOUS
  <2>1. CASE EngineNext
    BY <2>1, CLIHolds, ReadHolds, ReaderHolds, RequestHolds, CallerHolds DEF EngineNext, ReaderSteps
  <2>2. CASE UNCHANGED engineVars
    <3>1. EInv'
      BY <2>2 DEF HInv, EInv, Typed, CliTyped, TableTyped, HandlersTyped, ReaderTyped, CallerTyped,
                  RequestsAccounted, FailureWakesAll, FailureIsFinal, engineVars, cliVars, pipeVars, tableVars,
                  handlerVars, holdVars, readerVars, callerVars
    <3>2. UNCHANGED <<stdout, busy, queued, task, inflightTask, firstResult, written, needs, entry, asked, closed,
                      reader, caller, writer, stdin>>
      BY <2>2 DEF engineVars, cliVars, pipeVars, holdVars, readerVars, callerVars
    <3>3. HoldKept' BY <3>2 DEF HInv, HoldKept
    <3>4. Following' => Following BY <3>2 DEF Following
    <3> QED BY <3>1, <3>2, <3>3, <3>4, OthersHold
  <2> QED BY <2>1, <2>2
<1>2. HInv => InputOpenWhileAsked BY NoAskOverEnd
<1> QED BY <1>1, <1>2, HoldBegins, PTL DEF EngineSpec

---------------------------------------------------------------------------
(***************************************************************************)
(* The client of the codex app-server.  A turn that was started is named   *)
(* by its own events or by its answer, in the order of the turns, as long  *)
(* as no turn before it was given up.                                      *)
(***************************************************************************)
NoteKinds == {"started", "completed"}
Notes == [kind : NoteKinds, turn : Turns]
Messages == [kind : NoteKinds \cup {"approval", "response"}, turn : Turns]

\* Notes are told in this order: turn by turn, the end after the beginning.
Rank(n) == 2 * n.turn + (IF n.kind = "completed" THEN 1 ELSE 0)
Before(m, n) == m.kind \in NoteKinds /\ n.kind \in NoteKinds => Rank(m) < Rank(n)

TurnsTyped == TurnsTypeOK /\ line \in Seq(Messages) /\ queue \in Seq(Notes)

Started(t) == start[t] \in {"waiting", "returned", "failed"}
Streaming(t) == start[t] \in {"made", "waiting", "returned"}

\* Callers start one turn after the other.
CallersInOrder ==
    \A t, u \in Turns : u < t /\ start[t] # "new" => start[u] \in {"returned", "failed"}

\* So the server is asked for them in their order, and it begins a turn when
\* it has completed the one before.
ServerInOrder ==
    /\ \A i \in 1..Len(taken) :
           /\ Started(taken[i])
           /\ active \in Turns => active < taken[i]
           /\ \A x \in told : x[1] < taken[i]
           /\ \A j \in 1..Len(taken) : i < j => taken[i] < taken[j]
    /\ active \in Turns => Started(active) /\ <<active, "completed">> \notin told
    /\ \A x \in told :
           /\ Started(x[1])
           /\ x[1] = active \/ <<x[1], "completed">> \in told
           /\ active \in Turns => x[1] <= active

\* Only what the server said is on its way.
OnlyTold ==
    /\ \A i \in 1..Len(line) : <<line[i].turn, line[i].kind>> \in told
    /\ \A i \in 1..Len(queue) : <<queue[i].turn, queue[i].kind>> \in told
    /\ hand # <<>> => <<hand[1].note.turn, hand[1].note.kind>> \in told
    /\ \A t \in Turns : t \in answers \/ start[t] = "returned" => <<t, "response">> \in told

\* Notes stay in their order on the way to the pump.
InOrder ==
    /\ \A i, j \in 1..Len(line) : i < j => Before(line[i], line[j])
    /\ \A i, j \in 1..Len(queue) : i < j => Before(queue[i], queue[j])
    /\ \A i \in 1..Len(queue), j \in 1..Len(line) : Before(queue[i], line[j])
    /\ hand # <<>> =>
           /\ \A j \in 1..Len(queue) : Before(hand[1].note, queue[j])
           /\ \A j \in 1..Len(line) : Before(hand[1].note, line[j])

\* No turn before s was given up.
Clean(s) == \A u \in 1..(s - 1) : outcome[u] # "abandoned" /\ start[u] # "failed"

\* A stream that waits for its turn to end.
Live(s) == Clean(s) /\ start[s] = "returned" /\ outcome[s] = "none" /\ subscribed

InStreams(s) == \E i \in 1..Len(streams) : streams[i] = s

StreamsKnown ==
    /\ \A i \in 1..Len(streams) : Streaming(streams[i])
    /\ \A i, j \in 1..Len(streams) : streams[i] = streams[j] => i = j
    /\ \A t \in Turns :
           /\ start[t] = "new" => named[t] = Unnamed /\ outcome[t] = "none"
           /\ start[t] = "returned" => named[t] # Unnamed
           /\ Streaming(t) /\ outcome[t] = "none" /\ subscribed => InStreams(t)
    /\ hand # <<>> => start[hand[1].to] # "new"
    \* A stream has the name of another turn only if it is later and that one is over.
    /\ \A x, w \in Turns :
           x # w /\ named[x] = w => w < x /\ start[w] \in {"returned", "failed"} /\ ~Live(w)

\* The completion of s is still to come out of the pump, and for s.
EndToCome(s) ==
    \/ \E i \in 1..Len(line) : line[i] = [kind |-> "completed", turn |-> s]
    \/ \E i \in 1..Len(queue) : queue[i] = [kind |-> "completed", turn |-> s]
    \/ hand # <<>> /\ hand[1] = [note |-> [kind |-> "completed", turn |-> s], to |-> s]

\* Nothing of s is to come any more.
NoneLeft(s) ==
    /\ <<s, "completed">> \in told
    /\ \A i \in 1..Len(line) : line[i].turn = s => line[i].kind \notin NoteKinds
    /\ \A i \in 1..Len(queue) : queue[i].turn # s
    /\ hand # <<>> => hand[1].note.turn # s

\* What holds of a stream of the thread when no turn before it was given up.
StreamSound(s) ==
    /\ named[s] \in {Unnamed, s}
    /\ outcome[s] \in {"none", "own", "foreign", "abandoned"}
    /\ outcome[s] \in {"own", "foreign"} => NoneLeft(s)
    /\ outcome[s] = "foreign" => s \in lost
    /\ outcome[s] = "none" /\ s \notin lost /\ <<s, "completed">> \in told => EndToCome(s)
    /\ hand # <<>> /\ hand[1].to = s /\ outcome[s] = "none" /\ hand[1].note.turn # s =>
           s \in lost /\ s < hand[1].note.turn

StreamsSound == subscribed => \A s \in Turns : Streaming(s) /\ Clean(s) => StreamSound(s)

\* When the thread has shut down, its streams have got to know, and no turn is started.
ShutIsOver ==
    ~subscribed => ~open /\ \A s \in Turns : start[s] \in {"waiting", "returned"} => outcome[s] # "none"

OwnOrExcused ==
    \A s \in Turns : start[s] \in {"waiting", "returned"} /\ outcome[s] = "foreign" => s \in lost \/ ~Clean(s)

TurnsInv ==
    /\ TurnsTyped /\ CallersInOrder /\ ServerInOrder /\ OnlyTold /\ InOrder
    /\ StreamsKnown /\ StreamsSound /\ ShutIsOver /\ OwnOrExcused

TurnsSpec == TurnsInit /\ [][TurnsNext]_turnsVars

---------------------------------------------------------------------------
(* Sequences.                                                              *)

LEMMA SmallestOf == ASSUME NEW T, T \subseteq Nat, T # {} PROVE \E n \in T : \A k \in T : n <= k
<1>1. \E n \in T : \A k \in T : <<k, n>> \notin OpToRel(<, Nat)
  BY NatLessThanWellFounded, WFMin, Zenon
<1>2. PICK n \in T : \A k \in T : <<k, n>> \notin OpToRel(<, Nat) BY <1>1
<1>3. ASSUME NEW k \in T, k < n PROVE FALSE
  <2>1. <<k, n>> \in Nat \X Nat BY <1>2
  <2>2. <<k, n>> \in OpToRel(<, Nat) BY <2>1, <1>3 DEF OpToRel
  <2> QED BY <2>2, <1>2
<1>4. ASSUME NEW k \in T PROVE n <= k
  <2>1. k \in Nat /\ n \in Nat /\ ~(k < n) BY <1>3
  <2> QED BY <2>1
<1> QED BY <1>4

\* The stream that is found has the name.
LEMMA FirstHasName ==
    ASSUME NEW s \in Seq(Turns), NEW u, Holds(s, u)
    PROVE  \E i \in 1..Len(s) : FirstNamed(s, u) = s[i] /\ named[s[i]] = u
<1> DEFINE T == {i \in 1..Len(s) : named[s[i]] = u}
           Fits(i) == named[s[i]] = u /\ \A j \in 1..(i - 1) : named[s[j]] # u
<1>1. T \subseteq Nat /\ T # {} BY LenProperties DEF Holds
<1>2. PICK n \in T : \A k \in T : n <= k
  <2> HIDE DEF T
  <2> QED BY <1>1, SmallestOf
<1>3. n \in 1..Len(s) /\ Fits(n)
  <2>1. n \in 1..Len(s) /\ Len(s) \in Nat BY <1>2, LenProperties
  <2>2. ASSUME NEW j \in 1..(n - 1), named[s[j]] = u PROVE FALSE
    <3>1. j \in T /\ j < n BY <2>1, <2>2
    <3> QED BY <3>1, <1>2, <2>1
  <2> QED BY <1>2, <2>1, <2>2
<1>4. \E i \in 1..Len(s) : Fits(i) BY <1>3
<1>5. FirstNamed(s, u) = s[CHOOSE i \in 1..Len(s) : Fits(i)] BY DEF FirstNamed
<1> HIDE DEF Fits
<1>6. (CHOOSE i \in 1..Len(s) : Fits(i)) \in 1..Len(s) /\ Fits(CHOOSE i \in 1..Len(s) : Fits(i)) BY <1>4
<1> QED BY <1>5, <1>6 DEF Fits

\* What is left when t is taken out of a sequence that has it at most once.
LEMMA TakenOut ==
    ASSUME NEW s \in Seq(Turns), NEW t, \A i, j \in 1..Len(s) : s[i] = s[j] => i = j
    PROVE  /\ Without(s, t) \in Seq(Turns)
           /\ \A i, j \in 1..Len(Without(s, t)) : Without(s, t)[i] = Without(s, t)[j] => i = j
           /\ \A u : (\E i \in 1..Len(Without(s, t)) : Without(s, t)[i] = u)
                         <=> u # t /\ \E i \in 1..Len(s) : s[i] = u
<1> DEFINE w == Without(s, t)
<1>0. Len(s) \in Nat BY LenProperties
<1>1. CASE ~\E j \in 1..Len(s) : s[j] = t
  <2>1. w = s BY <1>1 DEF Without
  <2> QED BY <1>1, <2>1
<1>2. CASE \E j \in 1..Len(s) : s[j] = t
  <2> DEFINE k == CHOOSE i \in 1..Len(s) : s[i] = t
  <2>1. k \in 1..Len(s) /\ s[k] = t BY <1>2
  <2>2. w = SubSeq(s, 1, k - 1) \o SubSeq(s, k + 1, Len(s)) BY <1>2 DEF Without
  <2> HIDE DEF k, w
  <2>3. SubSeq(s, 1, k - 1) \in Seq(Turns) /\ Len(SubSeq(s, 1, k - 1)) = k - 1
        /\ \A i \in 1..(k - 1) : SubSeq(s, 1, k - 1)[i] = s[i]
    BY <1>0, <2>1, SubSeqProperties
  <2>4. SubSeq(s, k + 1, Len(s)) \in Seq(Turns) /\ Len(SubSeq(s, k + 1, Len(s))) = Len(s) - k
        /\ \A i \in 1..(Len(s) - k) : SubSeq(s, k + 1, Len(s))[i] = s[k + i]
    BY <1>0, <2>1, SubSeqProperties
  <2>5. /\ w \in Seq(Turns) /\ Len(w) = Len(s) - 1
        /\ \A i \in 1..(k - 1) : w[i] = s[i]
        /\ \A i \in k..(Len(s) - 1) : w[i] = s[i + 1]
    <3> DEFINE a == SubSeq(s, 1, k - 1)
               b == SubSeq(s, k + 1, Len(s))
    <3>1. a \in Seq(Turns) /\ b \in Seq(Turns) /\ w = a \o b BY <2>2, <2>3, <2>4
    <3>2. /\ Len(a) = k - 1 /\ \A i \in 1..(k - 1) : a[i] = s[i]
          /\ Len(b) = Len(s) - k /\ \A i \in 1..(Len(s) - k) : b[i] = s[k + i]
      BY <2>3, <2>4
    <3> HIDE DEF a, b
    <3>3. w \in Seq(Turns) /\ Len(w) = Len(s) - 1 BY <1>0, <2>1, <3>1, <3>2, ConcatProperties
    <3>4. \A i \in 1..(k - 1) : w[i] = s[i] BY <1>0, <2>1, <3>1, <3>2, ConcatProperties
    <3>5. ASSUME NEW i \in k..(Len(s) - 1) PROVE w[i] = s[i + 1]
      <4>1. i - (k - 1) \in 1..(Len(s) - k) /\ k + (i - (k - 1)) = i + 1 BY <1>0, <2>1
      <4>2. w[i] = b[i - (k - 1)] BY <1>0, <2>1, <3>1, <3>2, ConcatProperties
      <4> QED BY <3>2, <4>1, <4>2
    <3> QED BY <3>3, <3>4, <3>5
  <2>6. \A i \in 1..Len(w) : w[i] = IF i < k THEN s[i] ELSE s[i + 1] BY <1>0, <2>1, <2>5
  <2>7. ASSUME NEW i \in 1..Len(w), NEW j \in 1..Len(w), w[i] = w[j] PROVE i = j
    <3>1. (IF i < k THEN i ELSE i + 1) \in 1..Len(s) /\ (IF j < k THEN j ELSE j + 1) \in 1..Len(s)
      BY <1>0, <2>1, <2>5
    <3>2. s[IF i < k THEN i ELSE i + 1] = s[IF j < k THEN j ELSE j + 1] BY <2>6, <2>7
    <3>3. (IF i < k THEN i ELSE i + 1) = (IF j < k THEN j ELSE j + 1) BY <3>1, <3>2
    <3> QED BY <3>3, <2>1, <2>5, <1>0
  <2>8. ASSUME NEW u, NEW i \in 1..Len(w), w[i] = u PROVE u # t /\ \E j \in 1..Len(s) : s[j] = u
    <3>1. (IF i < k THEN i ELSE i + 1) \in 1..Len(s) /\ (IF i < k THEN i ELSE i + 1) # k
      BY <1>0, <2>1, <2>5
    <3>2. u = s[IF i < k THEN i ELSE i + 1] BY <2>6, <2>8
    <3> QED BY <2>1, <3>1, <3>2
  <2>9. ASSUME NEW u, u # t, NEW i \in 1..Len(s), s[i] = u PROVE \E j \in 1..Len(w) : w[j] = u
    <3>1. i # k BY <2>1, <2>9
    <3>2. (IF i < k THEN i ELSE i - 1) \in 1..Len(w) BY <1>0, <2>1, <2>5, <3>1
    <3>3. w[IF i < k THEN i ELSE i - 1] = s[i] BY <1>0, <2>1, <2>5, <2>6, <3>1, <3>2
    <3> QED BY <2>9, <3>2, <3>3
  <2> QED BY <2>5, <2>7, <2>8, <2>9 DEF w
<1> QED BY <1>1, <1>2

\* One element at the end, or none at the beginning.
LEMMA OneMore ==
    ASSUME NEW S, NEW s \in Seq(S), NEW e \in S
    PROVE  /\ Append(s, e) \in Seq(S) /\ Len(Append(s, e)) = Len(s) + 1 /\ Len(s) \in Nat
           /\ \A i \in 1..Len(s) : Append(s, e)[i] = s[i]
           /\ Append(s, e)[Len(s) + 1] = e
BY AppendProperties, LenProperties

LEMMA OneLess ==
    ASSUME NEW S, NEW s \in Seq(S), s # <<>>
    PROVE  /\ Head(s) = s[1] /\ Head(s) \in S /\ Tail(s) \in Seq(S)
           /\ Len(Tail(s)) = Len(s) - 1 /\ Len(s) \in Nat /\ Len(s) >= 1
           /\ \A i \in 1..Len(Tail(s)) : i + 1 \in 1..Len(s) /\ Tail(s)[i] = s[i + 1]
BY HeadTailProperties, LenProperties, EmptySeq

---------------------------------------------------------------------------
(* The first state, and steps that change little.                          *)

LEMMA TurnsBegin == TurnsInit => TurnsInv
<1> SUFFICES ASSUME TurnsInit PROVE TurnsInv OBVIOUS
<1> USE TurnsAssumption DEF TurnsInit
<1>0. <<>> \in Seq(Turns) /\ <<>> \in Seq(Messages) /\ <<>> \in Seq(Notes) /\ Len(<<>>) = 0
      /\ <<>> \in Seq([note : [kind : {"started", "completed"}, turn : Turns], to : Turns])
  BY EmptySeq
<1>1. TurnsTyped
  <2>1. server \in {"up", "dead"} /\ active \in Turns \cup {Unnamed} /\ taken \in Seq(Turns)
        /\ told \subseteq Turns \X {"started", "approval", "completed", "response"}
    BY <1>0
  <2>2. Len(line) <= LineRoom /\ Len(queue) <= QueueRoom /\ Len(hand) <= 1 BY <1>0
  <2>3. /\ closing \in {"unused", "no", "waiting", "returned"}
        /\ events \in [Turns -> 0..EventRoom] /\ named \in [Turns -> Turns \cup {Unnamed}]
        /\ handlers \in [Turns -> {"none", "spawned", "registered", "over"}]
        /\ outcome \in [Turns -> {"none", "own", "foreign", "closed", "failed", "abandoned"}]
        /\ start \in [Turns -> {"new", "made", "waiting", "returned", "failed"}]
    OBVIOUS
  <2> QED BY <1>0, <2>1, <2>2, <2>3 DEF TurnsTyped, TurnsTypeOK
<1>2. CallersInOrder BY DEF CallersInOrder
<1>3. ServerInOrder BY <1>0 DEF ServerInOrder, Turns
<1>4. OnlyTold BY <1>0 DEF OnlyTold
<1>5. InOrder BY <1>0 DEF InOrder
<1>6. StreamsKnown BY <1>0 DEF StreamsKnown, Streaming, Turns
<1>7. StreamsSound BY DEF StreamsSound, Streaming
<1>8. ShutIsOver BY DEF ShutIsOver
<1>9. OwnOrExcused BY DEF OwnOrExcused
<1> QED BY <1>1, <1>2, <1>3, <1>4, <1>5, <1>6, <1>7, <1>8, <1>9 DEF TurnsInv

LEMMA QuietTurns ==
    ASSUME TurnsInv, TurnsTyped', open' => open,
           UNCHANGED <<taken, active, told, start, line, queue, hand, answers, streams,
                       named, outcome, subscribed, lost>>
    PROVE  TurnsInv'
BY DEF TurnsInv, CallersInOrder, ServerInOrder, OnlyTold, InOrder, Before, Rank, StreamsKnown, StreamsSound,
   StreamSound, ShutIsOver, OwnOrExcused, Started, Streaming, Clean, Live, InStreams, EndToCome, NoneLeft

\* The parts that are about callers, streams and turns, when none of these change.
LEMMA QuietStreams ==
    ASSUME TurnsInv, UNCHANGED <<start, streams, named, outcome, subscribed, hand>>, open' => open
    PROVE  CallersInOrder' /\ StreamsKnown' /\ ShutIsOver'
BY DEF TurnsInv, CallersInOrder, StreamsKnown, ShutIsOver, Streaming, Live, Clean, InStreams

LEMMA TurnIds == Unnamed \notin Turns /\ Turns \subseteq Nat
BY TurnsAssumption DEF Turns

LEMMA LittleSteps ==
    ASSUME TurnsInv,
           \/ Dies \/ StreamEnded \/ Closes \/ CloseIsOver
           \/ \E t \in Turns : RegistersPrompt(t) \/ HandlerReturns(t) \/ Receives(t)
    PROVE  TurnsInv'
<1> USE DEF serverVars, transportVars, promptVars, streamVars, threadVars, Apart
<1>1. TurnsTyped BY DEF TurnsInv
<1>2. CASE Dies BY <1>1, <1>2, QuietTurns DEF Dies, TurnsTyped, TurnsTypeOK
<1>3. CASE StreamEnded BY <1>1, <1>3, QuietTurns DEF StreamEnded, Fatal, TurnsTyped, TurnsTypeOK
<1>4. CASE Closes BY <1>1, <1>4, QuietTurns DEF Closes, Fatal, TurnsTyped, TurnsTypeOK
<1>5. CASE CloseIsOver BY <1>1, <1>5, QuietTurns DEF CloseIsOver, TurnsTyped, TurnsTypeOK
<1>6. ASSUME NEW t \in Turns, RegistersPrompt(t) PROVE TurnsInv'
  BY <1>1, <1>6, QuietTurns DEF RegistersPrompt, TurnsTyped, TurnsTypeOK
<1>7. ASSUME NEW t \in Turns, HandlerReturns(t) PROVE TurnsInv'
  BY <1>1, <1>7, QuietTurns DEF HandlerReturns, TurnsTyped, TurnsTypeOK
<1>8. ASSUME NEW t \in Turns, Receives(t) PROVE TurnsInv'
  BY <1>1, <1>8, QuietTurns, TurnsAssumption DEF Receives, TurnsTyped, TurnsTypeOK
<1> QED BY <1>2, <1>3, <1>4, <1>5, <1>6, <1>7, <1>8

---------------------------------------------------------------------------
(* The server.                                                             *)

LEMMA BeginsTurnKeeps == ASSUME TurnsInv, BeginsTurn PROVE TurnsInv'
<1> USE DEF serverVars, transportVars, promptVars, streamVars, threadVars, Apart
<1>1. TurnsTyped /\ taken \in Seq(Turns) BY DEF TurnsInv, TurnsTyped, TurnsTypeOK
<1>2. /\ active = Unnamed /\ active' = taken[1] /\ taken[1] \in Turns /\ taken' \in Seq(Turns)
      /\ Len(taken') = Len(taken) - 1 /\ Len(taken) \in Nat /\ Len(taken) >= 1
      /\ \A i \in 1..Len(taken') : i + 1 \in 1..Len(taken) /\ taken'[i] = taken[i + 1]
  BY <1>1, OneLess DEF BeginsTurn
<1>3. /\ UNCHANGED <<told, start, line, queue, hand, answers, streams, named, outcome, subscribed, lost, open>>
      /\ UNCHANGED <<server, lineReader, awaited, handlers, revoked, pump, events, shutEvents, panicked, closing>>
  BY DEF BeginsTurn
<1>4. TurnsTyped' BY <1>1, <1>2, <1>3 DEF TurnsTyped, TurnsTypeOK
<1>5. ServerInOrder'
  <2>1. ServerInOrder /\ 1 \in 1..Len(taken) BY <1>2 DEF TurnsInv
  <2>2. Started(taken[1]) /\ (\A x \in told : x[1] < taken[1] /\ <<x[1], "completed">> \in told)
    <3>1. \A x \in told : x[1] # active
      BY <1>1, <1>2, TurnIds DEF TurnsTyped, TurnsTypeOK
    <3> QED BY <2>1, <3>1 DEF ServerInOrder
  <2>3. <<taken[1], "completed">> \notin told
    <3> SUFFICES ASSUME <<taken[1], "completed">> \in told PROVE FALSE OBVIOUS
    <3>1. taken[1] < taken[1] BY <2>2
    <3>2. taken[1] \in Nat BY <1>2, TurnIds
    <3> QED BY <3>1, <3>2
  <2>4. ASSUME NEW i \in 1..Len(taken') PROVE taken[1] < taken'[i]
    <3>1. i + 1 \in 1..Len(taken) /\ taken'[i] = taken[i + 1] /\ 1 < i + 1 BY <1>2
    <3> QED BY <3>1, <2>1 DEF ServerInOrder
  <2>5. ASSUME NEW i \in 1..Len(taken') PROVE
            /\ Started(taken'[i]) /\ \A x \in told : x[1] < taken'[i]
            /\ \A j \in 1..Len(taken') : i < j => taken'[i] < taken'[j]
    <3>1. i + 1 \in 1..Len(taken) /\ taken'[i] = taken[i + 1] BY <1>2
    <3>2. ASSUME NEW j \in 1..Len(taken'), i < j PROVE taken'[i] < taken'[j]
      <4>1. j + 1 \in 1..Len(taken) /\ taken'[j] = taken[j + 1] /\ i + 1 < j + 1 BY <1>2, <3>2
      <4> QED BY <2>1, <3>1, <4>1 DEF ServerInOrder
    <3> QED BY <2>1, <3>1, <3>2 DEF ServerInOrder
  <2>6. \A x \in told : x[1] \in Turns BY <1>1 DEF TurnsTyped, TurnsTypeOK
  <2>7. \A x \in told : Started(x[1]) /\ x[1] <= taken[1]
    <3> SUFFICES ASSUME NEW x \in told PROVE Started(x[1]) /\ x[1] <= taken[1] OBVIOUS
    <3>1. x[1] \in Nat /\ taken[1] \in Nat BY <2>6, <1>2, TurnIds
    <3>2. x[1] < taken[1] /\ Started(x[1]) BY <2>1, <2>2 DEF ServerInOrder
    <3> QED BY <3>1, <3>2
  <2> QED BY <1>2, <1>3, <2>2, <2>3, <2>4, <2>5, <2>7 DEF ServerInOrder, Started
<1>6. OnlyTold' BY <1>3 DEF TurnsInv, OnlyTold
<1>7. InOrder' BY <1>3 DEF TurnsInv, InOrder, Before, Rank
<1>8. CallersInOrder' /\ StreamsKnown' /\ ShutIsOver' BY <1>3, QuietStreams
<1>9. StreamsSound' BY <1>3 DEF TurnsInv, StreamsSound, Streaming, Clean, StreamSound, EndToCome, NoneLeft
<1>10. OwnOrExcused' BY <1>3 DEF TurnsInv, OwnOrExcused, Clean
<1> QED BY <1>4, <1>5, <1>6, <1>7, <1>8, <1>9, <1>10 DEF TurnsInv

\* The end of s is where it was, or more of it, if nothing was taken away.
LEMMA EndStays ==
    ASSUME NEW s, EndToCome(s), hand' = hand, queue' = queue, Len(line) \in Nat, Len(line') >= Len(line), Len(line') \in Nat,
           \A i \in 1..Len(line) : line'[i] = line[i]
    PROVE  EndToCome(s)'
BY DEF EndToCome

LEMMA TellsKeeps ==
    ASSUME TurnsInv, NEW t \in Turns, NEW k \in NoteKinds \cup {"approval", "response"}, Tells(k, t),
           t = active \/ (k = "response" /\ <<t, "completed">> \in told),
           active' = IF k = "completed" THEN Unnamed ELSE active,
           UNCHANGED <<server, taken>>, Apart
    PROVE  TurnsInv'
<1> USE DEF serverVars, transportVars, promptVars, streamVars, threadVars, Apart
<1> DEFINE m == [kind |-> k, turn |-> t]
<1>1. TurnsTyped /\ line \in Seq(Messages) /\ m \in Messages
  BY DEF TurnsInv, TurnsTyped, Messages
<1>2. /\ line' \in Seq(Messages) /\ Len(line') = Len(line) + 1 /\ Len(line) \in Nat
      /\ \A i \in 1..Len(line) : line'[i] = line[i]
      /\ line'[Len(line) + 1] = m
  <2>1. line' = Append(line, m) BY DEF Tells
  <2> HIDE DEF m
  <2> QED BY <1>1, <2>1, OneMore
<1>3. told' = told \cup {<<t, k>>} /\ <<t, k>> \notin told BY DEF Tells
<1>4. UNCHANGED <<taken, start, queue, hand, answers, streams, named, outcome, subscribed, lost, open>> OBVIOUS
<1>5. TurnsTyped'
  <2>1. Len(line') <= LineRoom /\ UNCHANGED server
    <3>1. Len(line) < LineRoom BY DEF Tells
    <3> QED BY <1>2, <3>1, TurnsAssumption
  <2>2. active' \in Turns \cup {Unnamed} BY <1>1 DEF TurnsTyped, TurnsTypeOK
  <2>3. told' \subseteq Turns \X {"started", "approval", "completed", "response"}
    BY <1>1, <1>3 DEF TurnsTyped, TurnsTypeOK, NoteKinds
  <2> QED BY <1>1, <1>2, <2>1, <2>2, <2>3 DEF TurnsTyped, TurnsTypeOK
<1>6. ServerInOrder'
  <2>1. ServerInOrder BY DEF TurnsInv
  <2>2. Started(t) BY <2>1 DEF ServerInOrder
  <2>3. t = active \/ t # active' BY TurnIds, <2>1 DEF ServerInOrder
  <2>4. ASSUME NEW i \in 1..Len(taken) PROVE t < taken[i] BY <2>1 DEF ServerInOrder
  <2>5. active' \in Turns => active' = active /\ k # "completed" BY TurnIds
  <2>6. ASSUME NEW x \in told' PROVE
            /\ Started(x[1])
            /\ x[1] = active' \/ <<x[1], "completed">> \in told'
            /\ active' \in Turns => x[1] <= active'
    <3>1. CASE x \in told
      <4>1. Started(x[1]) /\ (x[1] = active \/ <<x[1], "completed">> \in told)
            /\ (active \in Turns => x[1] <= active)
        BY <2>1, <3>1 DEF ServerInOrder
      <4>2. x[1] \in Turns BY <3>1, <1>1 DEF TurnsTyped, TurnsTypeOK
      <4>3. x[1] = active /\ k = "completed" => <<x[1], "completed">> \in told'
        <5>1. x[1] = active => active # Unnamed BY <4>2, TurnIds
        <5>2. k = "completed" => t = active OBVIOUS
        <5> QED BY <5>1, <5>2, <1>3
      <4> QED BY <4>1, <4>3, <2>5, <1>3
    <3>2. CASE x = <<t, k>>
      <4>1. x[1] = t BY <3>2
      <4>2. t = active' \/ <<t, "completed">> \in told'
        BY <1>3
      <4>3. active' \in Turns => t <= active'
        <5>1. CASE t = active BY <5>1, <2>5, TurnIds
        <5>2. CASE <<t, "completed">> \in told
          <6>1. active \in Turns => <<t, "completed">>[1] <= active BY <5>2, <2>1 DEF ServerInOrder
          <6> QED BY <6>1, <2>5
        <5> QED BY <5>1, <5>2
      <4> QED BY <4>1, <4>2, <4>3, <2>2
    <3> QED BY <3>1, <3>2, <1>3
  <2>7. ASSUME NEW i \in 1..Len(taken) PROVE
            /\ Started(taken[i])
            /\ active' \in Turns => active' < taken[i]
            /\ \A x \in told' : x[1] < taken[i]
            /\ \A j \in 1..Len(taken) : i < j => taken[i] < taken[j]
    <3>1. \A x \in told' : x[1] < taken[i]
      <4> SUFFICES ASSUME NEW x \in told' PROVE x[1] < taken[i] OBVIOUS
      <4>1. CASE x \in told BY <4>1, <2>1 DEF ServerInOrder
      <4>2. CASE x = <<t, k>> BY <4>2, <2>4
      <4> QED BY <4>1, <4>2, <1>3
    <3> QED BY <2>1, <2>5, <3>1 DEF ServerInOrder
  <2>8. active' \in Turns => Started(active') /\ <<active', "completed">> \notin told'
    BY <2>1, <2>5, <1>3 DEF ServerInOrder
  <2> QED BY <2>6, <2>7, <2>8, <1>4 DEF ServerInOrder, Started
<1>7. OnlyTold'
  <2>1. OnlyTold BY DEF TurnsInv
  <2>2. ASSUME NEW i \in 1..Len(line') PROVE <<line'[i].turn, line'[i].kind>> \in told'
    <3>1. CASE i \in 1..Len(line) BY <3>1, <2>1, <1>2, <1>3 DEF OnlyTold
    <3>2. CASE i = Len(line) + 1 BY <3>2, <1>2, <1>3
    <3> QED BY <3>1, <3>2, <1>2
  <2> QED BY <2>1, <2>2, <1>3, <1>4 DEF OnlyTold
<1>8. ASSUME NEW n, n.turn \in Turns, <<n.turn, n.kind>> \in told PROVE Before(n, m)
  <2> SUFFICES ASSUME n.kind \in NoteKinds, k \in NoteKinds PROVE Rank(n) < Rank(m) BY DEF Before
  <2>1. t = active /\ <<t, "completed">> \notin told /\ n.turn <= t
    <3>1. t = active BY DEF NoteKinds
    <3>2. <<n.turn, n.kind>>[1] <= active BY <1>8, <3>1 DEF TurnsInv, ServerInOrder
    <3> QED BY <3>1, <3>2 DEF TurnsInv, ServerInOrder
  <2>2. CASE n.turn = t
    <3>1. n.kind # "completed" /\ n.kind # k BY <1>3, <1>8, <2>1, <2>2
    <3> QED BY <2>2, <3>1, TurnIds DEF Rank, NoteKinds
  <2>3. CASE n.turn # t
    <3> HIDE DEF m
    <3>1. n.turn \in Nat /\ t \in Nat BY <1>8, TurnIds
    <3>2. n.turn < t BY <2>1, <2>3, <3>1
    <3>3. m.turn = t BY DEF m
    <3> QED BY <3>1, <3>2, <3>3 DEF Rank
  <2> QED BY <2>2, <2>3
<1>9. InOrder'
  <2>1. InOrder /\ OnlyTold BY DEF TurnsInv
  <2>2. \A i \in 1..Len(line) : Before(line[i], m)
    <3>1. ASSUME NEW i \in 1..Len(line) PROVE line[i].turn \in Turns
      <4>1. line[i] \in Messages BY <1>1, ElementOfSeq
      <4> QED BY <4>1 DEF Messages
    <3> QED BY <2>1, <3>1, <1>8 DEF OnlyTold
  <2>3. \A i \in 1..Len(queue) : Before(queue[i], m)
    <3>1. ASSUME NEW i \in 1..Len(queue) PROVE queue[i].turn \in Turns
      <4>1. queue[i] \in Notes
        <5>1. queue \in Seq(Notes) BY <1>1 DEF TurnsTyped
        <5> QED BY <5>1, ElementOfSeq
      <4> QED BY <4>1 DEF Notes
    <3> QED BY <2>1, <3>1, <1>8 DEF OnlyTold
  <2>4. hand # <<>> => Before(hand[1].note, m)
    <3>1. hand # <<>> => hand[1].note.turn \in Turns
      <4>1. hand # <<>> => Head(hand) \in [note : [kind : {"started", "completed"}, turn : Turns], to : Turns]
                        /\ Head(hand) = hand[1]
        BY <1>1, OneLess DEF TurnsTyped, TurnsTypeOK
      <4> QED BY <4>1
    <3> QED BY <2>1, <3>1, <1>8 DEF OnlyTold
  <2>5. ASSUME NEW i \in 1..Len(line'), NEW j \in 1..Len(line'), i < j PROVE Before(line'[i], line'[j])
    <3>1. i \in 1..Len(line) BY <2>5, <1>2
    <3>2. CASE j \in 1..Len(line) BY <2>1, <2>5, <3>1, <3>2, <1>2 DEF InOrder
    <3>3. CASE j = Len(line) + 1 BY <2>2, <3>1, <3>3, <1>2
    <3> QED BY <3>2, <3>3, <1>2
  <2>6. ASSUME NEW j \in 1..Len(line') PROVE
            (\A i \in 1..Len(queue) : Before(queue[i], line'[j])) /\ (hand # <<>> => Before(hand[1].note, line'[j]))
    <3>2. CASE j \in 1..Len(line) BY <2>1, <3>2, <1>2 DEF InOrder
    <3>3. CASE j = Len(line) + 1 BY <2>3, <2>4, <3>3, <1>2
    <3> QED BY <3>2, <3>3, <1>2
  <2>7. InOrder => (\A i, j \in 1..Len(queue) : i < j => Before(queue[i], queue[j]))
                   /\ (hand # <<>> => \A j \in 1..Len(queue) : Before(hand[1].note, queue[j]))
    BY DEF InOrder
  <2>8. queue' = queue /\ hand' = hand BY <1>4
  <2> HIDE DEF m
  <2> QED BY <2>1, <2>5, <2>6, <2>7, <2>8 DEF InOrder, Before, Rank
<1>10. CallersInOrder' /\ StreamsKnown' /\ ShutIsOver' BY <1>4, QuietStreams
<1>11. StreamsSound'
  <2> SUFFICES ASSUME subscribed, NEW s \in Turns, Streaming(s), Clean(s) PROVE StreamSound(s)'
    BY <1>4 DEF StreamsSound, Streaming, Clean
  <2>1. StreamSound(s) BY DEF TurnsInv, StreamsSound
  <2>2. NoneLeft(s) => NoneLeft(s)'
    <3> SUFFICES ASSUME NoneLeft(s) PROVE NoneLeft(s)' OBVIOUS
    <3>1. k \in NoteKinds => t # s
      <4>1. k \in NoteKinds => t = active /\ <<t, "completed">> \notin told
        BY DEF TurnsInv, ServerInOrder, NoteKinds
      <4> QED BY <4>1 DEF NoneLeft
    <3>2. ASSUME NEW i \in 1..Len(line'), line'[i].turn = s PROVE line'[i].kind \notin NoteKinds
      <4>1. CASE i \in 1..Len(line) BY <3>2, <4>1, <1>2 DEF NoneLeft
      <4>2. CASE i = Len(line) + 1 BY <3>1, <3>2, <4>2, <1>2
      <4> QED BY <4>1, <4>2, <1>2
    <3> QED BY <3>2, <1>3, <1>4 DEF NoneLeft
  <2>3. EndToCome(s) => EndToCome(s)' BY <1>2, <1>4, EndStays
  <2>4. <<s, "completed">> = <<t, k>> => EndToCome(s)' BY <1>2 DEF EndToCome
  <2>5. outcome[s] = "none" /\ s \notin lost /\ <<s, "completed">> \in told' => EndToCome(s)'
    BY <2>1, <2>3, <2>4, <1>3 DEF StreamSound
  <2> QED BY <1>4, <2>1, <2>2, <2>5 DEF StreamSound
<1>12. OwnOrExcused' BY <1>4 DEF TurnsInv, OwnOrExcused, Clean
<1> QED BY <1>5, <1>6, <1>7, <1>9, <1>10, <1>11, <1>12 DEF TurnsInv

LEMMA ServerKeeps ==
    ASSUME TurnsInv, NEW t \in Turns, Announces(t) \/ AsksUser(t) \/ Completes(t) \/ Responds(t)
    PROVE  TurnsInv'
<1> USE DEF NoteKinds
<1>1. CASE Announces(t) BY <1>1, TellsKeeps DEF Announces
<1>2. CASE AsksUser(t) BY <1>2, TellsKeeps DEF AsksUser
<1>3. CASE Completes(t) BY <1>3, TellsKeeps DEF Completes
<1>4. CASE Responds(t) BY <1>4, TellsKeeps DEF Responds
<1> QED BY <1>1, <1>2, <1>3, <1>4

---------------------------------------------------------------------------
(* The transport.                                                          *)

LEMMA DispatchKeeps == ASSUME TurnsInv, Dispatch PROVE TurnsInv'
<1> USE DEF serverVars, transportVars, promptVars, streamVars, threadVars
<1>1. TurnsTyped /\ line \in Seq(Messages) /\ queue \in Seq(Notes) BY DEF TurnsInv, TurnsTyped
<1>2. PICK n : n = line[1] BY Zenon
<1>3. /\ line' \in Seq(Messages) /\ Len(line') = Len(line) - 1 /\ Len(line) \in Nat /\ Len(line) >= 1
      /\ n = Head(line) /\ n \in Messages
      /\ \A i \in 1..Len(line') : i + 1 \in 1..Len(line) /\ line'[i] = line[i + 1]
  BY <1>1, <1>2, OneLess DEF Dispatch
<1>4. UNCHANGED <<taken, active, told, start, streams, named, outcome, subscribed, open, hand,
                  server, lineReader, revoked, events, shutEvents, pump, panicked, closing>>
  BY DEF Dispatch
<1>5. \/ n.kind = "response" /\ answers' = answers \cup ({n.turn} \cap awaited) /\ awaited' = awaited \ {n.turn}
         /\ UNCHANGED handlers
      \/ n.kind = "approval" /\ handlers' = [handlers EXCEPT ![n.turn] = "spawned"] /\ UNCHANGED <<answers, awaited>>
      \/ n.kind \in NoteKinds /\ UNCHANGED <<answers, awaited, handlers>>
  <2>1. Head(line) = n BY <1>3
  <2>2. \/ /\ n.kind = "response" /\ answers' = answers \cup ({n.turn} \cap awaited) /\ awaited' = awaited \ {n.turn}
           /\ UNCHANGED <<handlers, queue, lost>>
        \/ /\ n.kind = "approval" /\ handlers' = [handlers EXCEPT ![n.turn] = "spawned"]
           /\ UNCHANGED <<answers, awaited, queue, lost>>
        \/ n.kind \in {"started", "completed"} /\ Enqueue(n) /\ UNCHANGED <<answers, awaited, handlers>>
    BY <2>1 DEF Dispatch
  <2> QED BY <2>2 DEF NoteKinds
<1>6. \/ UNCHANGED <<queue, lost>> /\ (n.kind \in NoteKinds => ~subscribed)
      \/ n.kind \in NoteKinds /\ Len(queue) < QueueRoom /\ queue' = Append(queue, n) /\ UNCHANGED lost
      \/ n.kind \in NoteKinds /\ UNCHANGED queue /\ lost' = IF n.kind = "completed" THEN lost \cup {n.turn} ELSE lost
  BY <1>3 DEF Dispatch, NoteKinds, Enqueue
<1>7. Len(queue) \in Nat BY <1>1, LenProperties
<1>8. n.kind \in NoteKinds => n \in Notes BY <1>3 DEF Messages, Notes
<1>9. /\ queue' \in Seq(Notes) /\ Len(queue') \in {Len(queue), Len(queue) + 1}
      /\ \A i \in 1..Len(queue) : queue'[i] = queue[i]
      /\ Len(queue') = Len(queue) + 1 => n.kind \in NoteKinds /\ queue'[Len(queue) + 1] = n
      /\ Len(queue') <= QueueRoom
  <2>1. CASE UNCHANGED queue BY <2>1, <1>1, <1>7 DEF TurnsTyped, TurnsTypeOK
  <2>2. CASE n.kind \in NoteKinds /\ Len(queue) < QueueRoom /\ queue' = Append(queue, n)
    <3>1. n \in Notes BY <2>2, <1>8
    <3>2. queue' \in Seq(Notes) /\ Len(queue') = Len(queue) + 1
          /\ (\A i \in 1..Len(queue) : queue'[i] = queue[i]) /\ queue'[Len(queue) + 1] = n
      BY <1>1, <2>2, <3>1, OneMore
    <3> QED BY <2>2, <3>2, <1>7, TurnsAssumption
  <2> QED BY <1>6, <2>1, <2>2
<1>10. lost \subseteq lost' /\ lost' \subseteq Turns BY <1>1, <1>3, <1>6 DEF TurnsTyped, TurnsTypeOK, Messages
<1>11. TurnsTyped'
  <2>1. Len(line') <= LineRoom BY <1>1, <1>3, TurnsAssumption DEF TurnsTyped, TurnsTypeOK
  <2>2. answers' \subseteq Turns /\ awaited' \subseteq Turns BY <1>1, <1>5 DEF TurnsTyped, TurnsTypeOK
  <2>3. handlers' \in [Turns -> {"none", "spawned", "registered", "over"}]
    BY <1>1, <1>5 DEF TurnsTyped, TurnsTypeOK
  <2> QED BY <1>1, <1>3, <1>4, <1>9, <1>10, <2>1, <2>2, <2>3 DEF TurnsTyped, TurnsTypeOK
<1>12. ServerInOrder' BY <1>4 DEF TurnsInv, ServerInOrder, Started
<1>13. 1 \in 1..Len(line) /\ <<n.turn, n.kind>> \in told BY <1>2, <1>3 DEF TurnsInv, OnlyTold
<1>14. OnlyTold'
  <2>1. OnlyTold BY DEF TurnsInv
  <2>2. \A i \in 1..Len(line') : <<line'[i].turn, line'[i].kind>> \in told BY <1>3, <2>1 DEF OnlyTold
  <2>3. \A i \in 1..Len(queue') : <<queue'[i].turn, queue'[i].kind>> \in told
    <3> SUFFICES ASSUME NEW i \in 1..Len(queue') PROVE <<queue'[i].turn, queue'[i].kind>> \in told OBVIOUS
    <3>1. CASE i \in 1..Len(queue)
      <4>1. queue'[i] = queue[i] BY <3>1, <1>9
      <4> QED BY <3>1, <4>1, <2>1 DEF OnlyTold
    <3>2. CASE i \notin 1..Len(queue)
      <4>1. queue'[i] = n BY <3>2, <1>7, <1>9
      <4> QED BY <4>1, <1>13
    <3> QED BY <3>1, <3>2
  <2>4. \A t \in Turns : t \in answers' => <<t, "response">> \in told
    BY <1>5, <1>13, <2>1 DEF OnlyTold
  <2> QED BY <1>4, <2>1, <2>2, <2>3, <2>4 DEF OnlyTold
<1>15. InOrder'
  <2>1. InOrder BY DEF TurnsInv
  <2>2. ASSUME NEW j \in 1..Len(line') PROVE
            /\ \A i \in 1..Len(line') : i < j => Before(line'[i], line'[j])
            /\ \A i \in 1..Len(queue') : Before(queue'[i], line'[j])
            /\ hand # <<>> => Before(hand[1].note, line'[j])
    <3>1. j + 1 \in 1..Len(line) /\ line'[j] = line[j + 1] /\ 1 < j + 1 BY <1>3
    <3>2. ASSUME NEW i \in 1..Len(line'), i < j PROVE Before(line'[i], line'[j])
      <4>1. i + 1 \in 1..Len(line) /\ line'[i] = line[i + 1] /\ i + 1 < j + 1 BY <3>2, <1>3
      <4> QED BY <2>1, <3>1, <4>1 DEF InOrder
    <3>3. ASSUME NEW i \in 1..Len(queue') PROVE Before(queue'[i], line'[j])
      <4>1. CASE i \in 1..Len(queue) BY <2>1, <3>1, <4>1, <1>9 DEF InOrder
      <4>2. CASE i \notin 1..Len(queue)
        <5>1. queue'[i] = n BY <4>2, <1>7, <1>9
        <5> QED BY <2>1, <3>1, <5>1, <1>2, <1>13 DEF InOrder
      <4> QED BY <4>1, <4>2
    <3> QED BY <2>1, <3>1, <3>2, <3>3 DEF InOrder
  <2>3. ASSUME NEW i \in 1..Len(queue'), NEW j \in 1..Len(queue'), i < j PROVE Before(queue'[i], queue'[j])
    <3>1. CASE j \in 1..Len(queue) BY <2>1, <2>3, <3>1, <1>9 DEF InOrder
    <3>2. CASE j \notin 1..Len(queue)
      <4>1. queue'[j] = n /\ i \in 1..Len(queue) BY <2>3, <3>2, <1>7, <1>9
      <4> QED BY <2>1, <4>1, <1>2, <1>9, <1>13 DEF InOrder
    <3> QED BY <3>1, <3>2
  <2>4. ASSUME hand # <<>>, NEW j \in 1..Len(queue') PROVE Before(hand[1].note, queue'[j])
    <3>1. CASE j \in 1..Len(queue) BY <2>1, <2>4, <3>1, <1>9 DEF InOrder
    <3>2. CASE j \notin 1..Len(queue)
      <4>1. queue'[j] = n BY <3>2, <1>7, <1>9
      <4> QED BY <2>1, <2>4, <4>1, <1>2, <1>13 DEF InOrder
    <3> QED BY <3>1, <3>2
  <2>5. hand' = hand BY <1>4
  <2> QED BY <2>2, <2>3, <2>4, <2>5 DEF InOrder, Before, Rank
<1>16. CallersInOrder' /\ StreamsKnown' /\ ShutIsOver' BY <1>4, QuietStreams
<1>17. StreamsSound'
  <2> SUFFICES ASSUME subscribed, NEW s \in Turns, Streaming(s), Clean(s) PROVE StreamSound(s)'
    BY <1>4 DEF StreamsSound, Streaming, Clean
  <2>1. StreamSound(s) BY DEF TurnsInv, StreamsSound
  <2>2. ASSUME NoneLeft(s) PROVE NoneLeft(s)'
    <3>1. n.turn = s => n.kind \notin NoteKinds BY <2>2, <1>2, <1>13 DEF NoneLeft
    <3>2. ASSUME NEW i \in 1..Len(queue') PROVE queue'[i].turn # s
      <4>1. CASE i \in 1..Len(queue) BY <2>2, <4>1, <1>9 DEF NoneLeft
      <4>2. CASE i \notin 1..Len(queue)
        <5>1. queue'[i] = n /\ n.kind \in NoteKinds BY <4>2, <1>7, <1>9
        <5> QED BY <3>1, <5>1
      <4> QED BY <4>1, <4>2
    <3>3. \A i \in 1..Len(line') : line'[i].turn = s => line'[i].kind \notin NoteKinds
      BY <2>2, <1>3 DEF NoneLeft
    <3> QED BY <2>2, <3>2, <3>3, <1>4 DEF NoneLeft
  <2>3. ASSUME EndToCome(s), s \notin lost' PROVE EndToCome(s)'
    <3> DEFINE e == [kind |-> "completed", turn |-> s]
    <3>1. CASE \E i \in 1..Len(queue) : queue[i] = e
      <4>1. \E i \in 1..Len(queue') : queue'[i] = e BY <3>1, <1>7, <1>9
      <4> QED BY <4>1 DEF EndToCome
    <3>2. CASE \E i \in 1..Len(line) : line[i] = e
      <4>1. PICK i \in 1..Len(line) : line[i] = e BY <3>2
      <4>2. CASE i = 1
        <5>1. n = e /\ n.kind \in NoteKinds /\ n.kind = "completed" /\ n.turn = s
          BY <4>1, <4>2, <1>2 DEF NoteKinds
        <5>2. queue' = Append(queue, n) BY <2>3, <5>1, <1>6
        <5>3. Len(queue') = Len(queue) + 1 /\ queue'[Len(queue) + 1] = e
          BY <5>1, <5>2, <1>1, <1>8, OneMore
        <5>4. \E j \in 1..Len(queue') : queue'[j] = e BY <5>3, <1>7
        <5> QED BY <5>4 DEF EndToCome
      <4>3. CASE i # 1
        <5>1. i - 1 \in 1..Len(line') /\ line'[i - 1] = line[(i - 1) + 1] /\ (i - 1) + 1 = i
          BY <4>1, <4>3, <1>3
        <5> QED BY <4>1, <5>1 DEF EndToCome
      <4> QED BY <4>2, <4>3
    <3>3. CASE hand # <<>> /\ hand[1] = [note |-> e, to |-> s]
      BY <3>3, <1>4 DEF EndToCome
    <3> QED BY <2>3, <3>1, <3>2, <3>3 DEF EndToCome
  <2> QED BY <1>4, <1>10, <2>1, <2>2, <2>3 DEF StreamSound
<1>18. OwnOrExcused' BY <1>4, <1>10 DEF TurnsInv, OwnOrExcused, Clean
<1> QED BY <1>11, <1>12, <1>14, <1>15, <1>16, <1>17, <1>18 DEF TurnsInv

---------------------------------------------------------------------------
(* The pump takes a note and looks for its stream.                         *)

LEMMA StreamFound ==
    ASSUME TurnsInv, NEW u \in Turns, NEW s, s = StreamFor(u), s # Unnamed
    PROVE  /\ s \in Turns /\ InStreams(s) /\ Streaming(s)
           /\ \/ named[s] = u
              \/ ~Holds(streams, u) /\ named[s] = Unnamed
              \/ ~Holds(streams, u) /\ ~Holds(streams, Unnamed) /\ Len(streams) = 1
<1>1. streams \in Seq(Turns) /\ Len(streams) \in Nat
  <2>1. streams \in Seq(Turns) BY DEF TurnsInv, TurnsTyped, TurnsTypeOK
  <2> QED BY <2>1, LenProperties
<1>2. ASSUME NEW i \in 1..Len(streams) PROVE streams[i] \in Turns /\ InStreams(streams[i]) /\ Streaming(streams[i])
  BY <1>1, ElementOfSeq DEF InStreams, TurnsInv, StreamsKnown
<1>3. CASE Holds(streams, u)
  <2>1. PICK i \in 1..Len(streams) : FirstNamed(streams, u) = streams[i] /\ named[streams[i]] = u
    BY <1>1, <1>3, FirstHasName
  <2> QED BY <1>2, <1>3, <2>1 DEF StreamFor
<1>4. CASE ~Holds(streams, u) /\ Holds(streams, Unnamed)
  <2>1. PICK i \in 1..Len(streams) : FirstNamed(streams, Unnamed) = streams[i] /\ named[streams[i]] = Unnamed
    BY <1>1, <1>4, FirstHasName
  <2> QED BY <1>2, <1>4, <2>1 DEF StreamFor
<1>5. CASE ~Holds(streams, u) /\ ~Holds(streams, Unnamed)
  <2>1. Len(streams) = 1 /\ s = streams[1] BY <1>5 DEF StreamFor
  <2> QED BY <1>2, <1>5, <2>1
<1> QED BY <1>3, <1>4, <1>5

\* At most one stream has no name yet.
LEMMA OnePending ==
    ASSUME TurnsInv, NEW s \in Turns, NEW t \in Turns, Streaming(s), Streaming(t),
           named[s] = Unnamed, named[t] = Unnamed
    PROVE  s = t
<1>1. start[s] \in {"made", "waiting"} /\ start[t] \in {"made", "waiting"} BY DEF TurnsInv, StreamsKnown, Streaming
<1>2. ~(s < t) /\ ~(t < s) BY <1>1 DEF TurnsInv, CallersInOrder
<1> QED BY <1>2, TurnIds

\* A turn finds its own stream, if that waits for it and none before was given up.
LEMMA OwnFound ==
    ASSUME TurnsInv, subscribed, NEW w \in Turns, Streaming(w), Clean(w), outcome[w] = "none"
    PROVE  StreamFor(w) = w
<1>1. StreamSound(w) /\ InStreams(w) BY DEF TurnsInv, StreamsSound, StreamsKnown
<1>2. PICK i \in 1..Len(streams) : streams[i] = w BY <1>1 DEF InStreams
<1>3. StreamFor(w) # Unnamed /\ (Holds(streams, w) \/ Holds(streams, Unnamed))
  <2>1. Holds(streams, w) \/ Holds(streams, Unnamed) BY <1>1, <1>2 DEF StreamSound, Holds
  <2>2. streams \in Seq(Turns) BY DEF TurnsInv, TurnsTyped, TurnsTypeOK
  <2>3. Holds(streams, w) => FirstNamed(streams, w) \in Turns BY <2>2, FirstHasName, ElementOfSeq
  <2>4. Holds(streams, Unnamed) => FirstNamed(streams, Unnamed) \in Turns BY <2>2, FirstHasName, ElementOfSeq
  <2> QED BY <2>1, <2>3, <2>4, TurnIds DEF StreamFor
<1>4. PICK s : s = StreamFor(w) BY Zenon
<1>5. s \in Turns /\ InStreams(s) /\ Streaming(s) /\ (named[s] = w \/ (~Holds(streams, w) /\ named[s] = Unnamed))
  BY <1>3, <1>4, StreamFound
<1>6. CASE named[s] = w
  <2> SUFFICES ASSUME s # w PROVE FALSE BY <1>4
  <2>1. start[w] \in {"returned", "failed"} /\ ~Live(w) BY <1>5, <1>6 DEF TurnsInv, StreamsKnown
  <2> QED BY <2>1 DEF Live, Streaming
<1>7. CASE ~Holds(streams, w) /\ named[s] = Unnamed
  <2>1. named[w] = Unnamed BY <1>1, <1>2, <1>7 DEF StreamSound, Holds
  <2> QED BY <1>4, <1>5, <1>7, <2>1, OnePending
<1> QED BY <1>5, <1>6, <1>7

\* A pending stream adopts another turn only if that is over for its caller.
LEMMA AdoptsDead ==
    ASSUME TurnsInv, NEW u \in Turns, Started(u), NEW s, s = StreamFor(u), s # Unnamed, s # u,
           named[s] = Unnamed
    PROVE  s \in Turns /\ u < s /\ start[u] \in {"returned", "failed"} /\ ~Live(u)
<1>1. s \in Turns /\ Streaming(s) BY StreamFound
<1>2. start[s] \in {"made", "waiting"} BY <1>1 DEF TurnsInv, StreamsKnown, Streaming
<1>3. ~(s < u) BY <1>1, <1>2 DEF TurnsInv, CallersInOrder, Started
<1>4. u < s BY <1>1, <1>3, TurnIds
<1>5. start[u] \in {"returned", "failed"} BY <1>1, <1>2, <1>4 DEF TurnsInv, CallersInOrder
<1>6. ~Live(u)
  <2> SUFFICES ASSUME Live(u) PROVE FALSE OBVIOUS
  <2>1. StreamFor(u) = u BY OwnFound DEF Live, Streaming
  <2> QED BY <2>1
<1> QED BY <1>1, <1>4, <1>5, <1>6

\* A stream gets a note of another turn only if its own end was dropped and is
\* past, and then it has its name.
LEMMA ForAnother ==
    ASSUME TurnsInv, subscribed, hand = <<>>, queue # <<>>,
           NEW u \in Turns, u = queue[1].turn, NEW s, s = StreamFor(u), s # Unnamed, s # u, Clean(s)
    PROVE  named[s] # Unnamed /\ (outcome[s] = "none" => s \in lost /\ s < u)
<1>1. /\ s \in Turns /\ InStreams(s) /\ Streaming(s) /\ StreamSound(s)
      /\ \/ named[s] = u
         \/ ~Holds(streams, u) /\ named[s] = Unnamed
         \/ ~Holds(streams, u) /\ ~Holds(streams, Unnamed) /\ Len(streams) = 1
  BY StreamFound DEF TurnsInv, StreamsSound
<1>2. queue \in Seq(Notes) /\ Len(queue) \in Nat /\ 1 \in 1..Len(queue) /\ queue[1] \in Notes
  <2>1. queue \in Seq(Notes) BY DEF TurnsInv, TurnsTyped
  <2>2. Len(queue) \in Nat /\ Len(queue) >= 1 BY <2>1, OneLess
  <2>3. 1 \in 1..Len(queue) BY <2>2
  <2> QED BY <2>1, <2>2, <2>3, ElementOfSeq
<1>3. <<u, queue[1].kind>> \in told /\ Started(u) /\ queue[1].kind \in NoteKinds
  <2>1. <<queue[1].turn, queue[1].kind>> \in told BY <1>2 DEF TurnsInv, OnlyTold
  <2>2. Started(<<u, queue[1].kind>>[1]) BY <2>1 DEF TurnsInv, ServerInOrder
  <2> QED BY <1>2, <2>1, <2>2 DEF Notes
<1>4. named[s] # u BY <1>1, TurnIds DEF StreamSound
<1>5. ~(u < s)
  <2> SUFFICES ASSUME u < s PROVE FALSE OBVIOUS
  <2>1. start[s] # "new" BY <1>1 DEF Streaming
  <2>2. start[u] = "returned" /\ outcome[u] # "abandoned"
    <3>1. start[u] \in {"returned", "failed"} BY <1>1, <2>1 DEF TurnsInv, CallersInOrder
    <3>2. u \in 1..(s - 1) BY <1>1, TurnsAssumption DEF Turns
    <3> QED BY <3>1, <3>2 DEF Clean
  <2>3. Clean(u)
    <3>1. 1..(u - 1) \subseteq 1..(s - 1) BY <1>1, TurnsAssumption DEF Turns
    <3> QED BY <3>1 DEF Clean
  <2>4. StreamSound(u) /\ Streaming(u) BY <2>2, <2>3 DEF TurnsInv, StreamsSound, Streaming
  <2>5. ~NoneLeft(u) BY <1>2 DEF NoneLeft
  <2>6. outcome[u] = "none" BY <2>2, <2>4, <2>5 DEF StreamSound
  <2> QED BY <2>3, <2>4, <2>6, OwnFound
<1>6. s < u /\ s \in Nat /\ u \in Nat BY <1>1, <1>5, TurnIds
<1>7. start[s] = "returned"
  <2>1. start[s] \in {"returned", "failed"} BY <1>1, <1>3, <1>6 DEF TurnsInv, CallersInOrder, Started
  <2> QED BY <1>1, <2>1 DEF Streaming
<1>8. named[s] # Unnamed BY <1>1, <1>7 DEF TurnsInv, StreamsKnown
<1>9. ASSUME outcome[s] = "none", s \notin lost PROVE FALSE
  <2>1. <<s, "completed">> \in told
    <3>1. <<s, "response">> \in told BY <1>1, <1>7 DEF TurnsInv, OnlyTold
    <3>2. <<s, "response">>[1] = active \/ <<<<s, "response">>[1], "completed">> \in told
      BY <3>1 DEF TurnsInv, ServerInOrder
    <3>3. s = active => u <= s
      <4>1. active \in Turns => <<u, queue[1].kind>>[1] <= active BY <1>3 DEF TurnsInv, ServerInOrder
      <4> QED BY <1>1, <4>1
    <3> QED BY <3>2, <3>3, <1>6
  <2>2. EndToCome(s) BY <1>1, <1>9, <2>1 DEF StreamSound
  <2> DEFINE e == [kind |-> "completed", turn |-> s]
  <2>3. ~Before(queue[1], e)
    <3>1. e.turn = s /\ e.kind = "completed" OBVIOUS
    <3> HIDE DEF e
    <3>2. Rank(e) = 2 * s + 1 /\ Rank(queue[1]) >= 2 * u /\ Rank(queue[1]) \in Nat
      BY <3>1, <1>6 DEF Rank
    <3> QED BY <1>3, <1>6, <3>1, <3>2 DEF Before, NoteKinds
  <2>4. ASSUME NEW i \in 1..Len(queue), queue[i] = e PROVE FALSE
    <3>1. i # 1 BY <2>4
    <3>2. 1 < i BY <1>2, <3>1
    <3>3. Before(queue[1], queue[i]) BY <1>2, <3>2 DEF TurnsInv, InOrder
    <3> QED BY <2>3, <2>4, <3>3
  <2>5. ASSUME NEW i \in 1..Len(line), line[i] = e PROVE FALSE
    <3>1. Before(queue[1], line[i]) BY <1>2 DEF TurnsInv, InOrder
    <3> QED BY <2>3, <2>5, <3>1
  <2> QED BY <2>2, <2>4, <2>5 DEF EndToCome
<1> QED BY <1>6, <1>8, <1>9

LEMMA PumpTakesKeeps == ASSUME TurnsInv, PumpTakes PROVE TurnsInv'
<1> USE DEF serverVars, transportVars, promptVars, streamVars, threadVars
<1>1. TurnsTyped /\ queue \in Seq(Notes) /\ hand = <<>> /\ queue # <<>> BY DEF TurnsInv, TurnsTyped, PumpTakes
<1>2. PICK n : n = queue[1] BY Zenon
<1>3. PICK s : s = StreamFor(n.turn) BY Zenon
<1>4. /\ queue' \in Seq(Notes) /\ Len(queue') = Len(queue) - 1 /\ Len(queue) \in Nat /\ Len(queue) >= 1
      /\ n = Head(queue) /\ n \in Notes /\ 1 \in 1..Len(queue)
      /\ \A i \in 1..Len(queue') : i + 1 \in 1..Len(queue) /\ queue'[i] = queue[i + 1]
  <2>1. queue' = Tail(queue) BY DEF PumpTakes
  <2>2. Len(queue) \in Nat /\ Len(queue) >= 1 BY <1>1, OneLess
  <2>3. 1 \in 1..Len(queue) BY <2>2
  <2> QED BY <1>1, <1>2, <2>1, <2>2, <2>3, OneLess
<1>5. /\ hand' = IF s = Unnamed THEN <<>> ELSE <<[note |-> n, to |-> s]>>
      /\ named' = IF s # Unnamed /\ named[s] = Unnamed THEN [named EXCEPT ![s] = n.turn] ELSE named
  <2>1. Head(queue) = n BY <1>4
  <2> QED BY <1>3, <2>1 DEF PumpTakes
<1>6. UNCHANGED <<taken, active, told, start, line, answers, streams, outcome, subscribed, lost, open,
                  server, lineReader, awaited, handlers, revoked, events, shutEvents, pump, panicked, closing>>
  BY DEF PumpTakes
<1>7. n.turn \in Turns /\ n.kind \in NoteKinds BY <1>4 DEF Notes
<1>8. <<n.turn, n.kind>> \in told /\ Started(n.turn)
  <2>1. <<n.turn, n.kind>> \in told BY <1>2, <1>4 DEF TurnsInv, OnlyTold
  <2>2. Started(<<n.turn, n.kind>>[1]) BY <2>1 DEF TurnsInv, ServerInOrder
  <2> QED BY <2>1, <2>2
<1>9. s # Unnamed => s \in Turns /\ InStreams(s) /\ Streaming(s) BY <1>3, <1>7, StreamFound
<1>10. hand' # <<>> => s # Unnamed /\ hand'[1] = [note |-> n, to |-> s] BY <1>5
<1>11. named' \in [Turns -> Turns \cup {Unnamed}]
       /\ \A x \in Turns : named'[x] = named[x] \/ (x = s /\ s # Unnamed /\ named[x] = Unnamed /\ named'[x] = n.turn)
  <2>1. named \in [Turns -> Turns \cup {Unnamed}] BY <1>1 DEF TurnsTyped, TurnsTypeOK
  <2> QED BY <2>1, <1>5, <1>7, <1>9
<1>12. TurnsTyped'
  <2>1. Len(queue') <= QueueRoom
    <3>1. Len(queue) <= QueueRoom BY <1>1 DEF TurnsTyped, TurnsTypeOK
    <3> QED BY <3>1, <1>4, TurnsAssumption
  <2>2. /\ hand' \in Seq([note : [kind : {"started", "completed"}, turn : Turns], to : Turns])
        /\ Len(hand') <= 1
    <3> DEFINE S == [note : [kind : {"started", "completed"}, turn : Turns], to : Turns]
    <3>1. CASE s = Unnamed BY <3>1, <1>5, EmptySeq
    <3>2. CASE s # Unnamed
      <4>1. [note |-> n, to |-> s] \in S BY <3>2, <1>4, <1>9 DEF Notes, NoteKinds
      <4>2. hand' = <<[note |-> n, to |-> s]>> BY <3>2, <1>5
      <4> HIDE DEF S
      <4>3. hand' \in Seq(S) /\ Len(hand') = 1 BY <4>1, <4>2
      <4> QED BY <4>3 DEF S
    <3> QED BY <3>1, <3>2
  <2> QED BY <1>1, <1>4, <1>6, <1>11, <2>1, <2>2 DEF TurnsTyped, TurnsTypeOK
<1>13. CallersInOrder' /\ ServerInOrder' /\ OwnOrExcused' /\ ShutIsOver'
  BY <1>6 DEF TurnsInv, CallersInOrder, ServerInOrder, Started, OwnOrExcused, Clean, ShutIsOver
<1>14. OnlyTold'
  <2>1. OnlyTold BY DEF TurnsInv
  <2>2. \A i \in 1..Len(queue') : <<queue'[i].turn, queue'[i].kind>> \in told BY <1>4, <2>1 DEF OnlyTold
  <2>3. hand' # <<>> => <<hand'[1].note.turn, hand'[1].note.kind>> \in told BY <1>8, <1>10
  <2> QED BY <2>1, <2>2, <2>3, <1>6 DEF OnlyTold
<1>15. InOrder'
  <2>1. InOrder BY DEF TurnsInv
  <2>2. ASSUME NEW j \in 1..Len(queue') PROVE
            /\ \A i \in 1..Len(queue') : i < j => Before(queue'[i], queue'[j])
            /\ Before(n, queue'[j])
            /\ \A i \in 1..Len(line) : Before(queue'[j], line[i])
    <3>1. j + 1 \in 1..Len(queue) /\ queue'[j] = queue[j + 1] /\ 1 < j + 1 BY <1>4
    <3>2. ASSUME NEW i \in 1..Len(queue'), i < j PROVE Before(queue'[i], queue'[j])
      <4>1. i + 1 \in 1..Len(queue) /\ queue'[i] = queue[i + 1] /\ i + 1 < j + 1 BY <3>2, <1>4
      <4> QED BY <2>1, <3>1, <4>1 DEF InOrder
    <3> QED BY <2>1, <3>1, <3>2, <1>2, <1>4 DEF InOrder
  <2>3. \A j \in 1..Len(line) : Before(n, line[j]) BY <2>1, <1>2, <1>4 DEF InOrder
  <2>4. hand' # <<>> => hand'[1].note = n BY <1>10
  <2>5. \A i, j \in 1..Len(line) : i < j => Before(line[i], line[j]) BY <2>1 DEF InOrder
  <2>6. line' = line BY <1>6
  <2> QED BY <2>2, <2>3, <2>4, <2>5, <2>6 DEF InOrder, Before, Rank
<1>16. StreamsKnown'
  <2>1. StreamsKnown BY DEF TurnsInv
  <2>2. \A t \in Turns : /\ start[t] = "new" => named'[t] = Unnamed /\ outcome[t] = "none"
                         /\ start[t] = "returned" => named'[t] # Unnamed
    BY <2>1, <1>7, <1>9, <1>11, TurnIds DEF StreamsKnown, Streaming
  <2>3. ASSUME NEW x \in Turns, NEW w \in Turns, x # w, named'[x] = w
        PROVE  w < x /\ start[w] \in {"returned", "failed"} /\ ~Live(w)
    <3>1. CASE named'[x] = named[x] BY <2>1, <2>3, <3>1 DEF StreamsKnown
    <3>2. CASE x = s /\ s # Unnamed /\ named[x] = Unnamed /\ named'[x] = n.turn
      BY <2>3, <3>2, <1>3, <1>7, <1>8, AdoptsDead
    <3> QED BY <3>1, <3>2, <1>11
  <2>4. hand' # <<>> => start[hand'[1].to] # "new" BY <1>9, <1>10 DEF Streaming
  <2> QED BY <2>1, <2>2, <2>3, <2>4, <1>6 DEF StreamsKnown, Streaming, InStreams, Live, Clean
<1>17. StreamsSound'
  <2> SUFFICES ASSUME subscribed, NEW x \in Turns, Streaming(x), Clean(x) PROVE StreamSound(x)'
    BY <1>6 DEF StreamsSound, Streaming, Clean
  <2>1. StreamSound(x) BY DEF TurnsInv, StreamsSound
  <2>2. x = s /\ s # n.turn => named[s] # Unnamed /\ (outcome[s] = "none" => s \in lost /\ s < n.turn)
    <3> SUFFICES ASSUME x = s, s # n.turn PROVE named[s] # Unnamed /\ (outcome[s] = "none" => s \in lost /\ s < n.turn)
      OBVIOUS
    <3>1. s # Unnamed BY TurnIds
    <3> QED BY <1>1, <1>2, <1>3, <1>7, <3>1, ForAnother
  <2>3. named'[x] \in {Unnamed, x} BY <2>1, <2>2, <1>11 DEF StreamSound
  <2>4. ASSUME NoneLeft(x) PROVE NoneLeft(x)'
    <3>1. n.turn # x BY <2>4, <1>2, <1>4 DEF NoneLeft
    <3>2. \A i \in 1..Len(queue') : queue'[i].turn # x BY <2>4, <1>4 DEF NoneLeft
    <3>3. hand' # <<>> => hand'[1].note.turn # x BY <3>1, <1>10
    <3> QED BY <2>4, <3>2, <3>3, <1>6 DEF NoneLeft
  <2>5. ASSUME EndToCome(x), outcome[x] = "none" PROVE EndToCome(x)'
    <3> DEFINE e == [kind |-> "completed", turn |-> x]
    <3>1. CASE \E i \in 1..Len(line) : line[i] = e BY <3>1, <1>6 DEF EndToCome
    <3>2. CASE \E i \in 1..Len(queue) : queue[i] = e
      <4>1. PICK i \in 1..Len(queue) : queue[i] = e BY <3>2
      <4>2. CASE i = 1
        <5>1. n = e BY <4>1, <4>2, <1>2
        <5>2. s = x BY <5>1, <1>3, <2>5, OwnFound
        <5>3. hand' = <<[note |-> n, to |-> s]>> BY <5>2, <1>5, TurnIds
        <5>4. hand' # <<>> /\ hand'[1] = [note |-> e, to |-> x] BY <5>1, <5>2, <5>3
        <5> QED BY <5>4 DEF EndToCome
      <4>3. CASE i # 1
        <5>1. i - 1 \in 1..Len(queue') /\ queue'[i - 1] = queue[(i - 1) + 1] /\ (i - 1) + 1 = i
          BY <4>1, <4>3, <1>4
        <5> QED BY <4>1, <5>1 DEF EndToCome
      <4> QED BY <4>2, <4>3
    <3> QED BY <2>5, <3>1, <3>2, <1>1 DEF EndToCome
  <2>6. hand' # <<>> /\ hand'[1].to = x /\ outcome[x] = "none" /\ hand'[1].note.turn # x =>
            x \in lost /\ x < hand'[1].note.turn
    <3>1. hand' # <<>> => hand'[1].to = s /\ hand'[1].note.turn = n.turn BY <1>10
    <3> QED BY <3>1, <2>2
  <2> QED BY <2>1, <2>3, <2>4, <2>5, <2>6, <1>6 DEF StreamSound
<1> QED BY <1>12, <1>13, <1>14, <1>15, <1>16, <1>17 DEF TurnsInv

---------------------------------------------------------------------------
(* The pump delivers.                                                      *)

\* A turn that was given up stays given up.
LEMMA GivenUpStays ==
    ASSUME \A t \in Turns : outcome[t] = "abandoned" => outcome'[t] = "abandoned",
           \A t \in Turns : start[t] = "failed" => start'[t] = "failed"
    PROVE  \A x \in Turns : Clean(x)' => Clean(x)
<1> SUFFICES ASSUME NEW x \in Turns, Clean(x)', NEW u \in 1..(x - 1) PROVE outcome[u] # "abandoned" /\ start[u] # "failed" BY DEF Clean
<1>1. u \in Turns BY TurnsAssumption DEF Turns
<1>2. outcome'[u] # "abandoned" /\ start'[u] # "failed" BY DEF Clean
<1> QED BY <1>1, <1>2

\* The streams when s is taken out.
LEMMA StreamsTakenOut ==
    ASSUME TurnsInv, NEW s \in Turns
    PROVE  /\ streams \in Seq(Turns) /\ Without(streams, s) \in Seq(Turns)
           /\ \A i, j \in 1..Len(streams) : streams[i] = streams[j] => i = j
           /\ \A i, j \in 1..Len(Without(streams, s)) : Without(streams, s)[i] = Without(streams, s)[j] => i = j
           /\ \A u : (\E i \in 1..Len(Without(streams, s)) : Without(streams, s)[i] = u)
                         <=> u # s /\ \E i \in 1..Len(streams) : streams[i] = u
<1>1. streams \in Seq(Turns) BY DEF TurnsInv, TurnsTyped, TurnsTypeOK
<1>2. \A i, j \in 1..Len(streams) : streams[i] = streams[j] => i = j BY DEF TurnsInv, StreamsKnown
<1>4. \A u : (\E i \in 1..Len(Without(streams, s)) : Without(streams, s)[i] = u)
                         <=> u # s /\ \E i \in 1..Len(streams) : streams[i] = u
  BY <1>1, <1>2, TakenOut, Zenon
<1>5. \A i, j \in 1..Len(Without(streams, s)) : Without(streams, s)[i] = Without(streams, s)[j] => i = j
  BY <1>1, <1>2, TakenOut
<1>6. Without(streams, s) \in Seq(Turns) BY <1>1, <1>2, TakenOut
<1> QED BY <1>1, <1>2, <1>4, <1>5, <1>6, Zenon

LEMMA HandGiven ==
    ASSUME TurnsInv, hand # <<>>
    PROVE  /\ hand[1].to \in Turns /\ hand[1].note.turn \in Turns /\ hand[1].note.kind \in NoteKinds
           /\ Head(hand) = hand[1]
<1>1. hand \in Seq([note : [kind : {"started", "completed"}, turn : Turns], to : Turns])
  BY DEF TurnsInv, TurnsTyped, TurnsTypeOK
<1> DEFINE S == [note : [kind : {"started", "completed"}, turn : Turns], to : Turns]
<1>2. Head(hand) \in S /\ Head(hand) = hand[1]
  <2> HIDE DEF S
  <2>1. hand \in Seq(S) BY <1>1 DEF S
  <2> QED BY <2>1, OneLess
<1> QED BY <1>2 DEF NoteKinds

\* When the end of s or of a later turn comes out of the pump, nothing of s is behind it.
LEMMA NothingBehind ==
    ASSUME TurnsInv, hand # <<>>, NEW s \in Turns, Streaming(s),
           \/ s < hand[1].note.turn
           \/ s = hand[1].note.turn /\ hand[1].note.kind = "completed",
           hand' = <<>>, UNCHANGED <<line, queue, told>>
    PROVE  NoneLeft(s)'
<1> PICK n : n = hand[1].note BY Zenon
<1>1. n.turn \in Turns /\ n.kind \in NoteKinds BY HandGiven
<1>2. s \in Nat /\ n.turn \in Nat BY <1>1, TurnIds
<1>3. <<n.turn, n.kind>> \in told BY DEF TurnsInv, OnlyTold
<1>4. <<s, "completed">> \in told
  <2>1. CASE s = n.turn BY <2>1, <1>2, <1>3
  <2>2. CASE s < n.turn
    <3>1. Started(<<n.turn, n.kind>>[1]) BY <1>3 DEF TurnsInv, ServerInOrder
    <3>2. start[s] \in {"returned", "failed"} BY <1>1, <2>2, <3>1 DEF TurnsInv, CallersInOrder, Started
    <3>3. start[s] = "returned" BY <3>2 DEF Streaming
    <3>4. <<s, "response">> \in told BY <3>3 DEF TurnsInv, OnlyTold
    <3>5. <<s, "response">>[1] = active \/ <<<<s, "response">>[1], "completed">> \in told
      BY <3>4 DEF TurnsInv, ServerInOrder
    <3>6. s = active => n.turn <= s
      <4>1. active \in Turns => <<n.turn, n.kind>>[1] <= active BY <1>3 DEF TurnsInv, ServerInOrder
      <4> QED BY <4>1
    <3> QED BY <3>5, <3>6, <2>2, <1>2
  <2> QED BY <2>1, <2>2
<1>5. ASSUME NEW m, m.turn = s, m.kind \in NoteKinds, Before(n, m) PROVE FALSE
  <2>1. Rank(n) < Rank(m) BY <1>1, <1>5 DEF Before
  <2>2. Rank(m) \in {2 * s, 2 * s + 1} /\ Rank(n) \in {2 * n.turn, 2 * n.turn + 1}
    BY <1>2, <1>5 DEF Rank
  <2>3. s = n.turn => Rank(n) = 2 * s + 1
    <3>1. s = n.turn => n.kind = "completed" BY <1>2
    <3> QED BY <3>1 DEF Rank
  <2> QED BY <2>1, <2>2, <2>3, <1>2
<1>6. ASSUME NEW i \in 1..Len(queue) PROVE queue[i].turn # s
  <2>1. queue[i] \in Notes
    <3>1. queue \in Seq(Notes) BY DEF TurnsInv, TurnsTyped
    <3> QED BY <3>1, ElementOfSeq
  <2>2. Before(n, queue[i]) BY DEF TurnsInv, InOrder
  <2> QED BY <2>1, <2>2, <1>5 DEF Notes
<1>7. ASSUME NEW i \in 1..Len(line), line[i].turn = s PROVE line[i].kind \notin NoteKinds
  <2>1. Before(n, line[i]) BY DEF TurnsInv, InOrder
  <2> QED BY <2>1, <1>5, <1>7
<1> QED BY <1>4, <1>6, <1>7 DEF NoneLeft

LEMMA HandEmptied ==
    ASSUME TurnsInv, TurnsTyped', hand # <<>>, hand' = <<>>, NEW s \in Turns, s = hand[1].to,
           NEW how, how = IF outcome[s] = "none" THEN EndedBy(s, hand[1].note.turn) ELSE outcome[s],
           \/ UNCHANGED <<outcome, streams>> /\ hand[1].note.kind = "started"
           \/ UNCHANGED outcome /\ (outcome[s] # "none" \/ ~subscribed) /\ streams' = Without(streams, s)
           \/ /\ hand[1].note.kind = "completed"
              /\ outcome' = [outcome EXCEPT ![s] = how] /\ streams' = Without(streams, s),
           UNCHANGED <<taken, active, told, start, line, queue, answers, named, subscribed, lost, open>>
    PROVE  TurnsInv'
<1>1. TurnsTyped /\ outcome \in [Turns -> {"none", "own", "foreign", "closed", "failed", "abandoned"}]
      /\ streams \in Seq(Turns)
  BY DEF TurnsInv, TurnsTyped, TurnsTypeOK
<1> PICK n : n = hand[1].note BY Zenon
<1>2. n.turn \in Turns /\ n.kind \in NoteKinds BY HandGiven
<1>a. UNCHANGED outcome \/ (hand[1].note.kind = "completed" /\ outcome' = [outcome EXCEPT ![s] = how]) OBVIOUS
<1>3. \A t \in Turns : outcome'[t] = outcome[t] \/ (outcome[t] = "none" /\ t = s) BY <1>1, <1>a
<1>4. \A x \in Turns : Clean(x)' => Clean(x)
  <2>1. \A t \in Turns : start[t] = "failed" => start'[t] = "failed" OBVIOUS
  <2>2. \A t \in Turns : outcome[t] = "abandoned" => outcome'[t] = "abandoned" BY <1>3
  <2> QED BY <2>1, <2>2, GivenUpStays
<1>5. outcome'[s] = outcome[s] \/ (outcome[s] = "none" /\ n.kind = "completed"
          /\ outcome'[s] = IF n.turn = s THEN "own" ELSE "foreign")
  BY <1>1, <1>a DEF EndedBy
<1>b. streams' = streams \/ streams' = Without(streams, s) OBVIOUS
<1>c. \A i, j \in 1..Len(streams) : streams[i] = streams[j] => i = j BY DEF TurnsInv, StreamsKnown
<1>d. \A u : (\E i \in 1..Len(Without(streams, s)) : Without(streams, s)[i] = u)
                 <=> u # s /\ \E i \in 1..Len(streams) : streams[i] = u
  BY StreamsTakenOut, Zenon
<1>6. \A t \in Turns : InStreams(t)' => InStreams(t)
  <2>1. \A t : (\E i \in 1..Len(Without(streams, s)) : Without(streams, s)[i] = t) => InStreams(t)
    BY <1>d DEF InStreams
  <2> QED BY <2>1, <1>b DEF InStreams
<1>7. \A t \in Turns : InStreams(t) /\ t # s => InStreams(t)'
  <2>1. \A t : t # s /\ InStreams(t) => (\E i \in 1..Len(Without(streams, s)) : Without(streams, s)[i] = t)
    BY <1>d DEF InStreams
  <2> QED BY <2>1, <1>b DEF InStreams
<1>8. \A i, j \in 1..Len(streams') : streams'[i] = streams'[j] => i = j
  <2>1. \A i, j \in 1..Len(streams) : streams[i] = streams[j] => i = j BY DEF TurnsInv, StreamsKnown
  <2>2. \A i, j \in 1..Len(Without(streams, s)) : Without(streams, s)[i] = Without(streams, s)[j] => i = j
    BY <1>1, <2>1, TakenOut
  <2> QED BY <2>1, <2>2
<1>9. CallersInOrder' /\ ServerInOrder' BY DEF TurnsInv, CallersInOrder, ServerInOrder, Started
<1>10. OnlyTold' /\ InOrder' BY DEF TurnsInv, OnlyTold, InOrder, Before, Rank
<1>11. StreamsKnown'
  <2>1. StreamsKnown BY DEF TurnsInv
  <2>2. \A i \in 1..Len(streams') : Streaming(streams'[i])
    <3> SUFFICES ASSUME NEW i \in 1..Len(streams') PROVE Streaming(streams'[i]) OBVIOUS
    <3>1. streams'[i] \in Turns
      <4>1. streams' \in Seq(Turns) BY DEF TurnsTyped, TurnsTypeOK
      <4> QED BY <4>1, ElementOfSeq
    <3>2. InStreams(streams'[i]) BY <3>1, <1>6 DEF InStreams
    <3> QED BY <2>1, <3>2 DEF StreamsKnown, InStreams
  <2>3. ASSUME NEW t \in Turns, Streaming(t), outcome'[t] = "none", subscribed PROVE InStreams(t)'
    <3>1. outcome[t] = "none" BY <2>3, <1>3
    <3>2. InStreams(t) BY <2>1, <2>3, <3>1 DEF StreamsKnown
    <3>3. CASE t # s BY <3>2, <3>3, <1>7
    <3>4. CASE t = s
      <4>1. streams' = streams BY <2>3, <3>1, <3>4, <1>1 DEF EndedBy
      <4> QED BY <3>2, <4>1 DEF InStreams
    <3> QED BY <3>3, <3>4
  <2>4. \A t \in Turns : /\ start[t] = "new" => named[t] = Unnamed /\ outcome'[t] = "none"
                         /\ start[t] = "returned" => named[t] # Unnamed
    BY <2>1, <1>3 DEF StreamsKnown
  <2>5. ASSUME NEW x \in Turns, NEW w \in Turns, x # w, named[x] = w
        PROVE  w < x /\ start[w] \in {"returned", "failed"} /\ ~Live(w)'
    <3>1. w < x /\ start[w] \in {"returned", "failed"} /\ ~Live(w) BY <2>1, <2>5 DEF StreamsKnown
    <3>2. Live(w)' => Live(w) BY <1>3, <1>4 DEF Live
    <3> QED BY <3>1, <3>2
  <2> QED BY <2>2, <2>3, <2>4, <2>5, <1>8 DEF StreamsKnown, Streaming
<1>12. StreamsSound'
  <2> SUFFICES ASSUME subscribed, NEW x \in Turns, Streaming(x), Clean(x)' PROVE StreamSound(x)'
    BY DEF StreamsSound, Streaming
  <2>1. StreamSound(x) BY <1>4 DEF TurnsInv, StreamsSound
  <2>2. NoneLeft(x) => NoneLeft(x)' BY DEF NoneLeft
  <2>3. x = s /\ outcome[s] = "none" /\ n.kind = "completed" => NoneLeft(s)' /\ (n.turn # s => s \in lost)
    <3> SUFFICES ASSUME x = s, outcome[s] = "none", n.kind = "completed"
                 PROVE  NoneLeft(s)' /\ (n.turn # s => s \in lost)
      OBVIOUS
    <3>1. n.turn # s => s \in lost /\ s < n.turn BY <2>1 DEF StreamSound
    <3> QED BY <3>1, NothingBehind
  <2>4. outcome'[x] = "none" /\ EndToCome(x) => EndToCome(x)'
    <3> SUFFICES ASSUME outcome'[x] = "none", EndToCome(x), hand[1] = [note |-> [kind |-> "completed", turn |-> x], to |-> x]
                 PROVE  FALSE
      BY DEF EndToCome
    <3>1. x = s /\ n.kind = "completed" /\ n.turn = x OBVIOUS
    <3>2. outcome'[s] # "none" BY <3>1, <1>1 DEF EndedBy
    <3> QED BY <3>1, <3>2
  <2>5. CASE outcome'[x] = outcome[x]
    BY <2>1, <2>2, <2>4, <2>5 DEF StreamSound
  <2>6. CASE outcome'[x] # outcome[x]
    <3>1. x = s /\ outcome[s] = "none" /\ n.kind = "completed"
          /\ outcome'[s] = IF n.turn = s THEN "own" ELSE "foreign"
      BY <2>6, <1>3, <1>5
    <3> QED BY <2>1, <2>3, <3>1 DEF StreamSound
  <2> QED BY <2>5, <2>6
<1>13. ShutIsOver' BY <1>3, <1>5 DEF TurnsInv, ShutIsOver
<1>14. OwnOrExcused'
  <2> SUFFICES ASSUME NEW x \in Turns, start[x] \in {"waiting", "returned"}, outcome'[x] = "foreign", Clean(x)'
               PROVE  x \in lost
    BY DEF OwnOrExcused
  <2>1. CASE outcome[x] = "foreign" BY <2>1, <1>4 DEF TurnsInv, OwnOrExcused
  <2>2. CASE outcome[x] # "foreign"
    <3>1. x = s /\ outcome[s] = "none" /\ n.turn # s BY <2>2, <1>3, <1>5
    <3>2. subscribed BY <3>1 DEF TurnsInv, ShutIsOver
    <3>3. StreamSound(s) BY <3>1, <3>2, <1>4 DEF TurnsInv, StreamsSound, Streaming
    <3> QED BY <3>1, <3>3 DEF StreamSound
  <2> QED BY <2>1, <2>2
<1> QED BY <1>9, <1>10, <1>11, <1>12, <1>13, <1>14 DEF TurnsInv

LEMMA PumpDeliversKeeps == ASSUME TurnsInv, PumpDelivers PROVE TurnsInv'
<1> USE DEF serverVars, transportVars, promptVars, streamVars, threadVars
<1> PICK s, n : s = hand[1].to /\ n = hand[1].note BY Zenon
<1>1. TurnsTyped /\ hand # <<>> /\ Head(hand) = hand[1] /\ s \in Turns /\ n.turn \in Turns /\ n.kind \in NoteKinds
  BY HandGiven DEF TurnsInv, PumpDelivers
<1>2. UNCHANGED <<taken, active, told, start, line, queue, answers, named, subscribed, lost, open,
                  server, lineReader, awaited, handlers, pump, closing>>
  BY DEF PumpDelivers
<1>3. \/ /\ events[s] < EventRoom /\ Delivered(s, n) /\ hand' = <<>> /\ UNCHANGED panicked
      \/ /\ outcome[s] # "none" \/ ~subscribed
         /\ Discarded(s) /\ hand' = <<>> /\ UNCHANGED panicked
      \/ panicked' = TRUE /\ UNCHANGED <<hand, streams, outcome, events, shutEvents, revoked>>
  BY <1>1 DEF PumpDelivers
<1>4. streams \in Seq(Turns) /\ Without(streams, s) \in Seq(Turns)
  <2>1. streams \in Seq(Turns) BY <1>1 DEF TurnsTyped, TurnsTypeOK
  <2>2. \A i, j \in 1..Len(streams) : streams[i] = streams[j] => i = j BY DEF TurnsInv, StreamsKnown
  <2> QED BY <2>1, <2>2, TakenOut
<1>5. Len(<<>>) = 0 /\ <<>> \in Seq([note : [kind : {"started", "completed"}, turn : Turns], to : Turns]) BY EmptySeq
<1>6. CASE panicked' = TRUE /\ UNCHANGED <<hand, streams, outcome, events, shutEvents, revoked>>
  BY <1>1, <1>2, <1>6, QuietTurns DEF TurnsTyped, TurnsTypeOK
<1>7. CASE /\ outcome[s] # "none" \/ ~subscribed
           /\ Discarded(s) /\ hand' = <<>> /\ UNCHANGED panicked
  <2>1. TurnsTyped' BY <1>1, <1>2, <1>4, <1>5, <1>7 DEF TurnsTyped, TurnsTypeOK, Discarded
  <2> QED BY <1>1, <1>2, <1>7, <2>1, HandEmptied DEF Discarded
<1>8. CASE events[s] < EventRoom /\ Delivered(s, n) /\ hand' = <<>> /\ UNCHANGED panicked
  <2> DEFINE how == IF outcome[s] = "none" THEN EndedBy(s, n.turn) ELSE outcome[s]
  <2>1. \/ n.kind = "completed" /\ outcome' = [outcome EXCEPT ![s] = how] /\ streams' = Without(streams, s)
           /\ shutEvents' = shutEvents \cup {s}
        \/ n.kind = "started" /\ UNCHANGED <<outcome, streams, shutEvents>>
    BY <1>1, <1>8 DEF Delivered, Finish, NoteKinds
  <2>2. events' \in [Turns -> 0..EventRoom] /\ revoked' \subseteq Turns
    BY <1>1, <1>8, TurnsAssumption DEF Delivered, CancelTurn, TurnsTyped, TurnsTypeOK
  <2>3. outcome' \in [Turns -> {"none", "own", "foreign", "closed", "failed", "abandoned"}]
    BY ZenonT(60), <1>1, <2>1 DEF EndedBy, TurnsTyped, TurnsTypeOK
  <2>4. streams' \in Seq(Turns) /\ shutEvents' \subseteq Turns /\ panicked' = panicked
    BY <1>1, <1>4, <1>8, <2>1 DEF TurnsTyped, TurnsTypeOK
  <2>5. Len(hand') <= 1 /\ hand' \in Seq([note : [kind : {"started", "completed"}, turn : Turns], to : Turns])
    BY <1>5, <1>8
  <2> HIDE DEF how
  <2>6. TurnsTyped' BY <1>1, <1>2, <2>2, <2>3, <2>4, <2>5 DEF TurnsTyped, TurnsTypeOK
  <2> USE DEF how
  <2> QED BY <1>1, <1>2, <1>8, <2>1, <2>6, HandEmptied
<1> QED BY <1>3, <1>6, <1>7, <1>8

---------------------------------------------------------------------------
(* The thread shuts down.                                                  *)

LEMMA ClosedKeeps ==
    ASSUME TurnsInv, TurnsTyped', ~open, subscribed' = FALSE,
           outcome' = [t \in Turns |-> IF t \in {streams[i] : i \in 1..Len(streams)} /\ outcome[t] = "none"
                                       THEN "closed" ELSE outcome[t]],
           UNCHANGED <<taken, active, told, start, line, queue, hand, answers, streams, named, lost, open>>
    PROVE  TurnsInv'
<1>1. \A t \in Turns : outcome'[t] = IF InStreams(t) /\ outcome[t] = "none" THEN "closed" ELSE outcome[t]
  BY DEF InStreams
<1>2. \A x \in Turns : Clean(x)' => Clean(x)
  <2>1. \A t \in Turns : start[t] = "failed" => start'[t] = "failed" OBVIOUS
  <2>2. \A t \in Turns : outcome[t] = "abandoned" => outcome'[t] = "abandoned" BY <1>1
  <2> QED BY <2>1, <2>2, GivenUpStays
<1>3. CallersInOrder' /\ ServerInOrder' /\ OnlyTold' /\ InOrder'
  BY DEF TurnsInv, CallersInOrder, ServerInOrder, Started, OnlyTold, InOrder, Before, Rank
<1>4. StreamsKnown'
  <2>1. StreamsKnown BY DEF TurnsInv
  <2>2. ASSUME NEW t \in Turns, start[t] = "new" PROVE named[t] = Unnamed /\ outcome'[t] = "none"
    <3>1. ~InStreams(t) BY <2>1, <2>2 DEF StreamsKnown, InStreams, Streaming
    <3> QED BY <2>1, <2>2, <3>1, <1>1 DEF StreamsKnown
  <2> QED BY <2>1, <2>2 DEF StreamsKnown, Streaming, Live
<1>5. StreamsSound' BY DEF StreamsSound
<1>6. ShutIsOver'
  <2> SUFFICES ASSUME NEW s \in Turns, start[s] \in {"waiting", "returned"}, outcome'[s] = "none" PROVE FALSE
    BY DEF ShutIsOver
  <2>1. outcome[s] = "none" /\ ~InStreams(s) BY <1>1
  <2>2. subscribed BY <2>1 DEF TurnsInv, ShutIsOver
  <2> QED BY <2>1, <2>2 DEF TurnsInv, StreamsKnown, Streaming
<1>7. OwnOrExcused' BY <1>1, <1>2 DEF TurnsInv, OwnOrExcused
<1> QED BY <1>3, <1>4, <1>5, <1>6, <1>7 DEF TurnsInv

LEMMA ShutdownKeeps == ASSUME TurnsInv, Shutdown \/ PumpQuits PROVE TurnsInv'
<1> USE DEF serverVars, transportVars, promptVars, streamVars, threadVars
<1>1. TurnsTyped BY DEF TurnsInv
<1>2. ~open BY DEF TurnsInv, ShutIsOver, Shutdown, PumpQuits
<1>3. outcome' = [t \in Turns |-> IF t \in {streams[i] : i \in 1..Len(streams)} /\ outcome[t] = "none"
                                  THEN "closed" ELSE outcome[t]]
  BY DEF Shutdown, PumpQuits
<1>4. outcome' \in [Turns -> {"none", "own", "foreign", "closed", "failed", "abandoned"}]
  BY <1>1, <1>3 DEF TurnsTyped, TurnsTypeOK
<1>5. {streams[i] : i \in 1..Len(streams)} \subseteq Turns
  <2>1. streams \in Seq(Turns) BY <1>1 DEF TurnsTyped, TurnsTypeOK
  <2> QED BY <2>1, ElementOfSeq
<1>6. CASE Shutdown
  <2>1. TurnsTyped' BY <1>1, <1>4, <1>6 DEF Shutdown, TurnsTyped, TurnsTypeOK
  <2> QED BY <1>2, <1>3, <1>6, <2>1, ClosedKeeps DEF Shutdown
<1>7. CASE PumpQuits
  <2>1. TurnsTyped' BY <1>1, <1>4, <1>5, <1>7 DEF PumpQuits, TurnsTyped, TurnsTypeOK
  <2>2. subscribed' = FALSE BY <1>1, <1>7 DEF PumpQuits, TurnsTyped, TurnsTypeOK
  <2> QED BY <1>2, <1>3, <1>7, <2>1, <2>2, ClosedKeeps DEF PumpQuits
<1> QED BY <1>6, <1>7

---------------------------------------------------------------------------
(* The callers.                                                            *)

LEMMA NewStreamKeeps == ASSUME TurnsInv, NEW t \in Turns, NewStream(t) PROVE TurnsInv'
<1> USE DEF serverVars, transportVars, promptVars, streamVars, threadVars
<1>1. TurnsTyped /\ streams \in Seq(Turns) /\ start \in [Turns -> {"new", "made", "waiting", "returned", "failed"}]
  BY DEF TurnsInv, TurnsTyped, TurnsTypeOK
<1>2. start[t] = "new" /\ start' = [start EXCEPT ![t] = "made"]
      /\ \A u \in 1..(t - 1) : start[u] \in {"returned", "failed"}
  BY DEF NewStream
<1>3. streams' = Append(streams, t) \/ (~subscribed /\ streams' = streams) BY DEF NewStream
<1>4. UNCHANGED <<taken, active, told, line, queue, hand, answers, named, outcome, subscribed, lost, open,
                  server, lineReader, awaited, handlers, revoked, events, shutEvents, pump, panicked, closing>>
  BY DEF NewStream
<1>5. \A x \in Turns : start'[x] = IF x = t THEN "made" ELSE start[x] BY <1>1, <1>2
<1>6. \A x : Started(x)' <=> Started(x)
  <2> SUFFICES ASSUME NEW x PROVE Started(x)' <=> Started(x) OBVIOUS
  <2>1. CASE x = t BY <2>1, <1>2, <1>5 DEF Started
  <2>2. CASE x # t BY <2>2, <1>1, <1>2 DEF Started
  <2> QED BY <2>1, <2>2
<1>7. \A x \in Turns : Clean(x)' => Clean(x)
  <2>1. \A x \in Turns : start[x] = "failed" => start'[x] = "failed" BY <1>2, <1>5
  <2>2. \A x \in Turns : outcome[x] = "abandoned" => outcome'[x] = "abandoned" BY <1>4
  <2> QED BY <2>1, <2>2, GivenUpStays
<1>8. ~InStreams(t) BY <1>2 DEF TurnsInv, StreamsKnown, InStreams, Streaming
<1>9. /\ streams' \in Seq(Turns)
      /\ \A i, j \in 1..Len(streams') : streams'[i] = streams'[j] => i = j
      /\ \A i \in 1..Len(streams') : streams'[i] = t \/ InStreams(streams'[i])
      /\ \A x \in Turns : InStreams(x) => InStreams(x)'
      /\ subscribed => InStreams(t)'
  <2>1. \A i, j \in 1..Len(streams) : streams[i] = streams[j] => i = j BY DEF TurnsInv, StreamsKnown
  <2>2. CASE streams' = streams /\ ~subscribed BY <1>1, <2>1, <2>2 DEF InStreams
  <2>3. CASE streams' = Append(streams, t)
    <3>1. /\ streams' \in Seq(Turns) /\ Len(streams') = Len(streams) + 1 /\ Len(streams) \in Nat
          /\ \A i \in 1..Len(streams) : streams'[i] = streams[i]
          /\ streams'[Len(streams) + 1] = t
      BY <1>1, <2>3, OneMore
    <3>2. \A i \in 1..Len(streams') : i \in 1..Len(streams) \/ i = Len(streams) + 1 BY <3>1
    <3>3. \A i \in 1..Len(streams') : streams'[i] = t \/ InStreams(streams'[i]) BY <3>1, <3>2 DEF InStreams
    <3>4. \A x \in Turns : InStreams(x) => InStreams(x)'
      <4>1. 1..Len(streams) \subseteq 1..Len(streams') BY <3>1
      <4> QED BY <3>1, <4>1 DEF InStreams
    <3>5. InStreams(t)'
      <4>1. Len(streams) + 1 \in 1..Len(streams') BY <3>1
      <4> QED BY <3>1, <4>1 DEF InStreams
    <3>6. ASSUME NEW i \in 1..Len(streams'), NEW j \in 1..Len(streams'), streams'[i] = streams'[j] PROVE i = j
      <4>1. CASE i \in 1..Len(streams) /\ j \in 1..Len(streams) BY <2>1, <3>1, <3>6, <4>1
      <4>2. CASE i = Len(streams) + 1 /\ j \in 1..Len(streams) BY <1>8, <3>1, <3>6, <4>2 DEF InStreams
      <4>3. CASE i \in 1..Len(streams) /\ j = Len(streams) + 1 BY <1>8, <3>1, <3>6, <4>3 DEF InStreams
      <4> QED BY <3>2, <4>1, <4>2, <4>3
    <3> QED BY <3>1, <3>3, <3>4, <3>5, <3>6
  <2> QED BY <1>3, <2>2, <2>3
<1>10. TurnsTyped' BY <1>1, <1>2, <1>4, <1>9 DEF TurnsTyped, TurnsTypeOK
<1>11. CallersInOrder'
  <2> SUFFICES ASSUME NEW v \in Turns, NEW u \in Turns, u < v, start'[v] # "new" PROVE start'[u] \in {"returned", "failed"}
    BY DEF CallersInOrder
  <2>1. CASE v = t
    <3>1. u \in 1..(t - 1) BY <2>1, TurnsAssumption DEF Turns
    <3>2. u # t BY <2>1, TurnIds
    <3> QED BY <3>1, <3>2, <1>2, <1>5
  <2>2. CASE v # t
    <3>1. start[u] \in {"returned", "failed"} BY <2>2, <1>5 DEF TurnsInv, CallersInOrder
    <3> QED BY <3>1, <1>2, <1>5
  <2> QED BY <2>1, <2>2
<1>12. ServerInOrder'
  BY <1>4, <1>6 DEF TurnsInv, ServerInOrder
<1>13. OnlyTold' BY <1>4, <1>5 DEF TurnsInv, OnlyTold
<1>14. InOrder' BY <1>4 DEF TurnsInv, InOrder, Before, Rank
<1>15. StreamsKnown'
  <2>1. StreamsKnown BY DEF TurnsInv
  <2>2. \A i \in 1..Len(streams') : start'[streams'[i]] \in {"made", "waiting", "returned"}
    <3> SUFFICES ASSUME NEW i \in 1..Len(streams') PROVE start'[streams'[i]] \in {"made", "waiting", "returned"} OBVIOUS
    <3>1. streams'[i] \in Turns BY <1>9, ElementOfSeq
    <3>2. streams'[i] = t \/ Streaming(streams'[i]) BY <1>9, <2>1 DEF StreamsKnown, InStreams
    <3> QED BY <3>1, <3>2, <1>5 DEF Streaming
  <2>3. ASSUME NEW x \in Turns PROVE
           /\ start'[x] = "new" => named[x] = Unnamed /\ outcome[x] = "none"
           /\ start'[x] = "returned" => named[x] # Unnamed
           /\ Streaming(x)' /\ outcome[x] = "none" /\ subscribed => InStreams(x)'
    BY <2>1, <1>5, <1>9 DEF StreamsKnown, Streaming
  <2>4. hand # <<>> => start'[hand[1].to] # "new"
    <3>1. hand # <<>> => hand[1].to \in Turns BY HandGiven
    <3> QED BY <2>1, <3>1, <1>5 DEF StreamsKnown
  <2>5. ASSUME NEW x \in Turns, NEW w \in Turns, x # w, named[x] = w
        PROVE  w < x /\ start'[w] \in {"returned", "failed"} /\ ~Live(w)'
    <3>1. w < x /\ start[w] \in {"returned", "failed"} /\ ~Live(w) BY <2>1, <2>5 DEF StreamsKnown
    <3>2. w # t BY <3>1, <1>2
    <3> QED BY <3>1, <3>2, <1>4, <1>5, <1>7 DEF Live
  <2> QED BY <2>2, <2>3, <2>4, <2>5, <1>4, <1>9 DEF StreamsKnown, Streaming
<1>16. StreamsSound'
  <2> SUFFICES ASSUME subscribed, NEW x \in Turns, Streaming(x)', Clean(x)' PROVE StreamSound(x)'
    BY <1>4 DEF StreamsSound
  <2>1. CASE x # t
    <3>1. StreamSound(x) BY <2>1, <1>5, <1>7 DEF TurnsInv, StreamsSound, Streaming
    <3> QED BY <3>1, <1>4 DEF StreamSound, NoneLeft, EndToCome
  <2>2. CASE x = t
    <3>1. named[t] = Unnamed /\ outcome[t] = "none" BY <1>2 DEF TurnsInv, StreamsKnown
    <3>2. <<t, "completed">> \notin told
      <4> SUFFICES ASSUME <<t, "completed">> \in told PROVE FALSE OBVIOUS
      <4>1. Started(<<t, "completed">>[1]) BY DEF TurnsInv, ServerInOrder
      <4> QED BY <4>1, <1>2 DEF Started
    <3>3. hand # <<>> => hand[1].to # t BY <1>2 DEF TurnsInv, StreamsKnown
    <3> QED BY <2>2, <3>1, <3>2, <3>3, <1>4 DEF StreamSound
  <2> QED BY <2>1, <2>2
<1>17. ShutIsOver' BY <1>4, <1>5 DEF TurnsInv, ShutIsOver
<1>18. OwnOrExcused' BY <1>4, <1>5, <1>7 DEF TurnsInv, OwnOrExcused
<1> QED BY <1>10, <1>11, <1>12, <1>13, <1>14, <1>15, <1>16, <1>17, <1>18 DEF TurnsInv

\* Every turn the server knows of was started before the one whose stream is new.
LEMMA BelowMade ==
    ASSUME TurnsInv, NEW t \in Turns, start[t] = "made", NEW x \in Turns, Started(x)
    PROVE  x < t
<1>1. x # t BY DEF Started
<1>2. ~(t < x) BY DEF TurnsInv, CallersInOrder, Started
<1> QED BY <1>1, <1>2, TurnIds

LEMMA SentKeeps ==
    ASSUME TurnsInv, TurnsTyped', NEW t \in Turns, start[t] = "made", open, start' = [start EXCEPT ![t] = "waiting"],
           taken' = Append(taken, t),
           UNCHANGED <<active, told, line, queue, hand, answers, streams, named, outcome, subscribed, lost, open>>
    PROVE  TurnsInv'
<1>1. TurnsTyped /\ taken \in Seq(Turns) /\ start \in [Turns -> {"new", "made", "waiting", "returned", "failed"}]
  BY DEF TurnsInv, TurnsTyped, TurnsTypeOK
<1>2. subscribed BY <1>1 DEF TurnsInv, ShutIsOver, TurnsTyped, TurnsTypeOK
<1>3. \A x \in Turns : start'[x] = IF x = t THEN "waiting" ELSE start[x] BY <1>1
<1>4. \A x : Started(x) => Started(x)'
  <2> SUFFICES ASSUME NEW x, Started(x) PROVE Started(x)' OBVIOUS
  <2>1. x # t BY DEF Started
  <2> QED BY <2>1, <1>1 DEF Started
<1>5. \A x \in Turns : Streaming(x)' => Streaming(x) BY <1>3 DEF Streaming
<1>6. \A x \in Turns : Clean(x)' => Clean(x)
  <2>1. \A x \in Turns : start[x] = "failed" => start'[x] = "failed" BY <1>3
  <2>2. \A x \in Turns : outcome[x] = "abandoned" => outcome'[x] = "abandoned" OBVIOUS
  <2> QED BY <2>1, <2>2, GivenUpStays
<1>7. CallersInOrder'
  <2> SUFFICES ASSUME NEW v \in Turns, NEW u \in Turns, u < v, start'[v] # "new" PROVE start'[u] \in {"returned", "failed"}
    BY DEF CallersInOrder
  <2>1. start[v] # "new" BY <1>3
  <2>2. start[u] \in {"returned", "failed"} BY <2>1 DEF TurnsInv, CallersInOrder
  <2> QED BY <2>2, <1>3
<1>8. ServerInOrder'
  <2>0. ServerInOrder BY DEF TurnsInv
  <2>1. /\ Len(taken') = Len(taken) + 1 /\ Len(taken) \in Nat
        /\ \A i \in 1..Len(taken) : taken'[i] = taken[i] /\ taken[i] \in Turns
        /\ taken'[Len(taken) + 1] = t
    BY <1>1, OneMore, ElementOfSeq
  <2>2. \A i \in 1..Len(taken) : taken[i] < t BY <2>0, <2>1, BelowMade DEF ServerInOrder
  <2>3. active \in Turns => active < t BY <2>0, BelowMade DEF ServerInOrder
  <2>4. ASSUME NEW x \in told PROVE x[1] < t
    <3>1. x[1] \in Turns BY <1>1 DEF TurnsTyped, TurnsTypeOK
    <3> QED BY <2>0, <3>1, BelowMade DEF ServerInOrder
  <2>5. Started(t)' BY <1>3 DEF Started
  <2>6. ASSUME NEW i \in 1..Len(taken') PROVE
           /\ start'[taken'[i]] \in {"waiting", "returned", "failed"}
           /\ active \in Turns => active < taken'[i]
           /\ \A x \in told : x[1] < taken'[i]
           /\ \A j \in 1..Len(taken') : i < j => taken'[i] < taken'[j]
    <3>1. CASE i \in 1..Len(taken)
      <4>1. taken'[i] = taken[i] /\ taken[i] \in Turns BY <2>1, <3>1
      <4>2. start'[taken[i]] \in {"waiting", "returned", "failed"}
        BY <2>0, <3>1, <4>1, <1>3 DEF ServerInOrder, Started
      <4>3. ASSUME NEW j \in 1..Len(taken'), i < j PROVE taken[i] < taken'[j]
        <5>1. CASE j \in 1..Len(taken) BY <2>0, <2>1, <3>1, <4>3, <5>1 DEF ServerInOrder
        <5>2. CASE j \notin 1..Len(taken)
          <6>1. taken'[j] = t BY <2>1, <5>2
          <6> QED BY <2>2, <3>1, <6>1
        <5> QED BY <5>1, <5>2
      <4> QED BY <2>0, <3>1, <4>1, <4>2, <4>3 DEF ServerInOrder
    <3>2. CASE i \notin 1..Len(taken)
      <4>1. i = Len(taken) + 1 /\ taken'[i] = t BY <2>1, <3>2
      <4>2. \A j \in 1..Len(taken') : ~(i < j) BY <2>1, <4>1
      <4> QED BY <2>3, <2>4, <4>1, <4>2, <1>3
    <3> QED BY <3>1, <3>2
  <2>7. active \in Turns => Started(active)' /\ <<active, "completed">> \notin told
    BY <2>0, <1>4 DEF ServerInOrder
  <2>8. ASSUME NEW x \in told PROVE
           /\ Started(x[1])'
           /\ x[1] = active \/ <<x[1], "completed">> \in told
           /\ active \in Turns => x[1] <= active
    BY <2>0, <1>4 DEF ServerInOrder
  <2> QED BY <2>6, <2>7, <2>8 DEF ServerInOrder, Started
<1>9. OnlyTold' BY <1>3 DEF TurnsInv, OnlyTold
<1>10. InOrder' BY DEF TurnsInv, InOrder, Before, Rank
<1>11. StreamsKnown'
  <2>1. StreamsKnown BY DEF TurnsInv
  <2>2. \A i \in 1..Len(streams) : start'[streams[i]] \in {"made", "waiting", "returned"}
    <3> SUFFICES ASSUME NEW i \in 1..Len(streams) PROVE start'[streams[i]] \in {"made", "waiting", "returned"} OBVIOUS
    <3>1. streams[i] \in Turns
      <4>1. streams \in Seq(Turns) BY <1>1 DEF TurnsTyped, TurnsTypeOK
      <4> QED BY <4>1, ElementOfSeq
    <3> QED BY <2>1, <3>1, <1>3 DEF StreamsKnown, Streaming
  <2>3. ASSUME NEW x \in Turns PROVE
           /\ start'[x] = "new" => named[x] = Unnamed /\ outcome[x] = "none"
           /\ start'[x] = "returned" => named[x] # Unnamed
           /\ Streaming(x)' /\ outcome[x] = "none" => InStreams(x)
    BY <2>1, <1>2, <1>3, <1>5 DEF StreamsKnown
  <2>4. hand # <<>> => start'[hand[1].to] # "new"
    <3>1. hand # <<>> => hand[1].to \in Turns BY HandGiven
    <3> QED BY <2>1, <3>1, <1>3 DEF StreamsKnown
  <2>5. ASSUME NEW x \in Turns, NEW w \in Turns, x # w, named[x] = w
        PROVE  w < x /\ start'[w] \in {"returned", "failed"} /\ ~Live(w)'
    <3>1. w < x /\ start[w] \in {"returned", "failed"} /\ ~Live(w) BY <2>1, <2>5 DEF StreamsKnown
    <3> QED BY <3>1, <1>3, <1>6 DEF Live
  <2>6. \A i, j \in 1..Len(streams) : streams[i] = streams[j] => i = j BY <2>1 DEF StreamsKnown
  <2> QED BY <2>2, <2>3, <2>4, <2>5, <2>6 DEF StreamsKnown, Streaming, InStreams
<1>12. StreamsSound'
  <2> SUFFICES ASSUME NEW x \in Turns, Streaming(x)', Clean(x)' PROVE StreamSound(x)' BY DEF StreamsSound
  <2>1. StreamSound(x) BY <1>2, <1>5, <1>6 DEF TurnsInv, StreamsSound
  <2> QED BY <2>1 DEF StreamSound, NoneLeft, EndToCome
<1>13. ShutIsOver' BY <1>2 DEF ShutIsOver
<1>14. OwnOrExcused'
  <2> SUFFICES ASSUME NEW x \in Turns, start'[x] \in {"waiting", "returned"}, outcome[x] = "foreign", Clean(x)'
               PROVE  x \in lost
    BY DEF OwnOrExcused
  <2>1. StreamSound(x) BY <1>2, <1>5, <1>6 DEF TurnsInv, StreamsSound, Streaming
  <2> QED BY <2>1 DEF StreamSound
<1> QED BY <1>7, <1>8, <1>9, <1>10, <1>11, <1>12, <1>13, <1>14 DEF TurnsInv

LEMMA FailedKeeps ==
    ASSUME TurnsInv, TurnsTyped', NEW t \in Turns, start[t] \in {"made", "waiting"}, StartFails(t),
           UNCHANGED <<taken, active, told, line, queue, hand, answers, named, subscribed, lost, open>>
    PROVE  TurnsInv'
<1>1. /\ TurnsTyped /\ start \in [Turns -> {"new", "made", "waiting", "returned", "failed"}]
      /\ outcome \in [Turns -> {"none", "own", "foreign", "closed", "failed", "abandoned"}]
  BY DEF TurnsInv, TurnsTyped, TurnsTypeOK
<1>2. \A x \in Turns : start'[x] = IF x = t THEN "failed" ELSE start[x] BY <1>1 DEF StartFails
<1>3. \A x \in Turns : outcome'[x] = IF x = t /\ outcome[x] = "none" THEN "failed" ELSE outcome[x]
  BY <1>1 DEF StartFails, Finish
<1>4. \A x : Started(x) => Started(x)'
  <2> SUFFICES ASSUME NEW x, Started(x) PROVE Started(x)' OBVIOUS
  <2>1. CASE x = t BY <2>1, <1>2 DEF Started
  <2>2. CASE x # t BY <2>2, <1>1 DEF Started, StartFails
  <2> QED BY <2>1, <2>2
<1>5. \A x \in Turns : Streaming(x)' => Streaming(x) /\ x # t BY <1>2 DEF Streaming
<1>6. \A x \in Turns : Clean(x)' => Clean(x)
  <2>1. \A x \in Turns : start[x] = "failed" => start'[x] = "failed" BY <1>2
  <2>2. \A x \in Turns : outcome[x] = "abandoned" => outcome'[x] = "abandoned" BY <1>3
  <2> QED BY <2>1, <2>2, GivenUpStays
<1>7. CallersInOrder' BY <1>2 DEF TurnsInv, CallersInOrder
<1>8. ServerInOrder' BY <1>4 DEF TurnsInv, ServerInOrder
<1>9. OnlyTold' BY <1>2 DEF TurnsInv, OnlyTold
<1>10. InOrder' BY DEF TurnsInv, InOrder, Before, Rank
<1>11. streams' = Without(streams, t) BY DEF StartFails
<1>12. /\ streams' \in Seq(Turns)
       /\ \A i, j \in 1..Len(streams') : streams'[i] = streams'[j] => i = j
       /\ \A x \in Turns : InStreams(x)' <=> x # t /\ InStreams(x)
  BY ZenonT(60), <1>11, StreamsTakenOut DEF InStreams
<1>13. StreamsKnown'
  <2>1. StreamsKnown BY DEF TurnsInv
  <2>2. \A i \in 1..Len(streams') : start'[streams'[i]] \in {"made", "waiting", "returned"}
    <3> SUFFICES ASSUME NEW i \in 1..Len(streams') PROVE start'[streams'[i]] \in {"made", "waiting", "returned"} OBVIOUS
    <3>1. PICK x \in Turns : x = streams'[i] BY <1>12, ElementOfSeq
    <3>2. InStreams(x)' BY <3>1 DEF InStreams
    <3>3. InStreams(x) /\ x # t BY <3>2, <1>12
    <3>4. Streaming(x) BY <2>1, <3>3 DEF StreamsKnown, InStreams
    <3> QED BY <3>1, <3>3, <3>4, <1>2 DEF Streaming
  <2>3. ASSUME NEW x \in Turns PROVE
           /\ start'[x] = "new" => named[x] = Unnamed /\ outcome'[x] = "none"
           /\ start'[x] = "returned" => named[x] # Unnamed
           /\ Streaming(x)' /\ outcome'[x] = "none" /\ subscribed => InStreams(x)'
    BY <2>1, <1>2, <1>3, <1>5, <1>12 DEF StreamsKnown
  <2>4. hand # <<>> => start'[hand[1].to] # "new"
    <3>1. hand # <<>> => hand[1].to \in Turns BY HandGiven
    <3> QED BY <2>1, <3>1, <1>2 DEF StreamsKnown
  <2>5. ASSUME NEW x \in Turns, NEW w \in Turns, x # w, named[x] = w
        PROVE  w < x /\ start'[w] \in {"returned", "failed"} /\ ~Live(w)'
    <3>1. w < x /\ start[w] \in {"returned", "failed"} /\ ~Live(w) BY <2>1, <2>5 DEF StreamsKnown
    <3> QED BY <3>1, <1>2, <1>3, <1>6 DEF Live
  <2> QED BY <2>2, <2>3, <2>4, <2>5, <1>12 DEF StreamsKnown, Streaming
<1>14. StreamsSound'
  <2> SUFFICES ASSUME subscribed, NEW x \in Turns, Streaming(x)', Clean(x)' PROVE StreamSound(x)' BY DEF StreamsSound
  <2>1. StreamSound(x) /\ outcome'[x] = outcome[x] BY <1>3, <1>5, <1>6 DEF TurnsInv, StreamsSound
  <2> QED BY <2>1 DEF StreamSound, NoneLeft, EndToCome
<1>15. ShutIsOver' BY <1>2, <1>3 DEF TurnsInv, ShutIsOver
<1>16. OwnOrExcused' BY <1>2, <1>3, <1>6 DEF TurnsInv, OwnOrExcused
<1> QED BY <1>7, <1>8, <1>9, <1>10, <1>13, <1>14, <1>15, <1>16 DEF TurnsInv

LEMMA StartKeeps == ASSUME TurnsInv, NEW t \in Turns, SendStart(t) \/ StartGivesUp(t) PROVE TurnsInv'
<1> USE DEF serverVars, transportVars, promptVars, streamVars, threadVars
<1>1. TurnsTyped BY DEF TurnsInv
<1>2. ASSUME StartFails(t), awaited' \subseteq awaited, start[t] \in {"made", "waiting"},
             UNCHANGED <<serverVars, line, open, lineReader, answers, promptVars, named, events, threadVars, closing>>
      PROVE  TurnsInv'
  <2>1. TurnsTyped' BY <1>1, <1>2, StreamsTakenOut DEF StartFails, Finish, TurnsTyped, TurnsTypeOK
  <2> QED BY <1>2, <2>1, FailedKeeps
<1>3. CASE StartGivesUp(t) BY <1>2, <1>3 DEF StartGivesUp
<1>4. CASE SendStart(t)
  <2>1. CASE StartFails(t) /\ UNCHANGED <<awaited, taken>> BY <1>2, <1>4, <2>1 DEF SendStart
  <2>2. CASE /\ open /\ server = "up"
             /\ start' = [start EXCEPT ![t] = "waiting"]
             /\ awaited' = awaited \cup {t} /\ taken' = Append(taken, t)
             /\ UNCHANGED <<streams, outcome, shutEvents>>
    <3>1. taken' \in Seq(Turns) BY <1>1, <2>2, OneMore DEF TurnsTyped, TurnsTypeOK
    <3>2. TurnsTyped' BY <1>1, <1>4, <2>2, <3>1 DEF SendStart, TurnsTyped, TurnsTypeOK
    <3> QED BY <1>4, <2>2, <3>2, SentKeeps DEF SendStart
  <2> QED BY <1>4, <2>1, <2>2 DEF SendStart
<1> QED BY <1>3, <1>4

LEMMA ReturnsKeeps == ASSUME TurnsInv, NEW t \in Turns, StartReturns(t) PROVE TurnsInv'
<1> USE DEF serverVars, transportVars, promptVars, streamVars, threadVars
<1>1. /\ TurnsTyped /\ start \in [Turns -> {"new", "made", "waiting", "returned", "failed"}]
      /\ named \in [Turns -> Turns \cup {Unnamed}] /\ start[t] = "waiting" /\ t \in answers
  BY DEF TurnsInv, TurnsTyped, TurnsTypeOK, StartReturns
<1>2. \A x \in Turns : start'[x] = IF x = t THEN "returned" ELSE start[x] BY <1>1 DEF StartReturns
<1>3. \A x \in Turns : named'[x] = IF x = t /\ named[x] = Unnamed THEN t ELSE named[x]
  BY <1>1 DEF StartReturns
<1>4. \A x : Started(x) => Started(x)'
  <2> SUFFICES ASSUME NEW x, Started(x) PROVE Started(x)' OBVIOUS
  <2>1. CASE x = t BY <2>1, <1>2 DEF Started
  <2>2. CASE x # t BY <2>2, <1>1 DEF Started, StartReturns
  <2> QED BY <2>1, <2>2
<1>5. \A x \in Turns : Streaming(x)' <=> Streaming(x) BY <1>1, <1>2 DEF Streaming
<1>6. \A x \in Turns : Clean(x)' => Clean(x)
  <2>1. \A x \in Turns : start[x] = "failed" => start'[x] = "failed" BY <1>1, <1>2
  <2>2. \A x \in Turns : outcome[x] = "abandoned" => outcome'[x] = "abandoned" BY DEF StartReturns
  <2> QED BY <2>1, <2>2, GivenUpStays
<1> USE DEF StartReturns
<1>7. TurnsTyped' BY <1>1 DEF TurnsTyped, TurnsTypeOK
<1>8. CallersInOrder' BY <1>1, <1>2 DEF TurnsInv, CallersInOrder
<1>9. ServerInOrder' BY <1>4 DEF TurnsInv, ServerInOrder
<1>10. OnlyTold' BY <1>1, <1>2 DEF TurnsInv, OnlyTold
<1>11. InOrder' BY DEF TurnsInv, InOrder, Before, Rank
<1>12. StreamsKnown'
  <2>1. StreamsKnown BY DEF TurnsInv
  <2>2. \A i \in 1..Len(streams) : Streaming(streams[i])'
    <3> SUFFICES ASSUME NEW i \in 1..Len(streams) PROVE Streaming(streams[i])' OBVIOUS
    <3>1. streams[i] \in Turns
      <4>1. streams \in Seq(Turns) BY <1>1 DEF TurnsTyped, TurnsTypeOK
      <4> QED BY <4>1, ElementOfSeq
    <3>2. Streaming(streams[i]) BY <2>1 DEF StreamsKnown
    <3> QED BY <3>1, <3>2, <1>1, <1>2 DEF Streaming
  <2>3. ASSUME NEW x \in Turns PROVE
           /\ start'[x] = "new" => named'[x] = Unnamed /\ outcome[x] = "none"
           /\ start'[x] = "returned" => named'[x] # Unnamed
           /\ Streaming(x)' /\ outcome[x] = "none" /\ subscribed => InStreams(x)
    BY <2>1, <1>1, <1>2, <1>3, <1>5, TurnIds DEF StreamsKnown
  <2>4. hand # <<>> => start'[hand[1].to] # "new"
    <3>1. hand # <<>> => hand[1].to \in Turns BY <1>1, HandGiven
    <3> QED BY <2>1, <3>1, <1>2 DEF StreamsKnown
  <2>5. ASSUME NEW x \in Turns, NEW w \in Turns, x # w, named'[x] = w
        PROVE  w < x /\ start'[w] \in {"returned", "failed"} /\ ~Live(w)'
    <3>1. named[x] = w BY <1>3, <2>5
    <3>2. w < x /\ start[w] \in {"returned", "failed"} /\ ~Live(w) BY <2>1, <2>5, <3>1 DEF StreamsKnown
    <3> QED BY <3>2, <1>1, <1>2, <1>6 DEF Live
  <2>6. \A i, j \in 1..Len(streams) : streams[i] = streams[j] => i = j BY <2>1 DEF StreamsKnown
  <2> QED BY <2>2, <2>3, <2>4, <2>5, <2>6 DEF StreamsKnown, Streaming, InStreams
<1>13. StreamsSound'
  <2> SUFFICES ASSUME subscribed, NEW x \in Turns, Streaming(x)', Clean(x)' PROVE StreamSound(x)' BY DEF StreamsSound
  <2>1. StreamSound(x) BY <1>5, <1>6 DEF TurnsInv, StreamsSound
  <2>2. named'[x] \in {Unnamed, x} BY <2>1, <1>3 DEF StreamSound
  <2> QED BY <2>1, <2>2 DEF StreamSound, NoneLeft, EndToCome
<1>14. ShutIsOver' BY <1>1, <1>2 DEF TurnsInv, ShutIsOver
<1>15. OwnOrExcused' BY <1>1, <1>2, <1>6 DEF TurnsInv, OwnOrExcused
<1> QED BY <1>7, <1>8, <1>9, <1>10, <1>11, <1>12, <1>13, <1>14, <1>15 DEF TurnsInv

LEMMA AbandonsKeeps == ASSUME TurnsInv, NEW t \in Turns, Abandons(t) PROVE TurnsInv'
<1> USE DEF serverVars, transportVars, promptVars, streamVars, threadVars
<1>1. /\ TurnsTyped /\ start[t] = "returned" /\ outcome[t] = "none"
      /\ outcome \in [Turns -> {"none", "own", "foreign", "closed", "failed", "abandoned"}]
  BY DEF TurnsInv, TurnsTyped, TurnsTypeOK, Abandons
<1>2. \A x \in Turns : outcome'[x] = IF x = t THEN "abandoned" ELSE outcome[x]
  BY <1>1 DEF Abandons, Finish
<1>3. \A x \in Turns : Clean(x)' => Clean(x)
  <2>1. \A x \in Turns : start[x] = "failed" => start'[x] = "failed" BY DEF Abandons
  <2>2. \A x \in Turns : outcome[x] = "abandoned" => outcome'[x] = "abandoned" BY <1>2
  <2> QED BY <2>1, <2>2, GivenUpStays
<1>4. TurnsTyped' BY <1>1 DEF Abandons, Finish, TurnsTyped, TurnsTypeOK
<1>5. CallersInOrder' /\ ServerInOrder' /\ OnlyTold' /\ InOrder'
  BY DEF Abandons, TurnsInv, CallersInOrder, ServerInOrder, Started, OnlyTold, InOrder, Before, Rank
<1>6. StreamsKnown' BY <1>1, <1>2, <1>3 DEF Abandons, TurnsInv, StreamsKnown, Streaming, InStreams, Live
<1>7. StreamsSound'
  <2> SUFFICES ASSUME subscribed, NEW x \in Turns, Streaming(x), Clean(x)' PROVE StreamSound(x)'
    BY DEF StreamsSound, Streaming, Abandons
  <2>1. StreamSound(x) BY <1>3 DEF TurnsInv, StreamsSound
  <2> QED BY <2>1, <1>2 DEF StreamSound, NoneLeft, EndToCome, Abandons
<1>8. ShutIsOver' BY <1>1, <1>2 DEF TurnsInv, ShutIsOver, Abandons
<1>9. OwnOrExcused' BY <1>1, <1>2, <1>3 DEF TurnsInv, OwnOrExcused, Abandons
<1> QED BY <1>4, <1>5, <1>6, <1>7, <1>8, <1>9 DEF TurnsInv

---------------------------------------------------------------------------
(* What holds of every behaviour.                                          *)

LEMMA TurnsNextKeeps == ASSUME TurnsInv, [TurnsNext]_turnsVars PROVE TurnsInv'
<1>1. CASE UNCHANGED turnsVars
  <2>1. TurnsTyped' BY <1>1 DEF turnsVars, serverVars, transportVars, promptVars, streamVars, threadVars,
                          TurnsInv, TurnsTyped, TurnsTypeOK
  <2> QED BY <1>1, <2>1, QuietTurns DEF turnsVars, serverVars, transportVars, promptVars, streamVars, threadVars
<1>2. CASE BeginsTurn BY <1>2, BeginsTurnKeeps
<1>3. CASE Dies \/ StreamEnded \/ Closes \/ CloseIsOver BY <1>3, LittleSteps
<1>4. CASE Dispatch BY <1>4, DispatchKeeps
<1>5. CASE PumpSteps BY <1>5, PumpTakesKeeps, PumpDeliversKeeps, ShutdownKeeps DEF PumpSteps
<1>6. CASE Shutdown BY <1>6, ShutdownKeeps
<1>7. ASSUME NEW t \in Turns, ServerSteps(t) \/ AsksUser(t) PROVE TurnsInv'
  BY <1>7, ServerKeeps DEF ServerSteps
<1>8. ASSUME NEW t \in Turns, RegistersPrompt(t) \/ HandlerReturns(t) \/ Receives(t) PROVE TurnsInv'
  BY <1>8, LittleSteps
<1>9. ASSUME NEW t \in Turns, NewStream(t) PROVE TurnsInv' BY <1>9, NewStreamKeeps
<1>10. ASSUME NEW t \in Turns, StartSteps(t) \/ StartGivesUp(t) PROVE TurnsInv'
  BY <1>10, StartKeeps, ReturnsKeeps DEF StartSteps
<1>11. ASSUME NEW t \in Turns, Abandons(t) PROVE TurnsInv' BY <1>11, AbandonsKeeps
<1> QED BY <1>1, <1>2, <1>3, <1>4, <1>5, <1>6, <1>7, <1>8, <1>9, <1>10, <1>11 DEF TurnsNext

\* The invariant of the client of the app-server holds whatever the numbers of
\* turns and the bounds of its pipe, its queue and its channels are.
THEOREM TurnsInvariant == TurnsSpec => []TurnsInv
<1>1. TurnsInit => TurnsInv BY TurnsBegin
<1>2. TurnsInv /\ [TurnsNext]_turnsVars => TurnsInv' BY TurnsNextKeeps
<1> QED BY <1>1, <1>2, PTL DEF TurnsSpec

\* The queue of the thread and the channel of a stream never hold more than
\* they have room for, and the pump holds at most one note.
THEOREM TurnsTyping == TurnsSpec => []TurnsTypeOK
<1>1. TurnsInv => TurnsTypeOK BY DEF TurnsInv, TurnsTyped
<1> QED BY <1>1, TurnsInvariant, PTL

\* A stream whose StartTurn returned is ended by its own turn, whatever notes
\* overtake the answer, unless a turn of the thread before it was given up or
\* the end of its own was dropped by the full queue (StreamFor and Delivered).
THEOREM OwnTurns == TurnsSpec => []OwnTurn
<1>1. ASSUME TurnsInv PROVE OwnTurn
  <2> SUFFICES ASSUME NEW s \in Turns, start[s] = "returned", outcome[s] = "foreign", s \notin lost
               PROVE  \E u \in 1..(s - 1) : outcome[u] = "abandoned" \/ start[u] = "failed"
    BY DEF OwnTurn
  <2>1. ~Clean(s) BY <1>1 DEF TurnsInv, OwnOrExcused
  <2> QED BY <2>1 DEF Clean
<1>2. TurnsInv => OwnTurn BY <1>1
<1> QED BY <1>2, TurnsInvariant, PTL
=============================================================================
