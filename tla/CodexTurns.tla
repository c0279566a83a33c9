----------------------------- MODULE CodexTurns ---------------------------
(***************************************************************************)
(* mohae's client of the codex app-server, on one thread.  The transport   *)
(* gives each call a channel and runs one reader; the reader queues the    *)
(* notifications of turns and drops what the queue cannot hold; the pump   *)
(* of the thread hands them to the stream of their turn; StartTurn makes a *)
(* stream before the server has named the turn, so that events may come    *)
(* before the answer.  A turn may ask for an approval, whose handler waits *)
(* for the user until it is cancelled.                                     *)
(*                                                                         *)
(* A turn stands for the call that starts it, too.  The server is external *)
(* as these routes presuppose it: it runs one turn of a thread at a time,  *)
(* announces, completes and answers it, and says nothing of it afterwards. *)
(* A caller starts its next turn when StartTurn has returned.  Other calls *)
(* and notifications without a turn, and unsubscribing, are left out.      *)
(***************************************************************************)
EXTENDS Naturals, Sequences, FiniteSets

CONSTANTS Last,        \* turns are 1..Last, in the order they are started
          Prompting,   \* turns that ask for an approval, once
          MayBeUnused, \* whether there may be no client
          MayGiveUp,   \* whether the context of a StartTurn may end
          LineRoom,    \* messages on the server's output
          QueueRoom,   \* notifications in the thread's queue
          EventRoom,   \* eventBuffer
          Unnamed      \* the turn id of a pending stream

Turns == 1..Last

ASSUME TurnsAssumption ==
    /\ Last \in Nat /\ Prompting \subseteq Turns /\ {MayBeUnused, MayGiveUp} \subseteq BOOLEAN /\ Unnamed \notin Nat
    /\ LineRoom \in Nat \ {0} /\ QueueRoom \in Nat \ {0} /\ EventRoom \in Nat \ {0}

VARIABLES
    \* The server and its pipes.
    server,     \* up or dead
    taken,      \* turns it has been asked for and has not begun, in order
    active,     \* the turn it runs, or Unnamed
    told,       \* pairs of a turn and what was said of it
    line,
    \* The transport.
    open, lineReader, answers, awaited,
    handlers,   \* per turn, its approval: none, spawned, registered or over
    revoked,    \* turns whose handler's context is cancelled
    \* The thread's subscription.
    subscribed, queue,
    pump,       \* up or gone
    hand,       \* what it delivers to which stream, if anything
    streams,    \* streams, in the order they were made
    named,      \* per stream: its turn id
    outcome,    \* per stream: none, ended by its own turn or another, or why else
    events,     \* per stream: events the channel holds
    shutEvents, \* streams whose channel is closed
    lost,       \* turns whose completion was dropped
    panicked,
    \* The callers.
    start,      \* per turn: new, made, waiting, returned or failed
    closing     \* Close: no, waiting or returned; or the client is unused

serverVars == <<server, taken, active, told>>
transportVars == <<open, lineReader, answers, awaited>>
promptVars == <<handlers, revoked>>
streamVars == <<streams, named, outcome, events, shutEvents>>
threadVars == <<subscribed, queue, pump, hand, lost, panicked>>
turnsVars == <<serverVars, line, transportVars, promptVars, streamVars, threadVars, start, closing>>

TurnsInit ==
    /\ server = "up" /\ taken = <<>> /\ active = Unnamed /\ told = {} /\ line = <<>>
    /\ open = TRUE /\ lineReader = "reading" /\ answers = {} /\ awaited = {}
    /\ handlers = [t \in Turns |-> "none"] /\ revoked = {}
    /\ subscribed = TRUE /\ queue = <<>> /\ pump = "up" /\ hand = <<>> /\ lost = {} /\ panicked = FALSE
    /\ streams = <<>> /\ named = [t \in Turns |-> Unnamed] /\ outcome = [t \in Turns |-> "none"]
    /\ events = [t \in Turns |-> 0] /\ shutEvents = {}
    /\ start = [t \in Turns |-> "new"] /\ closing \in IF MayBeUnused THEN {"no", "unused"} ELSE {"no"}

\* A sequence without one occurrence of t.
Without(s, t) ==
    LET i == CHOOSE i \in 1..Len(s) : s[i] = t
    IN  IF \E j \in 1..Len(s) : s[j] = t
        THEN SubSeq(s, 1, i - 1) \o SubSeq(s, i + 1, Len(s)) ELSE s

---------------------------------------------------------------------------
\* The server.

Tells(kind, t) ==
    /\ server = "up" /\ Len(line) < LineRoom /\ <<t, kind>> \notin told
    /\ line' = Append(line, [kind |-> kind, turn |-> t])
    /\ told' = told \cup {<<t, kind>>}

Apart == UNCHANGED <<transportVars, promptVars, streamVars, threadVars, start, closing>>

BeginsTurn ==
    /\ server = "up" /\ active = Unnamed /\ taken # <<>>
    /\ active' = Head(taken) /\ taken' = Tail(taken)
    /\ UNCHANGED <<server, told, line>> /\ Apart

Announces(t) == t = active /\ Tells("started", t) /\ UNCHANGED <<server, taken, active>> /\ Apart

AsksUser(t) ==
    /\ t \in Prompting /\ t = active /\ Tells("approval", t)
    /\ UNCHANGED <<server, taken, active>> /\ Apart

Completes(t) ==
    /\ t = active /\ <<t, "started">> \in told /\ Tells("completed", t)
    /\ active' = Unnamed
    /\ UNCHANGED <<server, taken>> /\ Apart

Responds(t) ==
    /\ t = active \/ <<t, "completed">> \in told
    /\ Tells("response", t)
    /\ UNCHANGED <<server, taken, active>> /\ Apart

Dies ==
    /\ server = "up" /\ server' = "dead"
    /\ UNCHANGED <<taken, active, told, line>> /\ Apart

---------------------------------------------------------------------------
\* The transport.

\* Mutant of Fatal: the contexts of handlers live on.
FatalUncancelled == open' = FALSE /\ awaited' = {} /\ UNCHANGED revoked

\* fatal, once; calls that wait see that the transport is done.
Fatal == open' = FALSE /\ awaited' = {} /\ revoked' = IF open THEN Turns ELSE revoked

\* The queue of the thread drops what it has no room for.
Enqueue(n) ==
    IF ~subscribed THEN UNCHANGED <<queue, lost>>
    ELSE IF Len(queue) < QueueRoom THEN queue' = Append(queue, n) /\ UNCHANGED lost
    ELSE lost' = (IF n.kind = "completed" THEN lost \cup {n.turn} ELSE lost) /\ UNCHANGED queue

\* dispatch: a response, a request of the server, or a notification.
Dispatch ==
    /\ lineReader = "reading" /\ line # <<>>
    /\ line' = Tail(line)
    /\ LET n == Head(line) IN
       \/ /\ n.kind = "response"
          /\ answers' = answers \cup ({n.turn} \cap awaited) /\ awaited' = awaited \ {n.turn}
          /\ UNCHANGED <<handlers, queue, lost>>
       \/ /\ n.kind = "approval"
          /\ handlers' = [handlers EXCEPT ![n.turn] = "spawned"]
          /\ UNCHANGED <<answers, awaited, queue, lost>>
       \/ /\ n.kind \in {"started", "completed"}
          /\ Enqueue(n)
          /\ UNCHANGED <<answers, awaited, handlers>>
    /\ UNCHANGED <<serverVars, open, lineReader, revoked, streamVars, subscribed, pump, hand, panicked, start, closing>>

\* The end of the stream; the pipe may be closed before all of it is read.
StreamEnded ==
    /\ lineReader = "reading" /\ server = "dead" /\ (line = <<>> \/ ~open)
    /\ lineReader' = "ended"
    /\ Fatal
    /\ UNCHANGED <<serverVars, line, answers, handlers, streamVars, threadVars, start, closing>>

\* A handler registers its cancel function from its own goroutine.
RegistersPrompt(t) ==
    /\ handlers[t] = "spawned"
    /\ handlers' = [handlers EXCEPT ![t] = "registered"]
    /\ UNCHANGED <<serverVars, line, transportVars, revoked, streamVars, threadVars, start, closing>>

HandlerReturns(t) ==
    /\ handlers[t] = "registered"
    /\ handlers' = [handlers EXCEPT ![t] = "over"]
    /\ UNCHANGED <<serverVars, line, transportVars, revoked, streamVars, threadVars, start, closing>>

CancelTurn(t) == revoked' = IF handlers[t] = "registered" THEN revoked \cup {t} ELSE revoked

---------------------------------------------------------------------------
\* Streams and the pump.

Finish(t, how) == outcome' = [outcome EXCEPT ![t] = IF @ = "none" THEN how ELSE @]

Holds(s, u) == \E i \in 1..Len(s) : named[s[i]] = u
FirstNamed(s, u) == s[CHOOSE i \in 1..Len(s) : named[s[i]] = u /\ \A j \in 1..(i - 1) : named[s[j]] # u]

\* Mutant of StreamFor: a pending stream takes any event.
StreamForPending(u) ==
    IF Holds(streams, Unnamed) THEN FirstNamed(streams, Unnamed)
    ELSE IF Holds(streams, u) THEN FirstNamed(streams, u)
    ELSE IF Len(streams) = 1 THEN streams[1] ELSE Unnamed

\* The stream of a turn; a pending one adopts a turn that is nobody's.
StreamFor(u) ==
    IF Holds(streams, u) THEN FirstNamed(streams, u)
    ELSE IF Holds(streams, Unnamed) THEN FirstNamed(streams, Unnamed)
    ELSE IF Len(streams) = 1 THEN streams[1] ELSE Unnamed

PumpTakes ==
    /\ pump = "up" /\ hand = <<>> /\ queue # <<>>
    /\ queue' = Tail(queue)
    /\ LET n == Head(queue)
           s == StreamFor(n.turn)
       IN  /\ hand' = IF s = Unnamed THEN <<>> ELSE <<[note |-> n, to |-> s]>>
           /\ named' = IF s # Unnamed /\ named[s] = Unnamed THEN [named EXCEPT ![s] = n.turn] ELSE named
    /\ UNCHANGED <<serverVars, line, transportVars, promptVars, streams, outcome, events, shutEvents>>
    /\ UNCHANGED <<subscribed, pump, lost, panicked, start, closing>>

\* Ended by its own turn, or by that of another stream.
EndedBy(s, u) == IF u = s THEN "own" ELSE "foreign"

\* Mutant of Delivered: a completed turn leaves its channel open.
DeliveredOpen(s, n) ==
    /\ events' = [events EXCEPT ![s] = @ + 1]
    /\ CancelTurn(n.turn)
    /\ IF n.kind = "completed"
       THEN Finish(s, EndedBy(s, n.turn)) /\ streams' = Without(streams, s) /\ UNCHANGED shutEvents
       ELSE UNCHANGED <<outcome, streams, shutEvents>>

Delivered(s, n) ==
    /\ events' = [events EXCEPT ![s] = @ + 1]
    /\ CancelTurn(n.turn)
    /\ IF n.kind = "completed"
       THEN Finish(s, EndedBy(s, n.turn)) /\ streams' = Without(streams, s) /\ shutEvents' = shutEvents \cup {s}
       ELSE UNCHANGED <<outcome, streams, shutEvents>>

Discarded(s) ==
    /\ streams' = Without(streams, s) /\ shutEvents' = shutEvents \cup {s}
    /\ UNCHANGED <<outcome, events, revoked>>

\* deliver: any ready case of the select, the send on a closed channel too.
PumpDelivers ==
    /\ hand # <<>>
    /\ LET s == Head(hand).to IN
       \/ /\ s \notin shutEvents /\ events[s] < EventRoom
          /\ Delivered(s, Head(hand).note) /\ hand' = <<>> /\ UNCHANGED panicked
       \/ /\ outcome[s] # "none" \/ ~subscribed
          /\ Discarded(s) /\ hand' = <<>> /\ UNCHANGED panicked
       \/ /\ s \in shutEvents
          /\ panicked' = TRUE
          /\ UNCHANGED <<hand, streams, outcome, events, shutEvents, revoked>>
    /\ UNCHANGED <<serverVars, line, transportVars, handlers, named, subscribed, queue, pump, lost, start, closing>>

\* The pump's end finishes and closes what is left.
PumpQuits ==
    /\ pump = "up" /\ hand = <<>> /\ ~subscribed
    /\ pump' = "gone"
    /\ LET left == {streams[i] : i \in 1..Len(streams)} IN
       /\ outcome' = [t \in Turns |-> IF t \in left /\ outcome[t] = "none" THEN "closed" ELSE outcome[t]]
       /\ shutEvents' = shutEvents \cup left
    /\ UNCHANGED <<serverVars, line, transportVars, promptVars, streams, named, events>>
    /\ UNCHANGED <<subscribed, queue, hand, lost, panicked, start, closing>>

\* The goroutine that waits for the transport's end: cancelAll and shutdown.
Shutdown ==
    /\ ~open /\ subscribed
    /\ subscribed' = FALSE
    /\ revoked' = revoked \cup {t \in Turns : handlers[t] = "registered"}
    /\ LET left == {streams[i] : i \in 1..Len(streams)} IN
       outcome' = [t \in Turns |-> IF t \in left /\ outcome[t] = "none" THEN "closed" ELSE outcome[t]]
    /\ UNCHANGED <<serverVars, line, transportVars, handlers, streams, named, events, shutEvents>>
    /\ UNCHANGED <<queue, pump, hand, lost, panicked, start, closing>>

---------------------------------------------------------------------------
\* The callers.

\* subscribe and newStream.  After the shutdown the thread has a subscription
\* of its own that gets nothing, unless the old one was looked up before.
NewStream(t) ==
    /\ start[t] = "new" /\ closing = "no"
    /\ \A u \in 1..(t - 1) : start[u] \in {"returned", "failed"}
    /\ start' = [start EXCEPT ![t] = "made"]
    /\ \/ streams' = Append(streams, t)
       \/ ~subscribed /\ UNCHANGED streams
    /\ UNCHANGED <<serverVars, line, transportVars, promptVars, named, outcome, events, shutEvents, threadVars, closing>>

StartFails(t) ==
    /\ start' = [start EXCEPT ![t] = "failed"]
    /\ streams' = Without(streams, t)
    /\ Finish(t, "failed")
    /\ shutEvents' = shutEvents \cup {t}

\* The call is registered and written, unless the transport is at its end.
SendStart(t) ==
    /\ start[t] = "made"
    /\ \/ /\ open /\ server = "up"
          /\ start' = [start EXCEPT ![t] = "waiting"]
          /\ awaited' = awaited \cup {t} /\ taken' = Append(taken, t)
          /\ UNCHANGED <<streams, outcome, shutEvents>>
       \/ /\ ~(open /\ server = "up")
          /\ StartFails(t) /\ UNCHANGED <<awaited, taken>>
    /\ UNCHANGED <<server, active, told, line, open, lineReader, answers, promptVars, named, events, threadVars, closing>>

StartReturns(t) ==
    /\ start[t] = "waiting" /\ t \in answers
    /\ start' = [start EXCEPT ![t] = "returned"]
    /\ named' = [named EXCEPT ![t] = IF @ = Unnamed THEN t ELSE @]
    /\ UNCHANGED <<serverVars, line, transportVars, promptVars, streams, outcome, events, shutEvents, threadVars, closing>>

StartGivesUp(t) ==
    /\ start[t] = "waiting" /\ (~open \/ MayGiveUp)
    /\ StartFails(t) /\ awaited' = awaited \ {t}
    /\ UNCHANGED <<serverVars, line, open, lineReader, answers, promptVars, named, events, threadVars, closing>>

Receives(t) ==
    /\ start[t] = "returned" /\ events[t] > 0
    /\ events' = [events EXCEPT ![t] = @ - 1]
    /\ UNCHANGED <<serverVars, line, transportVars, promptVars, streams, named, outcome, shutEvents, threadVars, start, closing>>

\* Close of a stream; the turn goes on.
Abandons(t) ==
    /\ start[t] = "returned" /\ outcome[t] = "none"
    /\ Finish(t, "abandoned")
    /\ UNCHANGED <<serverVars, line, transportVars, promptVars, streams, named, events, shutEvents, threadVars, start, closing>>

\* Close of the client: fatal, the process is killed, and all are waited for.
Closes ==
    /\ closing = "no"
    /\ closing' = "waiting" /\ server' = "dead"
    /\ Fatal
    /\ UNCHANGED <<taken, active, told, line, lineReader, answers, handlers, streamVars, threadVars, start>>

CloseIsOver ==
    /\ closing = "waiting" /\ lineReader = "ended"
    /\ \A t \in Turns : handlers[t] \in {"none", "over"}
    /\ closing' = "returned"
    /\ UNCHANGED <<serverVars, line, transportVars, promptVars, streamVars, threadVars, start>>

---------------------------------------------------------------------------
ServerSteps(t) == Announces(t) \/ Completes(t) \/ Responds(t)
StartSteps(t) == SendStart(t) \/ StartReturns(t) \/ (StartGivesUp(t) /\ ~open)
PumpSteps == PumpTakes \/ PumpDelivers \/ PumpQuits

Alive == closing # "unused" /\ ~panicked

TurnsNext ==
    /\ Alive
    /\ \/ BeginsTurn \/ Dies \/ Dispatch \/ StreamEnded \/ PumpSteps \/ Shutdown \/ Closes \/ CloseIsOver
       \/ \E t \in Turns :
            \/ ServerSteps(t) \/ AsksUser(t) \/ RegistersPrompt(t) \/ HandlerReturns(t)
            \/ NewStream(t) \/ StartSteps(t) \/ StartGivesUp(t) \/ Receives(t) \/ Abandons(t)

\* The server goes on with what it began and goroutines are not starved; the
\* user need not answer, but a handler heeds its context.  A turn takes a few
\* steps of each kind, and so fairness to all turns is fairness to each.
TurnsFairness ==
    /\ WF_turnsVars(Alive /\ (BeginsTurn \/ \E t \in Turns : ServerSteps(t)))
    /\ WF_turnsVars(Alive /\ (Dispatch \/ StreamEnded))
    /\ WF_turnsVars(Alive /\ PumpSteps)
    /\ WF_turnsVars(Alive /\ Shutdown)
    /\ WF_turnsVars(Alive /\ CloseIsOver)
    /\ WF_turnsVars(Alive /\ \E t \in Turns : StartSteps(t))
    /\ WF_turnsVars(Alive /\ \E t \in Turns : Receives(t))
    /\ WF_turnsVars(Alive /\ \E t \in Turns : RegistersPrompt(t) \/ (HandlerReturns(t) /\ t \in revoked))

FairTurnsSpec == TurnsInit /\ [][TurnsNext]_turnsVars /\ TurnsFairness

---------------------------------------------------------------------------
\* The state is of its type; channels and the queue hold what they have room for.
TurnsTypeOK ==
    /\ server \in {"up", "dead"} /\ active \in Turns \cup {Unnamed} /\ taken \in Seq(Turns)
    /\ told \subseteq Turns \X {"started", "approval", "completed", "response"}
    /\ Len(line) <= LineRoom /\ Len(queue) <= QueueRoom /\ streams \in Seq(Turns)
    /\ open \in BOOLEAN /\ subscribed \in BOOLEAN /\ panicked \in BOOLEAN
    /\ lineReader \in {"reading", "ended"} /\ closing \in {"unused", "no", "waiting", "returned"}
    /\ answers \subseteq Turns /\ awaited \subseteq Turns /\ revoked \subseteq Turns
    /\ shutEvents \subseteq Turns /\ lost \subseteq Turns
    /\ handlers \in [Turns -> {"none", "spawned", "registered", "over"}]
    /\ pump \in {"up", "gone"} /\ Len(hand) <= 1
    /\ hand \in Seq([note : [kind : {"started", "completed"}, turn : Turns], to : Turns])
    /\ named \in [Turns -> Turns \cup {Unnamed}] /\ events \in [Turns -> 0..EventRoom]
    /\ outcome \in [Turns -> {"none", "own", "foreign", "closed", "failed", "abandoned"}]
    /\ start \in [Turns -> {"new", "made", "waiting", "returned", "failed"}]

\* A stream ends with its own turn, unless the caller gave another of the thread
\* up before: the events of such a turn are adopted by the next stream.  A stream
\* whose completion was dropped may be ended by a later turn that was given up.
OwnTurn ==
    \A s \in Turns :
        start[s] = "returned" /\ outcome[s] = "foreign" =>
            s \in lost \/ \E u \in 1..(s - 1) : outcome[u] = "abandoned" \/ start[u] = "failed"

\* The channel of every stream is closed in the end, unless the completion of
\* its turn found the queue full.
StreamEnds ==
    \A t \in Turns :
        start[t] = "made" ~> t \in shutEvents \/ lost # {} \/ panicked

\* Close returns, whatever prompts the user has not answered.
CloseIsDone == closing = "waiting" ~> closing = "returned" \/ panicked

\* The pump, the only goroutine that sends events, never finds their channel
\* closed.
PumpNeverPanics == ~panicked
===========================================================================
