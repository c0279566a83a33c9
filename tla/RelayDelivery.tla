---------------------------- MODULE RelayDelivery -------------------------
(***************************************************************************)
(* Client messages of one route of a v2 session of the sanbo relay.  A     *)
(* source has one message at a time on its way: it asks for the data       *)
(* socket under the watchdog of the owner call and waits for one if there  *)
(* is none.  Its waiter is registered under Relay.mu; whoever takes it     *)
(* from there owes it one answer and sends that after the mutex, into a    *)
(* channel of one place.  Takers are a data socket that attaches or        *)
(* leaves, the shedding of sockets, the kill of the session by a watchdog  *)
(* that fired, and the reconciler; a waiter that leaves by itself, at its  *)
(* deadline or with the session, races all of them.                        *)
(*                                                                         *)
(* An answer is the data socket or a reason to close the source.  What is  *)
(* done under the mutex is one step.                                       *)
(***************************************************************************)
EXTENDS FiniteSets

CONSTANTS Sources,    \* client sockets of the route, each may come again
          Deadlines   \* which deadline a wait can reach: its timer, the owner's

ASSUME DeliveryAssumption == Deadlines \subseteq {"timer", "owner"}

VARIABLES
    route,      \* per source: gone, idle, or where its message is
    answer,     \* per source: what came of looking for the data socket
    waiters,    \* sources registered in waiting
    owed,       \* per source: the answer somebody took its waiter for
    ready,      \* per source: the answer in the channel of its waiter
    deadline,   \* per source: the watchdog of its owner call
    dataOn,     \* is there a data socket?
    ended,      \* ownerClosed
    closing,    \* sources the relay has closed and not yet taken down
    shed        \* sources picked by shedding

deliveryVars == <<route, answer, waiters, owed, ready, deadline, dataOn, ended,
                  closing, shed>>

Present == {s \in Sources : route[s] # "gone"}

DeliveryInit ==
    /\ route = [s \in Sources |-> "gone"]
    /\ answer = [s \in Sources |-> "none"]
    /\ waiters = {} /\ closing = {} /\ shed = {}
    /\ owed = [s \in Sources |-> "none"]
    /\ ready = [s \in Sources |-> "none"]
    /\ deadline = [s \in Sources |-> "off"]
    /\ dataOn = FALSE /\ ended = FALSE

---------------------------------------------------------------------------
(*************************** Sockets come and go ***************************)

Join(s) ==
    /\ route[s] = "gone" /\ ~ended
    /\ route' = [route EXCEPT ![s] = "idle"]
    /\ UNCHANGED <<answer, waiters, owed, ready, deadline, dataOn, ended, closing, shed>>

\* The last client of the route takes the data socket along.
Quit(s) ==
    /\ route[s] = "idle"
    /\ route' = [route EXCEPT ![s] = "gone"]
    /\ dataOn' = (dataOn /\ Present # {s})
    /\ closing' = closing \ {s} /\ shed' = shed \ {s}
    /\ UNCHANGED <<answer, waiters, owed, ready, deadline, ended>>

\* Everybody is gone: what comes next is another session.
Anew ==
    /\ ended /\ Present = {}
    /\ \A s \in Sources : owed[s] = "none" /\ deadline[s] = "off"
    /\ ended' = FALSE /\ dataOn' = FALSE
    /\ UNCHANGED <<route, answer, waiters, owed, ready, deadline, closing, shed>>

---------------------------------------------------------------------------
(********************* A message and its owner call ************************)

Message(s) ==
    /\ route[s] = "idle" /\ s \notin shed /\ deadline[s] = "off"
    /\ route' = [route EXCEPT ![s] = "calling"]
    /\ deadline' = [deadline EXCEPT ![s] = "running"]
    /\ UNCHANGED <<answer, waiters, owed, ready, dataOn, ended, closing, shed>>

Answered(s, a) ==
    /\ route' = [route EXCEPT ![s] = "answered"]
    /\ answer' = [answer EXCEPT ![s] = a]

Goto(s, step) == route' = [route EXCEPT ![s] = step] /\ UNCHANGED answer

\* A first look at the table ...
Call(s) ==
    /\ route[s] = "calling"
    /\ IF ended THEN Answered(s, "close")
       ELSE IF dataOn THEN Answered(s, "data") ELSE Goto(s, "looking")
    /\ UNCHANGED <<waiters, owed, ready, deadline, dataOn, ended, closing, shed>>

\* Mutant of Look: it trusts the first look.
LookOnce(s) ==
    /\ route[s] = "looking"
    /\ IF ended THEN Answered(s, "close") /\ UNCHANGED waiters
       ELSE Goto(s, "waiting") /\ waiters' = waiters \cup {s}
    /\ UNCHANGED <<owed, ready, deadline, dataOn, ended, closing, shed>>

\* ... and a second one, under the lock that registers the waiter.
Look(s) ==
    /\ route[s] = "looking"
    /\ IF ended THEN Answered(s, "close") /\ UNCHANGED waiters
       ELSE IF dataOn THEN Answered(s, "data") /\ UNCHANGED waiters
       ELSE Goto(s, "waiting") /\ waiters' = waiters \cup {s}
    /\ UNCHANGED <<owed, ready, deadline, dataOn, ended, closing, shed>>

Receive(s) ==
    /\ route[s] \in {"waiting", "expired"} /\ ready[s] # "none"
    /\ Answered(s, ready[s])
    /\ ready' = [ready EXCEPT ![s] = "none"]
    /\ UNCHANGED <<waiters, owed, deadline, dataOn, ended, closing, shed>>

\* The waiter leaves with the session, and its channel with it.
OwnerDone(s) ==
    /\ route[s] = "waiting" /\ ended
    /\ Answered(s, "close")
    /\ waiters' = waiters \ {s}
    /\ ready' = [ready EXCEPT ![s] = "none"]
    /\ UNCHANGED <<owed, deadline, dataOn, ended, closing, shed>>

\* Mutant of TimerFires: it waits for an answer though it has left by itself.
TimerFiresWaits(s) ==
    /\ "timer" \in Deadlines /\ route[s] = "waiting"
    /\ waiters' = waiters \ {s}
    /\ IF ended THEN Answered(s, "close") ELSE Goto(s, "expired")
    /\ ready' = IF ended THEN [ready EXCEPT ![s] = "none"] ELSE ready
    /\ UNCHANGED <<owed, deadline, dataOn, ended, closing, shed>>

\* At its deadline it takes itself off, or waits for who has taken it.
TimerFires(s) ==
    /\ "timer" \in Deadlines /\ route[s] = "waiting"
    /\ waiters' = waiters \ {s}
    /\ IF ended \/ s \in waiters THEN Answered(s, "close") ELSE Goto(s, "expired")
    /\ ready' = IF ended THEN [ready EXCEPT ![s] = "none"] ELSE ready
    /\ UNCHANGED <<owed, deadline, dataOn, ended, closing, shed>>

\* The call returns, and it or its watchdog is too late.
Return(s) ==
    /\ route[s] = "answered"
    /\ answer' = [answer EXCEPT ![s] = "none"]
    /\ deadline' = IF deadline[s] = "running" THEN [deadline EXCEPT ![s] = "off"] ELSE deadline
    /\ IF answer[s] = "data" /\ deadline[s] = "running"
       THEN route' = [route EXCEPT ![s] = "sending"] /\ UNCHANGED closing
       ELSE route' = [route EXCEPT ![s] = "idle"] /\ closing' = closing \cup {s}
    /\ UNCHANGED <<waiters, owed, ready, dataOn, ended, shed>>

\* The write succeeds or not, by its own deadline.
Send(s) ==
    /\ route[s] = "sending"
    /\ route' = [route EXCEPT ![s] = "idle"]
    /\ closing' \in {closing, closing \cup {s}}
    /\ UNCHANGED <<answer, waiters, owed, ready, deadline, dataOn, ended, shed>>

---------------------------------------------------------------------------
(******************************** Takers ***********************************)

\* Whoever takes the waiters of S owes them answer a.
Take(S, a) ==
    /\ waiters' = waiters \ S
    /\ owed' = [s \in Sources |-> IF s \in S \cap waiters THEN a ELSE owed[s]]

\* The answer is put into the channel of the waiter, if that is still there.
Notify(s) ==
    /\ owed[s] # "none"
    /\ owed' = [owed EXCEPT ![s] = "none"]
    /\ ready' = IF route[s] \in {"waiting", "expired"} THEN [ready EXCEPT ![s] = owed[s]] ELSE ready
    /\ UNCHANGED <<route, answer, waiters, deadline, dataOn, ended, closing, shed>>

DataAttach ==
    /\ ~ended
    /\ dataOn' = TRUE
    /\ Take(Sources, "data")
    /\ UNCHANGED <<route, answer, ready, deadline, ended, closing, shed>>

DataDetach ==
    /\ dataOn /\ dataOn' = FALSE
    /\ Take(Sources, "close")
    /\ closing' = closing \cup Present
    /\ UNCHANGED <<route, answer, ready, deadline, ended, shed>>

\* Mutant of Shed: the waiters are told, not taken.
ShedInPlace(S) ==
    /\ S # {} /\ S \subseteq Present \ shed
    /\ owed' = [s \in Sources |-> IF s \in S \cap waiters THEN "close" ELSE owed[s]]
    /\ shed' = shed \cup S /\ closing' = closing \cup S
    /\ UNCHANGED <<route, answer, waiters, ready, deadline, dataOn, ended>>

Shed(S) ==
    /\ S # {} /\ S \subseteq Present \ shed
    /\ Take(S, "close")
    /\ shed' = shed \cup S /\ closing' = closing \cup S
    /\ UNCHANGED <<route, answer, ready, deadline, dataOn, ended>>

Reconciled ==
    /\ ~ended /\ ended' = TRUE
    /\ Take(Sources, "close")
    /\ closing' = closing \cup Present
    /\ UNCHANGED <<route, answer, ready, deadline, dataOn, shed>>

\* The owner call of s has lasted too long ...
Expires(s) ==
    /\ "owner" \in Deadlines /\ deadline[s] = "running"
    /\ deadline' = [deadline EXCEPT ![s] = "won"]
    /\ UNCHANGED <<route, answer, waiters, owed, ready, dataOn, ended, closing, shed>>

\* ... its session is closed, if it is not yet, without the mutex ...
Kills(s) ==
    /\ deadline[s] = "won"
    /\ deadline' = [deadline EXCEPT ![s] = IF ended THEN "off" ELSE "killed"]
    /\ ended' = TRUE
    /\ closing' = IF ended THEN closing ELSE closing \cup Present
    /\ UNCHANGED <<route, answer, waiters, owed, ready, dataOn, shed>>

\* ... and its waiters are drained with it.
Drains(s) ==
    /\ deadline[s] = "killed"
    /\ deadline' = [deadline EXCEPT ![s] = "off"]
    /\ Take(Sources, "close")
    /\ closing' = closing \cup Present
    /\ UNCHANGED <<route, answer, ready, dataOn, ended, shed>>

---------------------------------------------------------------------------
DeliveryNext ==
    \/ \E s \in Sources :
          \/ Join(s) \/ Quit(s) \/ Message(s) \/ Call(s) \/ Look(s)
          \/ Receive(s) \/ OwnerDone(s) \/ TimerFires(s) \/ Return(s) \/ Send(s)
          \/ Notify(s) \/ Expires(s) \/ Kills(s) \/ Drains(s)
    \/ Anew \/ DataAttach \/ DataDetach \/ Reconciled
    \/ \E S \in SUBSET Sources : Shed(S)

DeliverySpec == DeliveryInit /\ [][DeliveryNext]_deliveryVars

\* Goroutines go on and deadlines come; nobody is made to attach or to leave.
DeliveryFairness ==
    \A s \in Sources :
        /\ WF_deliveryVars(Call(s) \/ Look(s) \/ Return(s) \/ Send(s))
        /\ WF_deliveryVars(Receive(s) \/ OwnerDone(s)) /\ WF_deliveryVars(TimerFires(s))
        /\ WF_deliveryVars(Notify(s)) /\ WF_deliveryVars(Kills(s) \/ Drains(s))
        /\ WF_deliveryVars(route[s] = "waiting" /\ Expires(s))

FairDeliverySpec == DeliverySpec /\ DeliveryFairness

---------------------------------------------------------------------------
Answers == {"none", "data", "close"}

DeliveryTypeOK ==
    /\ route \in [Sources -> {"gone", "idle", "calling", "looking", "waiting",
                              "expired", "answered", "sending"}]
    /\ answer \in [Sources -> Answers]
    /\ owed \in [Sources -> Answers] /\ ready \in [Sources -> Answers]
    /\ waiters \subseteq Sources
    /\ deadline \in [Sources -> {"off", "running", "won", "killed"}]
    /\ dataOn \in BOOLEAN /\ ended \in BOOLEAN
    /\ closing \subseteq Present /\ shed \subseteq Present

\* No wake-up is lost: nobody is registered as waiting while a data socket is
\* there, though the look and the registration are two steps.
NobodyWaitsBesideData == dataOn => waiters = {}

\* A waiter is registered, or owed an answer, or has one in its channel, and
\* only one of these: who takes it off alone answers, so that the one place of
\* the channel is enough and who waits past the deadline waits for somebody.
OneAnswerEach ==
    /\ \A s \in waiters : route[s] = "waiting" /\ owed[s] = "none" /\ ready[s] = "none"
    /\ \A s \in Sources :
        /\ owed[s] = "none" \/ ready[s] = "none"
        /\ route[s] = "waiting" => s \in waiters \/ owed[s] # "none" \/ ready[s] # "none"
        /\ route[s] = "expired" => owed[s] # "none" \/ ready[s] # "none"

\* The call and its watchdog exclude each other: what a call that was killed
\* for being slow has found is not sent.
KilledIsNotSent == \A s \in Sources : route[s] = "sending" => deadline[s] = "off"

\* Every message comes to an end, and its source reads on or is closed.
MessageEnds ==
    \A s \in Sources : route[s] \notin {"gone", "idle"} ~> route[s] \in {"gone", "idle"}

\* A source that waits for its data socket has no stalled owner call to be
\* killed for: docs/PROTOCOL.md gives the wait a deadline of its own.
WaitIsNoStall == \A s \in waiters : deadline[s] = "running"
===========================================================================
