---------------------------- MODULE RelayControl --------------------------
(***************************************************************************)
(* The control socket of a v2 session of the sanbo relay: the daemon at    *)
(* its other end is told which routes have clients (sync, connected,       *)
(* disconnected) and is to attach a data socket for each of them.  A       *)
(* two-stage watchdog runs while a route waits for its data socket: a sync *)
(* again, then the control socket is closed.                               *)
(*                                                                         *)
(* The topology changes under Relay.mu.  What the handler then tells the   *)
(* control socket is sent to the socket it saw, after the mutex: one that  *)
(* has been replaced since is closed already, so a frame that comes late   *)
(* changes nothing here, and sending is part of the step.  A write may     *)
(* fail, and then the socket is closed as a slow consumer.  What frames    *)
(* say is left out: the relay attaches a data socket for any connectionId, *)
(* be it one the daemon was told of or not.                                *)
(***************************************************************************)
EXTENDS Naturals, FiniteSets

CONSTANTS Controls,  \* control sockets, each of which may come again
          Clients,   \* client sockets, each of which may come again
          Routes,    \* connectionIds
          RouteOf,   \* the route of a client
          NoControl

ASSUME ControlAssumption ==
    /\ RouteOf \in [Clients -> Routes]
    /\ NoControl \notin Controls /\ Controls \cap Clients = {}

VARIABLES
    control,   \* the control socket in the session, or NoControl
    handler,   \* per control: away, syncing (in attach) or in
    attached,  \* clients that stand in their route
    data,      \* routes with a data socket
    shut,      \* sockets the relay has closed and not yet taken down
    watchdog,  \* watchdogFor
    stage1,    \* controls with an armed first stage
    stage2     \* per control: off, sending the sync again, or armed to close

controlVars == <<control, handler, attached, data, shut, watchdog, stage1, stage2>>

Occupied == {RouteOf[c] : c \in attached}
Waiting == Occupied \ data

ControlInit ==
    /\ control = NoControl /\ watchdog = NoControl
    /\ handler = [k \in Controls |-> "away"]
    /\ attached = {} /\ data = {} /\ shut = {} /\ stage1 = {}
    /\ stage2 = [k \in Controls |-> "off"]

---------------------------------------------------------------------------
\* Mutant of Arm: nobody is told when the chain of another control is armed.
ArmOnce(k) ==
    IF k = NoControl \/ watchdog # NoControl \/ Waiting' = {}
    THEN UNCHANGED <<watchdog, stage1>>
    ELSE watchdog' = k /\ stage1' = stage1 \cup {k}

\* armControlWatchdogLocked, after the topology has changed.
Arm(k) ==
    IF k = NoControl \/ watchdog = k \/ Waiting' = {}
    THEN UNCHANGED <<watchdog, stage1>>
    ELSE watchdog' = k /\ stage1' = stage1 \cup {k}

\* A frame to k, if there is such a socket, is written, or it is too slow.
Tell(k) == shut' \in {shut} \cup {shut \cup {i} : i \in {j \in Controls : j = k /\ handler[j] # "away"}}

\* Nothing refers to socket k any more.
Free(k) == handler[k] = "away" /\ k \notin stage1 /\ stage2[k] = "off"

AttachControl(k) ==
    /\ Free(k)
    /\ handler' = [handler EXCEPT ![k] = "syncing"]
    /\ control' = k
    /\ shut' = IF control = NoControl THEN shut ELSE shut \cup {control}
    /\ UNCHANGED <<attached, data, stage2>>
    /\ Arm(k)

FirstSync(k) ==
    /\ handler[k] = "syncing"
    /\ handler' = [handler EXCEPT ![k] = "in"]
    /\ Tell(k)
    /\ UNCHANGED <<control, attached, data, watchdog, stage1, stage2>>

ControlLeaves(k) ==
    /\ handler[k] = "in"
    /\ handler' = [handler EXCEPT ![k] = "away"]
    /\ control' = IF control = k THEN NoControl ELSE control
    /\ shut' = shut \ {k}
    /\ UNCHANGED <<attached, data, watchdog, stage1, stage2>>

---------------------------------------------------------------------------
AttachClient(c) ==
    /\ c \notin attached
    /\ attached' = attached \cup {c}
    /\ Tell(control)
    /\ UNCHANGED <<control, handler, data, stage2>>
    /\ Arm(control)

\* Its last client takes the data socket of a route along.
ClientLeaves(c) ==
    LET rest == attached \ {c}
        last == RouteOf[c] \notin {RouteOf[d] : d \in rest}
        left == shut \ {c}
    IN
    /\ c \in attached
    /\ attached' = rest
    /\ data' = IF last THEN data \ {RouteOf[c]} ELSE data
    /\ shut' \in {left} \cup (IF last /\ control # NoControl THEN {left \cup {control}} ELSE {})
    /\ UNCHANGED <<control, handler, watchdog, stage1, stage2>>

\* A data socket attaches, or takes the place of another ...
DataAttaches(r) ==
    /\ r \notin data
    /\ data' = data \cup {r}
    /\ UNCHANGED <<control, handler, attached, shut, watchdog, stage1, stage2>>

\* ... and when it goes the clients of the route are closed.
DataLeaves(r) ==
    /\ r \in data
    /\ data' = data \ {r}
    /\ shut' = shut \cup {c \in attached : RouteOf[c] = r}
    /\ UNCHANGED <<control, handler, attached, watchdog, stage1, stage2>>

---------------------------------------------------------------------------
\* The first deadline: nothing, or the roster once more.  It is ten seconds,
\* so the five of a second stage that runs are over before it (a re-sent sync
\* that is written for longer is left out).
Stage1(k) ==
    /\ k \in stage1 /\ stage2[k] = "off"
    /\ stage1' = stage1 \ {k}
    /\ watchdog' = IF watchdog = k THEN NoControl ELSE watchdog
    /\ stage2' = IF control = k /\ Waiting # {} THEN [stage2 EXCEPT ![k] = "sending"] ELSE stage2
    /\ UNCHANGED <<control, handler, attached, data, shut>>

SyncAgain(k) ==
    /\ stage2[k] = "sending"
    /\ stage2' = [stage2 EXCEPT ![k] = "armed"]
    /\ Tell(k)
    /\ UNCHANGED <<control, handler, attached, data, watchdog, stage1>>

\* Mutant of Stage2: it does not look whether a route is still waiting.
Stage2Forgets(k) ==
    /\ stage2[k] = "armed"
    /\ stage2' = [stage2 EXCEPT ![k] = "off"]
    /\ UNCHANGED <<control, handler, attached, data, shut, watchdog, stage1>>

\* The second deadline: closed, if any route is waiting now.
Stage2(k) ==
    /\ stage2[k] = "armed"
    /\ stage2' = [stage2 EXCEPT ![k] = "off"]
    /\ shut' = IF control = k /\ Waiting # {} THEN shut \cup {k} ELSE shut
    /\ UNCHANGED <<control, handler, attached, data, watchdog, stage1>>

---------------------------------------------------------------------------
ControlNext ==
    \/ \E k \in Controls :
          AttachControl(k) \/ FirstSync(k) \/ ControlLeaves(k)
          \/ Stage1(k) \/ SyncAgain(k) \/ Stage2(k)
    \/ \E c \in Clients : AttachClient(c) \/ ClientLeaves(c)
    \/ \E r \in Routes : DataAttaches(r) \/ DataLeaves(r)

ControlSpec == ControlInit /\ [][ControlNext]_controlVars

\* Handlers go on, timers fire, and a closed socket is taken down; neither a
\* daemon that attaches nor a client that stays or leaves is counted on.
ControlFairness ==
    /\ \A k \in Controls :
        /\ WF_controlVars(FirstSync(k)) /\ WF_controlVars(k \in shut /\ ControlLeaves(k))
        /\ WF_controlVars(Stage1(k)) /\ WF_controlVars(SyncAgain(k) \/ Stage2(k))
    /\ \A c \in Clients : WF_controlVars(c \in shut /\ ClientLeaves(c))

FairControlSpec == ControlSpec /\ ControlFairness

---------------------------------------------------------------------------
Standing == {k \in Controls : handler[k] # "away"}

ControlTypeOK ==
    /\ control \in Standing \cup {NoControl} /\ watchdog \in Controls \cup {NoControl}
    /\ handler \in [Controls -> {"away", "syncing", "in"}]
    /\ attached \subseteq Clients /\ data \subseteq Routes
    /\ shut \subseteq Standing \cup attached
    /\ stage1 \subseteq Controls
    /\ stage2 \in [Controls -> {"off", "sending", "armed"}]

\* A control socket that has a live client waiting for data is always under a
\* running deadline, or already closed: no order of attaching, replacing and
\* leaving gets a route past the watchdog.
WaitingIsWatched ==
    control # NoControl /\ control \notin shut =>
        \A c \in attached \ shut :
            RouteOf[c] \in data \/ control \in stage1 \/ stage2[control] # "off"

\* No control socket fronts a session for ever while a route waits for data.
StalledControlCloses ==
    \A k \in Controls : ~<>[](control = k /\ Waiting # {})
===========================================================================
