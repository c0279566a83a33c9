---------------------------- MODULE RelaySessions -------------------------
(***************************************************************************)
(* The life of a session of the sanbo relay, for one serverId: sockets are *)
(* admitted, claim the serverId and attach to the session of their node,   *)
(* and three more goroutines end sessions.  The reconciler closes those    *)
(* whose record it does not find, the watchdog of a stalled owner call     *)
(* kills its session, and an idle timer gives the record up when the       *)
(* session it was armed for is long empty.  What is done under Relay.mu is *)
(* one step, and so is an operation of the registry.                       *)
(*                                                                         *)
(* A session is an object <<node, id>>; an id is used again when nothing   *)
(* refers to the object any more.                                          *)
(***************************************************************************)
EXTENDS RelayRegistry

CONSTANTS Conns,          \* sockets, each of which may come again and again
          KindOf,         \* what a socket is: control, client or data
          Roaming,        \* the sockets that come when the registry is shared
          Limit,          \* live sockets a node admits
          Ids,            \* of the session objects of a node
          MaxTimers,      \* bound: idle timers of a node when a socket comes
          Mortal,         \* nodes that may crash or be stopped
          StallsShared    \* may owner calls stall when the registry is shared?

ASSUME SessionsAssumption ==
    /\ KindOf \in [Conns -> {"control", "client", "data"}]
    /\ Roaming \subseteq Conns /\ Mortal \subseteq Nodes
    /\ Limit \in Nat \ {0} /\ MaxTimers \in Nat \ {0}
    /\ Ids \subseteq Nat \ {0} /\ IsFiniteSet(Ids) /\ IsFiniteSet(Conns)
    /\ StallsShared \in BOOLEAN

VARIABLES
    up,        \* is the node not yet started, running or gone?
    conn,      \* per socket: its step, its node and its session id (or 0)
    members,   \* sockets that stand in the topology of their session
    cut,       \* sockets the relay has closed and not yet taken down
    active,    \* per node: activeWebSockets
    table,     \* per node: the id of the session in Relay.sessions, or 0
    closed,    \* session objects with ownerClosed
    stalled,   \* session objects with ownerTimedOut
    moved,     \* nodes with the moved marker
    timers,    \* per node: idle timers armed, and fired and about to release
    dog,       \* per node: the step of a kill by watchdog, and its session id
    reconciler \* per node: its step

sessionVars == <<up, conn, members, cut, active, table, closed, stalled, moved,
                 timers, dog, reconciler>>
relayVars == <<registryVars, sessionVars>>

Away == [step |-> "away", node |-> None, sess |-> 0]

Peers(n, x) == {c \in members : conn[c].node = n /\ conn[c].sess = x}
PeersOfKind(n, x, k) == {c \in Peers(n, x) : KindOf[c] = k}

Referred(n) ==
    {table[n], dog[n].sess} \cup {conn[c].sess : c \in {d \in Conns : conn[d].node = n}}

SessionsInit ==
    /\ RegistryInit /\ shared \in BOOLEAN
    /\ up = [n \in Nodes |-> "off"]
    /\ conn = [c \in Conns |-> Away]
    /\ members = {} /\ cut = {}
    /\ active = [n \in Nodes |-> 0]
    /\ table = [n \in Nodes |-> 0]
    /\ closed = {} /\ stalled = {} /\ moved = {}
    /\ timers = [n \in Nodes |-> [armed |-> 0, firing |-> 0]]
    /\ dog = [n \in Nodes |-> [step |-> "off", sess |-> 0]]
    /\ reconciler = [n \in Nodes |-> "idle"]

---------------------------------------------------------------------------
(******************************* The node **********************************)

\* A node that joins beats once before it serves; in memory there is one node.
Start(n) ==
    /\ up[n] = "off" /\ (shared \/ \A m \in Nodes : up[m] = "off")
    /\ up' = [up EXCEPT ![n] = "up"]
    /\ IF shared THEN Beat(n) ELSE UNCHANGED registryVars
    /\ UNCHANGED <<conn, members, cut, active, table, closed, stalled, moved,
                   timers, dog, reconciler>>

Heartbeat(n) ==
    /\ up[n] = "up" /\ shared /\ age[n] # 0
    /\ Beat(n)
    /\ UNCHANGED sessionVars

\* The process is gone and its sockets with it.
Vanish(n) ==
    LET mine == {c \in Conns : conn[c].node = n} IN
    /\ up' = [up EXCEPT ![n] = "gone"]
    /\ conn' = [c \in Conns |-> IF c \in mine THEN Away ELSE conn[c]]
    /\ members' = members \ mine /\ cut' = cut \ mine
    /\ active' = [active EXCEPT ![n] = 0]
    /\ table' = [table EXCEPT ![n] = 0]
    /\ closed' = {o \in closed : o[1] # n} /\ stalled' = {o \in stalled : o[1] # n}
    /\ moved' = moved \ {n}
    /\ timers' = [timers EXCEPT ![n] = [armed |-> 0, firing |-> 0]]
    /\ dog' = [dog EXCEPT ![n] = [step |-> "off", sess |-> 0]]
    /\ reconciler' = [reconciler EXCEPT ![n] = "idle"]

Crash(n) ==
    /\ up[n] = "up" /\ shared /\ n \in Mortal
    /\ Vanish(n) /\ UNCHANGED registryVars

\* The listener stops, the coordinator is closed, and the process ends.
Shutdown(n) ==
    /\ up[n] = "up" /\ shared /\ n \in Mortal
    /\ Vanish(n) /\ CloseRegistry(n)

---------------------------------------------------------------------------
(***************** A socket: admitted, claims, attaches, leaves ************)

\* Every check before the upgrade, and the reservation.
Admit(c, n) ==
    /\ up[n] = "up" /\ conn[c].step = "away" /\ (shared => c \in Roaming)
    /\ timers[n].armed + timers[n].firing < MaxTimers
    /\ Lookup
    /\ IF LiveOwner \in {None, n} /\ active[n] < Limit /\ <<n, table[n]>> \notin closed
       THEN /\ conn' = [conn EXCEPT ![c] = [step |-> "upgrading", node |-> n, sess |-> 0]]
            /\ active' = [active EXCEPT ![n] = @ + 1]
       ELSE UNCHANGED <<conn, active>>
    /\ UNCHANGED <<up, members, cut, table, closed, stalled, moved, timers, dog, reconciler>>

\* Mutant of Gone: only a socket that was attached gives its place back.
GoneAttached(c) ==
    /\ conn' = [conn EXCEPT ![c] = Away]
    /\ active' = [active EXCEPT ![conn[c].node] = IF conn[c].step = "claimed" THEN @ ELSE @ - 1]
    /\ cut' = cut \ {c}

\* The handler returns: the place of the socket is free again.
Gone(c) ==
    /\ conn' = [conn EXCEPT ![c] = Away]
    /\ active' = [active EXCEPT ![conn[c].node] = @ - 1]
    /\ cut' = cut \ {c}

\* The upgrade fails, or it succeeds and the claim decides.
UpgradeFails(c) ==
    /\ conn[c].step = "upgrading"
    /\ Gone(c)
    /\ UNCHANGED <<registryVars, up, members, table, closed, stalled, moved, timers, dog, reconciler>>

ClaimRoute(c) ==
    LET n == conn[c].node IN
    /\ conn[c].step = "upgrading"
    /\ Claim(n)
    /\ IF record' = n
       THEN conn' = [conn EXCEPT ![c].step = "claimed"] /\ UNCHANGED <<active, cut>>
       ELSE Gone(c)
    /\ UNCHANGED <<up, members, table, closed, stalled, moved, timers, dog, reconciler>>

\* The sockets a new one takes the place of.
Replaced(c, n, x) ==
    IF KindOf[c] = "client" THEN {} ELSE PeersOfKind(n, x, KindOf[c])

Refused(n) == \/ table[n] # 0 /\ <<n, table[n]>> \in closed
              \/ n \in moved

Attach(c) ==
    LET n == conn[c].node IN
    /\ conn[c].step = "claimed"
    /\ IF Refused(n)
       THEN Gone(c) /\ UNCHANGED <<members, table>>
       ELSE \E x \in Ids :
            /\ IF table[n] # 0 THEN x = table[n]
               ELSE x \notin Referred(n) /\ \A y \in Ids : y < x => y \in Referred(n)
            /\ table' = [table EXCEPT ![n] = x]
            /\ conn' = [conn EXCEPT ![c] = [step |-> "in", node |-> n, sess |-> x]]
            /\ members' = (members \ Replaced(c, n, x)) \cup {c}
            /\ cut' = cut \cup Replaced(c, n, x)
            /\ UNCHANGED active
    /\ UNCHANGED <<registryVars, up, closed, stalled, moved, timers, dog, reconciler>>

\* dropSessionLocked: the session and the marker go together.
Drop(n) ==
    /\ table' = [table EXCEPT ![n] = 0]
    /\ moved' = moved \ {n}

\* Objects of node n that nothing refers to any more are gone with their flags.
Forget(n) ==
    /\ closed' = {o \in closed : o[1] = n => o[2] \in Referred(n)'}
    /\ stalled' = {o \in stalled : o[1] = n => o[2] \in Referred(n)'}

\* Mutant of Reclaimable: a session is empty when its control is gone.
ReclaimableUncontrolled(n, x) ==
    <<n, x>> \notin stalled /\ members' \cap PeersOfKind(n, x, "control") = {}

Reclaimable(n, x) == <<n, x>> \notin stalled /\ members' \cap Peers(n, x) = {}

\* removePeer works on the session that is in the table now, which need not be
\* the one the socket was attached to.
Leave(c) == \E n \in Nodes :
    LET x == table[n]
        listed == c \in Peers(n, x)
        last == listed /\ KindOf[c] = "client" /\ PeersOfKind(n, x, "client") = {c}
        orphans == IF last THEN PeersOfKind(n, x, "data") ELSE {}
    IN
    /\ conn[c].step = "in" /\ conn[c].node = n
    /\ conn' = [conn EXCEPT ![c] = Away]
    /\ active' = [active EXCEPT ![n] = @ - 1]
    /\ members' = members \ ({c} \cup orphans)
    /\ cut' = (cut \ {c}) \cup orphans \cup
              (IF listed /\ KindOf[c] = "data" THEN PeersOfKind(n, x, "client") ELSE {})
    /\ IF x # 0 /\ Reclaimable(n, x)
       THEN Drop(n) /\ timers' = [timers EXCEPT ![n].armed = @ + 1]
       ELSE UNCHANGED <<table, moved, timers>>
    /\ UNCHANGED <<registryVars, up, dog, reconciler>>
    /\ Forget(n)

---------------------------------------------------------------------------
(******************************* Idle timers *******************************)

IdleFires(n) ==
    /\ timers[n].armed > 0
    /\ timers' = [timers EXCEPT ![n] =
           [armed |-> @.armed - 1, firing |-> IF table[n] = 0 THEN @.firing + 1 ELSE @.firing]]
    /\ UNCHANGED <<registryVars, up, conn, members, cut, active, table, closed, stalled, moved, dog, reconciler>>

\* ... and releases after it has let go of the mutex.
IdleReleases(n) ==
    /\ timers[n].firing > 0
    /\ timers' = [timers EXCEPT ![n].firing = @ - 1]
    /\ Release(n)
    /\ UNCHANGED <<up, conn, members, cut, active, table, closed, stalled, moved, dog, reconciler>>

---------------------------------------------------------------------------
(*********************** The watchdog of owner calls ***********************)

At(n, from, to) == dog[n].step = from /\ dog' = [dog EXCEPT ![n].step = to]
Rest(n) == dog' = [dog EXCEPT ![n] = [step |-> "off", sess |-> 0]]

\* A call of socket c has taken too long.
Stall(c) ==
    LET n == conn[c].node IN
    /\ conn[c].step = "in" /\ (shared => StallsShared)
    /\ dog[n].step = "off" /\ <<n, conn[c].sess>> \notin stalled
    /\ stalled' = stalled \cup {<<n, conn[c].sess>>}
    /\ dog' = [dog EXCEPT ![n] = [step |-> "won", sess |-> conn[c].sess]]
    /\ UNCHANGED <<registryVars, up, conn, members, cut, active, table, closed, moved, timers, reconciler>>

\* The session is closed, unless somebody was faster: then all is taken back.
StallKills(n) ==
    LET x == dog[n].sess IN
    /\ dog[n].step = "won"
    /\ IF <<n, x>> \in closed
       THEN /\ Rest(n)
            /\ stalled' = stalled \ {<<n, x>>}
            /\ UNCHANGED <<closed, cut>>
       ELSE /\ At(n, "won", "killed")
            /\ closed' = closed \cup {<<n, x>>}
            /\ cut' = cut \cup Peers(n, x)
            /\ UNCHANGED stalled
    /\ UNCHANGED <<registryVars, up, conn, members, active, table, moved, timers, reconciler>>

StallMarks(n) ==
    /\ dog[n].step = "killed"
    /\ IF table[n] # dog[n].sess
       THEN Rest(n) /\ UNCHANGED <<moved, cut>>
       ELSE /\ At(n, "killed", "marked")
            /\ moved' = moved \cup {n}
            /\ cut' = cut \cup Peers(n, dog[n].sess)
    /\ UNCHANGED <<registryVars, up, conn, members, active, table, timers, reconciler>>
    /\ Forget(n)

StallReleases(n) ==
    /\ At(n, "marked", "released")
    /\ Release(n)
    /\ UNCHANGED <<up, conn, members, cut, active, table, closed, stalled, moved, timers, reconciler>>

\* Mutant of StallDrops: the session stays in the table.
StallDropsNothing(n) ==
    /\ dog[n].step = "released" /\ Rest(n) /\ UNCHANGED <<table, moved>>
    /\ UNCHANGED <<registryVars, up, conn, members, cut, active, timers, reconciler>>
    /\ Forget(n)

StallDrops(n) ==
    /\ dog[n].step = "released" /\ Rest(n)
    /\ IF table[n] = dog[n].sess THEN Drop(n) ELSE UNCHANGED <<table, moved>>
    /\ UNCHANGED <<registryVars, up, conn, members, cut, active, timers, reconciler>>
    /\ Forget(n)

---------------------------------------------------------------------------
(***************************** The reconciler ******************************)

Reconcile(n, from, to) ==
    /\ up[n] = "up" /\ shared
    /\ reconciler[n] = from /\ reconciler' = [reconciler EXCEPT ![n] = to]

\* The sessions are listed ...
ListSessions(n) ==
    /\ Reconcile(n, "idle", "listed") /\ table[n] # 0
    /\ UNCHANGED <<registryVars, up, conn, members, cut, active, table, closed, stalled, moved, timers, dog>>

\* ... the records of this member are read, as they stand ...
ReadRecords(n) ==
    /\ Reconcile(n, "listed", IF record = n THEN "idle" ELSE "lost")
    /\ UNCHANGED <<registryVars, up, conn, members, cut, active, table, closed, stalled, moved, timers, dog>>

\* Mutant of CloseLost: new sockets are refused, those that are there stay.
CloseLostMarks(n) ==
    /\ Reconcile(n, "lost", "idle")
    /\ moved' = moved \cup {n}
    /\ UNCHANGED <<registryVars, up, conn, members, cut, active, table, closed, stalled, timers, dog>>

\* ... and what was listed and has none is closed, whether it is there or not.
CloseLost(n) ==
    /\ Reconcile(n, "lost", "idle")
    /\ moved' = moved \cup {n}
    /\ closed' = IF table[n] = 0 THEN closed ELSE closed \cup {<<n, table[n]>>}
    /\ cut' = cut \cup Peers(n, table[n])
    /\ UNCHANGED <<registryVars, up, conn, members, active, table, stalled, timers, dog>>

---------------------------------------------------------------------------
SocketStep(c) ==
    \/ UpgradeFails(c) \/ ClaimRoute(c) \/ Attach(c) \/ Leave(c) \/ Stall(c)
    \/ \E n \in Nodes : Admit(c, n)

NodeStep(n) ==
    \/ Start(n) \/ Heartbeat(n) \/ Crash(n) \/ Shutdown(n)
    \/ IdleFires(n) \/ IdleReleases(n)
    \/ StallKills(n) \/ StallMarks(n) \/ StallReleases(n) \/ StallDrops(n)
    \/ ListSessions(n) \/ ReadRecords(n) \/ CloseLost(n)

SessionsNext ==
    \/ \E c \in Conns : SocketStep(c)
    \/ \E n \in Nodes : NodeStep(n)
    \/ Tick /\ UNCHANGED sessionVars

SessionsSpec == SessionsInit /\ [][SessionsNext]_relayVars

\* The relay's own steps are taken: handlers run on, timers fire, tickers tick,
\* and a socket the relay has closed comes to the end of its read loop.
SessionsFairness ==
    /\ \A c \in Conns :
        /\ WF_relayVars(UpgradeFails(c) \/ ClaimRoute(c) \/ Attach(c))
        /\ WF_relayVars(c \in cut /\ Leave(c))
    /\ \A n \in Nodes :
        /\ WF_relayVars(IdleFires(n)) /\ WF_relayVars(IdleReleases(n))
        /\ WF_relayVars(StallKills(n) \/ StallMarks(n) \/ StallReleases(n) \/ StallDrops(n))
        /\ WF_relayVars(ListSessions(n) \/ ReadRecords(n) \/ CloseLost(n))

FairSessionsSpec == SessionsSpec /\ SessionsFairness

---------------------------------------------------------------------------
(******************************* Properties ********************************)

SessionsTypeOK ==
    /\ record \in Nodes \cup {None}
    /\ age \in [Nodes -> 0..Expired] /\ shared \in BOOLEAN
    /\ up \in [Nodes -> {"off", "up", "gone"}]
    /\ conn \in [Conns -> [step : {"away", "upgrading", "claimed", "in"},
                           node : Nodes \cup {None}, sess : Ids \cup {0}]]
    /\ members \subseteq Conns /\ cut \subseteq Conns
    /\ active \in [Nodes -> Int]
    /\ table \in [Nodes -> Ids \cup {0}]
    /\ closed \subseteq Nodes \X Ids /\ stalled \subseteq Nodes \X Ids
    /\ moved \subseteq Nodes
    /\ timers \in [Nodes -> [armed : Nat, firing : Nat]]
    /\ dog \in [Nodes -> [step : {"off", "won", "killed", "marked", "released"},
                          sess : Ids \cup {0}]]
    /\ reconciler \in [Nodes -> {"idle", "listed", "lost"}]

\* A place is counted once for every socket between its reservation and the
\* end of its handler, on every way out, and never more than the limit.
CapacityCounted ==
    \A n \in Nodes :
        /\ active[n] = Cardinality({c \in Conns : conn[c].node = n})
        /\ active[n] <= Limit

\* A socket that stands in a session which is not closed stands in the one
\* that is in the table: no frame is routed through a session that is gone.
OpenIsListed ==
    \A c \in members :
        LET n == conn[c].node IN
        <<n, conn[c].sess>> \notin closed => table[n] = conn[c].sess

\* A member whose lease holds loses the serverId only when its own idle timer
\* or its own watchdog gives it up, or when it shuts down.
KeptWhileAlive ==
    [][\A n \in Nodes :
          record = n /\ Living(n) /\ record' # n =>
              /\ record' = None
              /\ \/ timers'[n].firing < timers[n].firing
                 \/ dog[n].step = "marked"
                 \/ up'[n] = "gone"]_relayVars

Serves(n) == table[n] # 0 /\ <<n, table[n]>> \notin closed

\* A node that serves a session without the record does not go on with it:
\* two members that serve one serverId are a passing state.
LostIsClosed ==
    \A n \in Nodes : shared /\ Serves(n) /\ record # n ~> ~Serves(n) \/ record = n

\* A closed session leaves the table, so that the serverId is served again.
ClosedGoes ==
    \A n \in Nodes : <<n, table[n]>> \in closed ~> <<n, table[n]>> \notin closed

\* A marker does not outlive its session (what dropSessionLocked is said to
\* see to): where it does, the node refuses the serverId for good.
MarkedHasSession == \A n \in moved : table[n] # 0

\* What the coordinators promise.
Coordinator == INSTANCE OwnerTable WITH owner <- record, living <- {n \in Nodes : Living(n)}
IsOwnerTable == Coordinator!OwnerTableSpec
===========================================================================
