------------------------ MODULE RelaySessionsProofs -----------------------
(***************************************************************************)
(* Proofs about the sessions of the relay, for any nodes, sockets, lease   *)
(* and bounds: the state is of its type, places are counted, the registry  *)
(* in files and the table in memory keep the promise of OwnerTable, and a  *)
(* living member loses the serverId only by its own doing.                 *)
(*                                                                         *)
(* The type is inductive with Placed: a socket has a node exactly while it *)
(* is under way, and whoever works on a session works on one that is.      *)
(***************************************************************************)
EXTENDS RelaySessions, FiniteSetTheorems, TLAPS

Placed ==
    /\ \A c \in Conns : conn[c].step = "away" <=> conn[c].node = None
    /\ \A c \in Conns : conn[c].step = "in" => conn[c].sess \in Ids
    /\ \A n \in Nodes : dog[n].step # "off" => dog[n].sess \in Ids

SInv == SessionsTypeOK /\ Placed

---------------------------------------------------------------------------
(******************************* The type **********************************)

LEMMA SessionsBegin == SessionsInit => SInv
BY SessionsAssumption, RegistryAssumption
   DEF SessionsInit, RegistryInit, SInv, SessionsTypeOK, Placed, Away, Expired

RegistryTyped ==
    record \in Nodes \cup {None} /\ age \in [Nodes -> 0..Expired] /\ shared \in BOOLEAN

\* An operation of the registry leaves it of its type.
LEMMA RegistrySteps ==
    ASSUME RegistryTyped,
           \/ Lookup \/ UNCHANGED registryVars \/ Tick
           \/ \E n \in Nodes : Beat(n) \/ Claim(n) \/ Release(n) \/ CloseRegistry(n)
    PROVE  RegistryTyped'
<1> USE RegistryAssumption DEF RegistryTyped, LiveOwner, Expired
<1>1. CASE Lookup BY <1>1 DEF Lookup
<1>2. CASE UNCHANGED registryVars BY <1>2 DEF registryVars
<1>3. CASE Tick BY <1>3 DEF Tick
<1>4. CASE \E n \in Nodes : Beat(n) BY <1>4 DEF Beat
<1>5. CASE \E n \in Nodes : Claim(n) BY <1>5 DEF Claim
<1>6. CASE \E n \in Nodes : Release(n) BY <1>6 DEF Release
<1>7. CASE \E n \in Nodes : CloseRegistry(n) BY <1>7 DEF CloseRegistry
<1> QED BY <1>1, <1>2, <1>3, <1>4, <1>5, <1>6, <1>7

\* The sockets with their places, and the rest of a node.
SocketsTyped ==
    /\ conn \in [Conns -> [step : {"away", "upgrading", "claimed", "in"},
                           node : Nodes \cup {None}, sess : Ids \cup {0}]]
    /\ members \subseteq Conns /\ cut \subseteq Conns
    /\ active \in [Nodes -> Int]
    /\ \A c \in Conns : conn[c].step = "away" <=> conn[c].node = None
    /\ \A c \in Conns : conn[c].step = "in" => conn[c].sess \in Ids

NodesTyped ==
    /\ up \in [Nodes -> {"off", "up", "gone"}]
    /\ table \in [Nodes -> Ids \cup {0}]
    /\ closed \subseteq Nodes \X Ids /\ stalled \subseteq Nodes \X Ids /\ moved \subseteq Nodes
    /\ timers \in [Nodes -> [armed : Nat, firing : Nat]]
    /\ dog \in [Nodes -> [step : {"off", "won", "killed", "marked", "released"}, sess : Ids \cup {0}]]
    /\ reconciler \in [Nodes -> {"idle", "listed", "lost"}]
    /\ \A n \in Nodes : dog[n].step # "off" => dog[n].sess \in Ids

LEMMA Parts == SInv <=> RegistryTyped /\ SocketsTyped /\ NodesTyped
BY DEF SInv, SessionsTypeOK, Placed, RegistryTyped, SocketsTyped, NodesTyped

LEMMA PartsNext == SInv' <=> RegistryTyped' /\ SocketsTyped' /\ NodesTyped'
BY DEF SInv, SessionsTypeOK, Placed, RegistryTyped, SocketsTyped, NodesTyped

\* A socket that leaves its handler.
LEMMA GoneTyped == ASSUME SocketsTyped, NEW c \in Conns, Gone(c), members' = members PROVE SocketsTyped'
<1> USE RegistryAssumption DEF SocketsTyped
<1>1. conn' = [conn EXCEPT ![c] = Away] /\ cut' \subseteq cut BY DEF Gone
<1>2. active' \in [Nodes -> Int]
  <2> DEFINE m == conn[c].node
  <2>1. active' = [active EXCEPT ![m] = active[m] - 1] BY DEF Gone
  <2>2. \A n \in Nodes : active[n] - 1 \in Int OBVIOUS
  <2>3. \A n \in Nodes : active'[n] \in Int BY <2>1, <2>2
  <2> QED BY <2>1, <2>3
<1>3. conn' \in [Conns -> [step : {"away", "upgrading", "claimed", "in"},
                           node : Nodes \cup {None}, sess : Ids \cup {0}]]
  BY <1>1 DEF Away
<1>4. \A d \in Conns : /\ conn'[d].step = "away" <=> conn'[d].node = None
                       /\ conn'[d].step = "in" => conn'[d].sess \in Ids
  BY <1>1 DEF Away
<1> QED BY <1>1, <1>2, <1>3, <1>4

LEMMA AttachTyped ==
    ASSUME SocketsTyped, NodesTyped, NEW c \in Conns, Attach(c)
    PROVE  SocketsTyped' /\ NodesTyped'
<1> USE RegistryAssumption, SessionsAssumption
<1> DEFINE n == conn[c].node
<1>0. n \in Nodes BY DEF SocketsTyped, Attach
<1>1. CASE Refused(n)
  <2>1. Gone(c) /\ UNCHANGED <<members, table, up, closed, stalled, moved, timers, dog, reconciler>>
    BY <1>1 DEF Attach
  <2>2. SocketsTyped' BY <2>1, GoneTyped
  <2>3. NodesTyped' BY <2>1 DEF NodesTyped
  <2> QED BY <2>2, <2>3
<1>2. CASE ~Refused(n)
  <2>1. PICK x \in Ids :
            /\ table' = [table EXCEPT ![n] = x]
            /\ conn' = [conn EXCEPT ![c] = [step |-> "in", node |-> n, sess |-> x]]
            /\ members' = (members \ Replaced(c, n, x)) \cup {c}
            /\ cut' = cut \cup Replaced(c, n, x)
            /\ UNCHANGED active
    BY <1>2 DEF Attach
  <2>2. Replaced(c, n, x) \subseteq Conns
    BY DEF SocketsTyped, Replaced, PeersOfKind, Peers
  <2>3. SocketsTyped' BY <1>0, <2>1, <2>2 DEF SocketsTyped
  <2>4. UNCHANGED <<up, closed, stalled, moved, timers, dog, reconciler>> BY DEF Attach
  <2>5. table' \in [Nodes -> Ids \cup {0}] BY <1>0, <2>1 DEF NodesTyped
  <2> QED BY <2>3, <2>4, <2>5 DEF NodesTyped
<1> QED BY <1>1, <1>2

LEMMA LeaveTyped ==
    ASSUME SocketsTyped, NodesTyped, NEW c \in Conns, Leave(c)
    PROVE  SocketsTyped' /\ NodesTyped'
<1> USE RegistryAssumption, SessionsAssumption
<1>1. PICK n \in Nodes :
        /\ conn' = [conn EXCEPT ![c] = Away]
        /\ active' = [active EXCEPT ![n] = @ - 1]
        /\ members' \subseteq members
        /\ cut' \subseteq cut \cup members
        /\ \/ Drop(n) /\ timers' = [timers EXCEPT ![n].armed = @ + 1]
           \/ UNCHANGED <<table, moved, timers>>
        /\ Forget(n)
  BY Zenon DEF Leave, PeersOfKind, Peers
<1>2. UNCHANGED <<up, dog, reconciler>> BY DEF Leave
<1>3. SocketsTyped' BY <1>1 DEF SocketsTyped, Away
<1>4. timers' \in [Nodes -> [armed : Nat, firing : Nat]] BY <1>1 DEF NodesTyped
<1>5. table' \in [Nodes -> Ids \cup {0}] /\ moved' \subseteq Nodes BY <1>1 DEF NodesTyped, Drop
<1>6. closed' \subseteq closed /\ stalled' \subseteq stalled BY <1>1 DEF Forget
<1> QED BY <1>2, <1>3, <1>4, <1>5, <1>6 DEF NodesTyped

LEMMA SocketSteps ==
    ASSUME SInv, NEW c \in Conns, SocketStep(c)
    PROVE  SInv'
<1> USE SessionsAssumption, RegistryAssumption, Parts, PartsNext
<1>1. ASSUME NEW n \in Nodes, Admit(c, n) PROVE SInv'
  <2>1. SocketsTyped'
    <3>1. CASE UNCHANGED <<conn, active>> BY <1>1, <3>1 DEF Admit, SocketsTyped
    <3>2. CASE /\ conn' = [conn EXCEPT ![c] = [step |-> "upgrading", node |-> n, sess |-> 0]]
               /\ active' = [active EXCEPT ![n] = @ + 1]
      BY <1>1, <3>2 DEF Admit, SocketsTyped
    <3> QED BY <1>1, <3>1, <3>2 DEF Admit
  <2>2. RegistryTyped' BY <1>1, RegistrySteps DEF Admit
  <2>3. NodesTyped' BY <1>1 DEF Admit, NodesTyped
  <2> QED BY <2>1, <2>2, <2>3
<1>2. CASE UpgradeFails(c)
  BY <1>2, RegistrySteps, GoneTyped DEF UpgradeFails, NodesTyped
<1>3. CASE ClaimRoute(c)
  <2>1. conn[c].node \in Nodes BY <1>3 DEF ClaimRoute, SocketsTyped
  <2>2. RegistryTyped' BY <1>3, <2>1, RegistrySteps DEF ClaimRoute
  <2>3. SocketsTyped'
    <3>1. CASE conn' = [conn EXCEPT ![c].step = "claimed"] /\ UNCHANGED <<active, cut>>
      BY <1>3, <3>1 DEF ClaimRoute, SocketsTyped
    <3> QED BY <1>3, <3>1, GoneTyped DEF ClaimRoute
  <2>4. NodesTyped' BY <1>3 DEF ClaimRoute, NodesTyped
  <2> QED BY <2>2, <2>3, <2>4
<1>4. CASE Attach(c) BY <1>4, AttachTyped, RegistrySteps DEF Attach
<1>5. CASE Leave(c) BY <1>5, LeaveTyped, RegistrySteps DEF Leave
<1>6. CASE Stall(c) BY <1>6, RegistrySteps DEF Stall, SocketsTyped, NodesTyped
<1> QED BY <1>1, <1>2, <1>3, <1>4, <1>5, <1>6 DEF SocketStep

\* What the watchdog and the reconciler close are sockets.
LEMMA CutTyped ==
    ASSUME SocketsTyped, NEW n \in Nodes, NEW x, cut' \subseteq cut \cup Peers(n, x),
           UNCHANGED <<conn, members, active>>
    PROVE  SocketsTyped'
BY DEF SocketsTyped, Peers

\* What is dropped or forgotten leaves the rest of its type.
LEMMA ForgetTyped ==
    ASSUME NodesTyped, NEW n \in Nodes, Forget(n), UNCHANGED <<up, timers, reconciler>>,
           dog' \in {[dog EXCEPT ![n].step = s] : s \in {"marked"}}
                   \cup {[dog EXCEPT ![n] = [step |-> "off", sess |-> 0]]},
           dog[n].step # "off",
           Drop(n) \/ UNCHANGED <<table, moved>> \/ (UNCHANGED table /\ moved' = moved \cup {n})
    PROVE  NodesTyped'
<1>1. closed' \subseteq closed /\ stalled' \subseteq stalled BY DEF Forget
<1>2. table' \in [Nodes -> Ids \cup {0}] /\ moved' \subseteq Nodes BY DEF NodesTyped, Drop
<1>3. /\ dog' \in [Nodes -> [step : {"off", "won", "killed", "marked", "released"}, sess : Ids \cup {0}]]
      /\ \A m \in Nodes : dog'[m].step # "off" => dog'[m].sess \in Ids
  <2>1. CASE dog' = [dog EXCEPT ![n].step = "marked"] BY <2>1 DEF NodesTyped
  <2>2. CASE dog' = [dog EXCEPT ![n] = [step |-> "off", sess |-> 0]] BY <2>2 DEF NodesTyped
  <2> QED BY <2>1, <2>2
<1> QED BY <1>1, <1>2, <1>3 DEF NodesTyped

LEMMA NodeSteps ==
    ASSUME SInv, NEW n \in Nodes, NodeStep(n)
    PROVE  SInv'
<1> USE SessionsAssumption, RegistryAssumption, Parts, PartsNext
<1>1. CASE Start(n) BY <1>1, RegistrySteps DEF Start, SocketsTyped, NodesTyped
<1>2. CASE Heartbeat(n) BY <1>2, RegistrySteps DEF Heartbeat, sessionVars, SocketsTyped, NodesTyped
<1>3. CASE Crash(n) \/ Shutdown(n)
  <2>1. Vanish(n) /\ RegistryTyped' BY <1>3, RegistrySteps DEF Crash, Shutdown
  <2>2. SocketsTyped' BY <2>1 DEF Vanish, SocketsTyped, Away
  <2>3. NodesTyped' BY <2>1 DEF Vanish, NodesTyped
  <2> QED BY <2>1, <2>2, <2>3
<1>4. CASE IdleFires(n) BY <1>4, RegistrySteps DEF IdleFires, SocketsTyped, NodesTyped
<1>5. CASE IdleReleases(n) BY SMTT(30), <1>5, RegistrySteps DEF IdleReleases, SocketsTyped, NodesTyped
<1>6. CASE StallKills(n)
  <2>1. SocketsTyped' BY <1>6, CutTyped DEF StallKills
  <2>2. RegistryTyped' BY <1>6, RegistrySteps DEF StallKills
  <2>3. NodesTyped'
    <3>1. dog[n].sess \in Ids BY <1>6 DEF StallKills, NodesTyped
    <3>2. CASE Rest(n) /\ closed' = closed /\ stalled' = stalled \ {<<n, dog[n].sess>>}
      BY <1>6, <3>2 DEF StallKills, Rest, NodesTyped
    <3>3. CASE /\ At(n, "won", "killed") /\ stalled' = stalled
               /\ closed' = closed \cup {<<n, dog[n].sess>>}
      BY <1>6, <3>1, <3>3 DEF StallKills, At, NodesTyped
    <3> QED BY <1>6, <3>2, <3>3 DEF StallKills
  <2> QED BY <2>1, <2>2, <2>3
<1>7. CASE StallMarks(n)
  <2>1. SocketsTyped' BY <1>7, CutTyped DEF StallMarks
  <2>2. RegistryTyped' BY <1>7, RegistrySteps DEF StallMarks
  <2>3. NodesTyped' BY <1>7, ForgetTyped DEF StallMarks, At, Rest
  <2> QED BY <2>1, <2>2, <2>3
<1>8. CASE StallReleases(n) BY <1>8, RegistrySteps DEF StallReleases, At, SocketsTyped, NodesTyped
<1>9. CASE StallDrops(n)
  <2>1. SocketsTyped' BY <1>9 DEF StallDrops, SocketsTyped
  <2>2. RegistryTyped' BY <1>9, RegistrySteps DEF StallDrops
  <2>3. NodesTyped' BY <1>9, ForgetTyped DEF StallDrops, Rest
  <2> QED BY <2>1, <2>2, <2>3
<1>10. CASE ListSessions(n)
  BY <1>10, RegistrySteps DEF ListSessions, Reconcile, SocketsTyped, NodesTyped
<1>11. CASE ReadRecords(n)
  BY <1>11, RegistrySteps DEF ReadRecords, Reconcile, SocketsTyped, NodesTyped
<1>12. CASE CloseLost(n)
  <2>1. SocketsTyped' BY <1>12, CutTyped DEF CloseLost
  <2>2. RegistryTyped' BY <1>12, RegistrySteps DEF CloseLost
  <2>3. NodesTyped' BY <1>12 DEF CloseLost, Reconcile, NodesTyped
  <2> QED BY <2>1, <2>2, <2>3
<1> QED
  BY <1>1, <1>2, <1>3, <1>4, <1>5, <1>6, <1>7, <1>8, <1>9, <1>10, <1>11, <1>12 DEF NodeStep

THEOREM SessionsInvariant == SessionsSpec => []SInv
<1>1. SInv /\ [SessionsNext]_relayVars => SInv'
  <2> SUFFICES ASSUME SInv, [SessionsNext]_relayVars PROVE SInv' OBVIOUS
  <2>1. CASE Tick /\ UNCHANGED sessionVars
    BY <2>1, Parts, PartsNext, RegistrySteps DEF SocketsTyped, NodesTyped, sessionVars
  <2>2. CASE UNCHANGED relayVars
    BY <2>2, Parts, PartsNext, RegistrySteps DEF SocketsTyped, NodesTyped, relayVars, sessionVars
  <2> QED BY <2>1, <2>2, SocketSteps, NodeSteps DEF SessionsNext
<1> QED BY <1>1, SessionsBegin, PTL DEF SessionsSpec

\* The state is of its type for any nodes, sockets and bounds.
THEOREM SessionsTyping == SessionsSpec => []SessionsTypeOK
<1>1. SInv => SessionsTypeOK BY DEF SInv
<1> QED BY <1>1, SessionsInvariant, PTL
---------------------------------------------------------------------------
(*************************** The ownership *********************************)

\* What a step does to the registry, and who gives the serverId up.
RegistryStep ==
    \/ Lookup \/ UNCHANGED registryVars \/ Tick
    \/ \E n \in Nodes : Beat(n) \/ Claim(n)
    \/ \E n \in Nodes : /\ Release(n)
                        /\ timers'[n].firing < timers[n].firing \/ dog[n].step = "marked"
    \/ \E n \in Nodes : CloseRegistry(n) /\ shared /\ up'[n] = "gone"

LEMMA StepsOfRegistry ==
    ASSUME SInv, [SessionsNext]_relayVars
    PROVE  RegistryStep
<1>1. ASSUME NEW c \in Conns, SocketStep(c) PROVE RegistryStep
  <2>1. CASE ClaimRoute(c)
    <3>1. conn[c].node \in Nodes BY <2>1, Parts DEF ClaimRoute, SocketsTyped
    <3> QED BY <2>1, <3>1 DEF ClaimRoute, RegistryStep
  <2>2. CASE ~ClaimRoute(c)
    BY <1>1, <2>2 DEF SocketStep, UpgradeFails, Attach, Leave, Stall, Admit, RegistryStep
  <2> QED BY <2>1, <2>2
<1>2. ASSUME NEW n \in Nodes, NodeStep(n) PROVE RegistryStep
  <2>1. CASE IdleReleases(n)
    <3>1. timers'[n].firing < timers[n].firing BY <2>1, Parts DEF IdleReleases, NodesTyped
    <3> QED BY <2>1, <3>1 DEF IdleReleases, RegistryStep
  <2>2. CASE StallReleases(n) BY <2>2 DEF StallReleases, At, RegistryStep
  <2>3. CASE Shutdown(n)
    <3>1. up'[n] = "gone" BY <2>3, Parts DEF Shutdown, Vanish, NodesTyped
    <3> QED BY <2>3, <3>1 DEF Shutdown, RegistryStep
  <2>4. CASE Start(n) \/ Heartbeat(n) BY <2>4 DEF Start, Heartbeat, RegistryStep
  <2>5. CASE \/ Crash(n) \/ IdleFires(n) \/ StallKills(n) \/ StallMarks(n) \/ StallDrops(n)
             \/ ListSessions(n) \/ ReadRecords(n) \/ CloseLost(n)
    BY <2>5 DEF Crash, IdleFires, StallKills, StallMarks, StallDrops, ListSessions,
                ReadRecords, CloseLost, RegistryStep
  <2> QED BY <1>2, <2>1, <2>2, <2>3, <2>4, <2>5 DEF NodeStep
<1> QED BY <1>1, <1>2 DEF SessionsNext, RegistryStep, relayVars

Members == {n \in Nodes : Living(n)}

\* Every step of the registry is one that the owner table allows.
LEMMA RegistryRefines ==
    ASSUME RegistryTyped, RegistryStep
    PROVE  [Coordinator!OwnerTableNext]_<<record, Members>>
<1> USE RegistryAssumption DEF RegistryTyped
<1>0. Members \in SUBSET Nodes /\ Members' \in SUBSET Nodes BY DEF Members
<1>1. ASSUME UNCHANGED record PROVE Coordinator!OwnerTableNext
  BY <1>0, <1>1 DEF Coordinator!OwnerTableNext, Coordinator!Renew, Members
<1>2. ASSUME UNCHANGED <<age, shared>> PROVE Members' = Members
  BY <1>2 DEF Members, Living
<1>3. CASE UNCHANGED registryVars \/ Tick \/ \E n \in Nodes : Beat(n)
  BY <1>1, <1>3 DEF registryVars, Tick, Beat
\* A dead member makes room.
<1>4. ASSUME record # None, ~Living(record), UNCHANGED <<age, shared>>, record' \in Nodes \cup {None}
      PROVE  Coordinator!OwnerTableNext
  <2>1. record \in Nodes \ Members BY <1>4 DEF Members
  <2>2. Coordinator!Expire(record) BY <1>2, <1>4, <2>1 DEF Coordinator!Expire, Members
  <2> QED BY <2>1, <2>2 DEF Coordinator!OwnerTableNext
<1>5. CASE Lookup
  BY <1>1, <1>4, <1>5 DEF Lookup, LiveOwner
<1>6. ASSUME NEW n \in Nodes, Claim(n) PROVE Coordinator!OwnerTableNext
  <2>1. CASE record = None
    <3>1. record' = n BY <1>6, <2>1 DEF Claim, LiveOwner
    <3>2. Coordinator!Acquire(n) BY <1>2, <1>6, <2>1, <3>1 DEF Claim, Coordinator!Acquire, Members
    <3> QED BY <3>2 DEF Coordinator!OwnerTableNext
  <2>2. CASE record # None /\ Living(record) BY <1>1, <1>6, <2>2 DEF Claim, LiveOwner
  <2>3. CASE record # None /\ ~Living(record) BY <1>4, <1>6, <2>3 DEF Claim, LiveOwner
  <2> QED BY <2>1, <2>2, <2>3
<1>7. ASSUME NEW n \in Nodes, Release(n) PROVE Coordinator!OwnerTableNext
  <2>1. CASE record = n
    <3>1. Coordinator!GiveUp(n) BY <1>2, <1>7, <2>1 DEF Release, Coordinator!GiveUp, Members
    <3> QED BY <3>1 DEF Coordinator!OwnerTableNext
  <2> QED BY <1>1, <1>7, <2>1 DEF Release
<1>8. ASSUME NEW n \in Nodes, CloseRegistry(n), shared PROVE Coordinator!OwnerTableNext
  <2>1. CASE record = n
    <3>1. Members' = Members \ {n} BY <1>8 DEF CloseRegistry, Members, Living, Expired
    <3>2. Coordinator!GiveUp(n) BY <1>8, <2>1, <3>1 DEF CloseRegistry, Coordinator!GiveUp, Members
    <3> QED BY <3>2 DEF Coordinator!OwnerTableNext
  <2> QED BY <1>1, <1>8, <2>1 DEF CloseRegistry
<1> QED BY <1>3, <1>5, <1>6, <1>7, <1>8 DEF RegistryStep

\* Files and flocks, leases and claims give a serverId one owner, and a new
\* one only when it has none or the lease of the old one has run out, in
\* whatever way sockets, timers, watchdogs, crashes and restarts interleave.
THEOREM OwnershipRefines == SessionsSpec => IsOwnerTable
<1>1. SessionsInit => Coordinator!OwnerTableInit
  BY DEF SessionsInit, RegistryInit, Coordinator!OwnerTableInit
<1>2. SInv /\ [SessionsNext]_relayVars => [Coordinator!OwnerTableNext]_<<record, Members>>
  BY StepsOfRegistry, RegistryRefines, Parts
<1> QED
  BY <1>1, <1>2, SessionsInvariant, PTL
     DEF SessionsSpec, IsOwnerTable, Coordinator!OwnerTableSpec, Members

\* A member whose lease holds loses the serverId only by its own idle timer,
\* its own watchdog, or its shutdown.
THEOREM LivingKeepsOwnership == SessionsSpec => KeptWhileAlive
<1>1. SInv /\ [SessionsNext]_relayVars =>
        [\A n \in Nodes :
          record = n /\ Living(n) /\ record' # n =>
              /\ record' = None
              /\ \/ timers'[n].firing < timers[n].firing
                 \/ dog[n].step = "marked"
                 \/ up'[n] = "gone"]_relayVars
  <2> SUFFICES ASSUME SInv, [SessionsNext]_relayVars, NEW n \in Nodes,
                      record = n, Living(n), record' # n
               PROVE  /\ record' = None
                      /\ \/ timers'[n].firing < timers[n].firing
                         \/ dog[n].step = "marked"
                         \/ up'[n] = "gone"
    OBVIOUS
  <2>1. LiveOwner = n BY RegistryAssumption DEF LiveOwner
  <2>2. n # None BY RegistryAssumption
  <2> QED
    BY <2>1, <2>2, StepsOfRegistry
       DEF RegistryStep, Lookup, registryVars, Tick, Beat, Claim, Release, CloseRegistry
<1> QED BY <1>1, SessionsInvariant, PTL DEF SessionsSpec, KeptWhileAlive

---------------------------------------------------------------------------
(***************************** The places **********************************)

Held(n) == {c \in Conns : conn[c].node = n}

LEMMA HeldFinite == \A n : IsFiniteSet(Held(n)) /\ Cardinality(Held(n)) \in Nat
BY SessionsAssumption, FS_Subset, FS_CardinalityType DEF Held

LEMMA Untouched ==
    ASSUME SInv, CapacityCounted, UNCHANGED active,
           \A c \in Conns : conn'[c].node = conn[c].node
    PROVE  CapacityCounted'
BY DEF CapacityCounted

\* A socket comes, or goes: one place more or less of one node.
LEMMA Coming ==
    ASSUME SInv, CapacityCounted, NEW c \in Conns, NEW n \in Nodes, conn[c].node = None,
           conn' = [conn EXCEPT ![c] = [step |-> "upgrading", node |-> n, sess |-> 0]],
           active' = [active EXCEPT ![n] = @ + 1], active[n] < Limit
    PROVE  CapacityCounted'
<1> USE RegistryAssumption, SessionsAssumption, Parts DEF SocketsTyped
<1>1. Held(n)' = Held(n) \cup {c} /\ c \notin Held(n) BY DEF Held
<1>2. Cardinality(Held(n)') = Cardinality(Held(n)) + 1 BY <1>1, HeldFinite, FS_AddElement
<1>3. \A m \in Nodes \ {n} : Held(m)' = Held(m) BY DEF Held
<1>4. \A m \in Nodes : active[m] = Cardinality(Held(m)) /\ active[m] <= Limit
  BY DEF CapacityCounted, Held
<1>5. \A m \in Nodes : active'[m] = Cardinality(Held(m)') /\ active'[m] <= Limit
  BY <1>2, <1>3, <1>4
<1> QED BY <1>5 DEF CapacityCounted, Held

LEMMA Going ==
    ASSUME SInv, CapacityCounted, NEW c \in Conns, NEW n \in Nodes, conn[c].node = n,
           conn' = [conn EXCEPT ![c] = Away], active' = [active EXCEPT ![n] = @ - 1]
    PROVE  CapacityCounted'
<1> USE RegistryAssumption, SessionsAssumption, Parts DEF SocketsTyped
<1>1. Held(n)' = Held(n) \ {c} /\ c \in Held(n) BY DEF Held, Away
<1>2. Cardinality(Held(n)') = Cardinality(Held(n)) - 1
  <2>1. IsFiniteSet(Held(n)) BY HeldFinite
  <2>2. Cardinality(Held(n) \ {c}) = Cardinality(Held(n)) - 1 BY <1>1, <2>1, FS_RemoveElement
  <2> QED BY <1>1, <2>2
<1>3. \A m \in Nodes \ {n} : Held(m)' = Held(m) BY DEF Held, Away
<1>4. \A m \in Nodes : active[m] = Cardinality(Held(m)) /\ active[m] <= Limit
  BY DEF CapacityCounted, Held
<1>5. \A m \in Nodes : active'[m] = Cardinality(Held(m)') /\ active'[m] <= Limit
  BY <1>2, <1>3, <1>4
<1> QED BY <1>5 DEF CapacityCounted, Held

\* The node is gone with all of its sockets.
LEMMA Vanishing ==
    ASSUME SInv, CapacityCounted, NEW n \in Nodes, Vanish(n)
    PROVE  CapacityCounted'
<1> USE RegistryAssumption, SessionsAssumption, Parts DEF SocketsTyped
<1>1. \A c \in Conns : conn'[c].node = IF conn[c].node = n THEN None ELSE conn[c].node
  BY DEF Vanish, Away
<1>2. Held(n)' = {} BY <1>1 DEF Held
<1>3. \A m \in Nodes \ {n} : Held(m)' = Held(m) BY <1>1 DEF Held
<1>4. \A m \in Nodes : active[m] = Cardinality(Held(m)) /\ active[m] <= Limit
  BY DEF CapacityCounted, Held
<1>5. \A m \in Nodes : active'[m] = IF m = n THEN 0 ELSE active[m] BY DEF Vanish
<1>6. \A m \in Nodes : active'[m] = Cardinality(Held(m)') /\ active'[m] <= Limit
  BY <1>2, <1>3, <1>4, <1>5, FS_EmptySet
<1> QED BY <1>6 DEF CapacityCounted, Held

LEMMA CapacityKept ==
    ASSUME SInv, CapacityCounted, [SessionsNext]_relayVars
    PROVE  CapacityCounted'
<1> USE RegistryAssumption, SessionsAssumption, Parts
<1>1. ASSUME NEW c \in Conns, SocketStep(c) PROVE CapacityCounted'
  <2>1. ASSUME NEW n \in Nodes, Admit(c, n) PROVE CapacityCounted'
    <3>1. conn[c].node = None BY <2>1 DEF Admit, SocketsTyped
    <3> QED BY <2>1, <3>1, Coming, Untouched DEF Admit
  <2>2. ASSUME Gone(c), conn[c].step # "away" PROVE CapacityCounted'
    <3>1. conn[c].node \in Nodes BY <2>2 DEF SocketsTyped
    <3> QED BY <2>2, <3>1, Going DEF Gone
  <2>3. CASE UpgradeFails(c) BY <2>2, <2>3 DEF UpgradeFails
  <2>4. CASE ClaimRoute(c)
    <3>1. CASE conn' = [conn EXCEPT ![c].step = "claimed"] /\ UNCHANGED active
      BY <3>1, Untouched DEF SocketsTyped
    <3> QED BY <2>2, <2>4, <3>1 DEF ClaimRoute
  <2>5. CASE Attach(c)
    <3>1. CASE Refused(conn[c].node) BY <2>2, <2>5, <3>1 DEF Attach
    <3>2. CASE ~Refused(conn[c].node)
      <4>1. UNCHANGED active /\ \A d \in Conns : conn'[d].node = conn[d].node
        BY <2>5, <3>2 DEF Attach, SocketsTyped
      <4> QED BY <4>1, Untouched
    <3> QED BY <3>1, <3>2
  <2>6. CASE Leave(c)
    <3>1. PICK n \in Nodes : /\ conn[c].node = n
                            /\ conn' = [conn EXCEPT ![c] = Away]
                            /\ active' = [active EXCEPT ![n] = @ - 1]
      BY <2>6, Zenon DEF Leave
    <3> QED BY <3>1, Going
  <2>7. CASE Stall(c) BY <2>7, Untouched DEF Stall
  <2> QED BY <1>1, <2>1, <2>3, <2>4, <2>5, <2>6, <2>7 DEF SocketStep
<1>2. ASSUME NEW n \in Nodes, NodeStep(n) PROVE CapacityCounted'
  <2>1. CASE Crash(n) \/ Shutdown(n) BY <2>1, Vanishing DEF Crash, Shutdown
  <2>2. CASE ~(Crash(n) \/ Shutdown(n))
    <3>1. UNCHANGED <<conn, active>>
      BY <1>2, <2>2
         DEF NodeStep, Start, Heartbeat, sessionVars, IdleFires, IdleReleases, StallKills, StallMarks,
             StallReleases, StallDrops, ListSessions, ReadRecords, CloseLost
    <3> QED BY <3>1, Untouched
  <2> QED BY <2>1, <2>2
<1>3. CASE UNCHANGED <<conn, active>> BY <1>3, Untouched
<1> QED BY <1>1, <1>2, <1>3 DEF SessionsNext, sessionVars, relayVars

\* Every socket under way holds one place, whatever way it comes to its end,
\* and a node never has more than its limit.
THEOREM PlacesCounted == SessionsSpec => []CapacityCounted
<1>1. SessionsInit => CapacityCounted
  <2> SUFFICES ASSUME SessionsInit PROVE CapacityCounted OBVIOUS
  <2>1. \A n \in Nodes : Held(n) = {} /\ active[n] = 0
    BY RegistryAssumption DEF SessionsInit, Held, Away
  <2>2. \A n \in Nodes : active[n] = Cardinality(Held(n)) /\ active[n] <= Limit
    BY <2>1, SessionsAssumption, FS_EmptySet
  <2> QED BY <2>2 DEF CapacityCounted, Held
<1> QED BY <1>1, CapacityKept, SessionsInvariant, PTL DEF SessionsSpec
---------------------------------------------------------------------------
(************************* The session in the table ************************)

\* Who stands in a topology is attached, and the session that a watchdog has
\* killed stays closed until the watchdog is through with it.
Listed ==
    /\ \A c \in members : conn[c].step = "in"
    /\ \A n \in Nodes : dog[n].step \in {"killed", "marked", "released"} =>
                            <<n, dog[n].sess>> \in closed
    /\ OpenIsListed

LInv == SInv /\ Listed

\* A member is a socket in a session of a node, and its session is referred to.
LEMMA MemberStands ==
    ASSUME LInv, NEW c \in members
    PROVE  /\ c \in Conns /\ conn[c].node \in Nodes
           /\ conn[c].sess \in Ids /\ conn[c].sess # 0
           /\ conn[c].sess \in Referred(conn[c].node)
BY Parts, SessionsAssumption DEF LInv, Listed, SocketsTyped, Referred

\* The flags that are forgotten are those of no member and no watchdog.
LEMMA ForgetKeeps ==
    ASSUME NEW n \in Nodes, Forget(n)
    PROVE  /\ \A o \in closed : o[1] # n => o \in closed'
           /\ \A c \in Conns : conn'[c].node = n /\ <<n, conn'[c].sess>> \in closed =>
                    <<n, conn'[c].sess>> \in closed'
           /\ <<n, dog'[n].sess>> \in closed => <<n, dog'[n].sess>> \in closed'
           /\ closed' \subseteq closed
BY DEF Forget, Referred

\* Nobody moves, nothing is opened and no table changes.
LEMMA ListedStays ==
    ASSUME LInv, UNCHANGED <<members, table>>,
           \A c \in members : conn'[c] = conn[c], closed \subseteq closed',
           \A n \in Nodes : dog'[n].step \in {"killed", "marked", "released"} =>
               dog'[n] = dog[n] \/ <<n, dog'[n].sess>> \in closed'
    PROVE  Listed'
BY Parts DEF LInv, Listed, OpenIsListed, NodesTyped

LEMMA AttachLists ==
    ASSUME LInv, NEW c \in Conns, Attach(c)
    PROVE  Listed'
<1> DEFINE n == conn[c].node
<1> USE RegistryAssumption, SessionsAssumption
<1>0. n \in Nodes /\ c \notin members /\ UNCHANGED <<closed, dog>>
  BY Parts DEF LInv, Listed, SocketsTyped, Attach
<1>1. CASE Refused(n)
  BY <1>0, <1>1, ListedStays, Parts DEF Attach, Gone, LInv, SocketsTyped
<1>2. CASE ~Refused(n)
  <2>1. PICK x \in Ids :
            /\ table[n] # 0 => x = table[n]
            /\ table[n] = 0 => x \notin Referred(n)
            /\ table' = [table EXCEPT ![n] = x]
            /\ conn' = [conn EXCEPT ![c] = [step |-> "in", node |-> n, sess |-> x]]
            /\ members' = (members \ Replaced(c, n, x)) \cup {c}
    BY <1>2 DEF Attach
  <2>2. conn'[c] = [step |-> "in", node |-> n, sess |-> x] /\ table'[n] = x
    BY <1>0, <2>1, Parts DEF LInv, SocketsTyped, NodesTyped
  <2>3. ASSUME NEW d \in members' PROVE
           /\ conn'[d].step = "in"
           /\ <<conn'[d].node, conn'[d].sess>> \notin closed' =>
                table'[conn'[d].node] = conn'[d].sess
    <3>1. CASE d = c BY <2>2, <3>1
    <3>2. CASE d # c
      <4>1. d \in members BY <2>1, <3>2
      <4>2. conn'[d] = conn[d] BY <2>1, <3>2, <4>1, MemberStands, Parts DEF LInv, SocketsTyped
      <4>3. CASE conn[d].node = n /\ table[n] = 0
        BY <1>0, <4>1, <4>2, <4>3, MemberStands DEF LInv, Listed, OpenIsListed
      <4>4. CASE ~(conn[d].node = n /\ table[n] = 0)
        <5>1. table'[conn[d].node] = table[conn[d].node]
          BY <1>0, <2>1, <4>1, <4>4, MemberStands, Parts DEF LInv, NodesTyped
        <5> QED BY <1>0, <4>1, <4>2, <5>1 DEF LInv, Listed, OpenIsListed
      <4> QED BY <4>3, <4>4
    <3> QED BY <3>1, <3>2
  <2> QED BY <1>0, <2>3 DEF LInv, Listed, OpenIsListed
<1> QED BY <1>1, <1>2

\* A session leaves the table when nobody stands in it, or it is closed; who
\* stays is in another one, whose flag stays with him.
LEMMA LeavingLists ==
    ASSUME LInv, NEW n \in Nodes, members' \subseteq members,
           \A d \in members' : conn'[d] = conn[d],
           Forget(n),
           \/ UNCHANGED table
           \/ /\ Drop(n)
              /\ <<n, table[n]>> \in closed \/ members' \cap Peers(n, table[n]) = {},
           UNCHANGED dog \/ Rest(n) \/ \E s \in {"marked"} : At(n, "killed", s)
    PROVE  Listed'
<1>1. ASSUME NEW d \in members' PROVE
           /\ conn'[d].step = "in"
           /\ <<conn'[d].node, conn'[d].sess>> \notin closed' =>
                table'[conn'[d].node] = conn'[d].sess
  <2>1. d \in members /\ conn'[d] = conn[d] OBVIOUS
  <2>2. d \in Conns /\ conn[d].node \in Nodes BY <2>1, MemberStands
  <2>3. <<conn[d].node, conn[d].sess>> \in closed => <<conn[d].node, conn[d].sess>> \in closed'
    BY <2>1, <2>2, ForgetKeeps
  <2>4. <<conn[d].node, conn[d].sess>> \notin closed => table[conn[d].node] = conn[d].sess
    BY <2>1 DEF LInv, Listed, OpenIsListed
  <2>5. ASSUME <<conn[d].node, conn[d].sess>> \notin closed
        PROVE  table'[conn[d].node] = table[conn[d].node]
    <3>1. CASE UNCHANGED table BY <3>1
    <3>2. CASE Drop(n) /\ conn[d].node # n
      BY <2>2, <3>2, Parts DEF Drop, LInv, NodesTyped
    <3>3. CASE Drop(n) /\ conn[d].node = n /\ ~UNCHANGED table
      BY <2>1, <2>2, <2>4, <2>5, <3>3 DEF Peers
    <3> QED BY <3>1, <3>2, <3>3
  <2> QED BY <2>1, <2>3, <2>4, <2>5 DEF LInv, Listed
<1>2. ASSUME NEW m \in Nodes, dog'[m].step \in {"killed", "marked", "released"}
      PROVE  <<m, dog'[m].sess>> \in closed'
  <2>1. CASE m # n
    <3>1. dog'[m] = dog[m] BY <2>1, Parts DEF LInv, NodesTyped, Rest, At
    <3> QED BY <1>2, <2>1, <3>1, ForgetKeeps DEF LInv, Listed
  <2>2. CASE m = n
    <3>1. dog[n].step \in {"killed", "marked", "released"} /\ dog'[n].sess = dog[n].sess
      BY <1>2, <2>2, Parts DEF LInv, NodesTyped, Rest, At
    <3> QED BY <2>2, <3>1, ForgetKeeps DEF LInv, Listed
  <2> QED BY <2>1, <2>2
<1> QED BY <1>1, <1>2 DEF Listed, OpenIsListed

LEMMA VanishLists ==
    ASSUME LInv, NEW n \in Nodes, Vanish(n)
    PROVE  Listed'
<1>1. ASSUME NEW d \in members' PROVE
           /\ conn'[d].step = "in"
           /\ <<conn'[d].node, conn'[d].sess>> \notin closed' =>
                table'[conn'[d].node] = conn'[d].sess
  <2>1. d \in members /\ d \in Conns /\ conn[d].node \in Nodes \ {n} /\ conn'[d] = conn[d]
    BY MemberStands DEF Vanish
  <2>2. table'[conn[d].node] = table[conn[d].node] BY <2>1, Parts DEF Vanish, LInv, NodesTyped
  <2>3. <<conn[d].node, conn[d].sess>> \in closed => <<conn[d].node, conn[d].sess>> \in closed'
    BY <2>1 DEF Vanish
  <2> QED BY <2>1, <2>2, <2>3 DEF LInv, Listed, OpenIsListed
<1>2. ASSUME NEW m \in Nodes, dog'[m].step \in {"killed", "marked", "released"}
      PROVE  <<m, dog'[m].sess>> \in closed'
  <2>1. m # n /\ dog'[m] = dog[m] BY <1>2, Parts DEF LInv, NodesTyped, Vanish
  <2> QED BY <1>2, <2>1 DEF LInv, Listed, Vanish
<1> QED BY <1>1, <1>2 DEF Listed, OpenIsListed

LEMMA SocketLists ==
    ASSUME LInv, NEW c \in Conns, SocketStep(c)
    PROVE  Listed'
<1> USE RegistryAssumption, Parts
<1>0. conn[c].step # "in" => c \notin members BY DEF LInv, Listed
<1>1. ASSUME NEW n \in Nodes, Admit(c, n) PROVE Listed'
  <2>1. \A d \in members : conn'[d] = conn[d]
    BY <1>0, <1>1, MemberStands DEF Admit, LInv, SocketsTyped
  <2> QED BY <1>1, <2>1, ListedStays DEF Admit
<1>2. ASSUME Gone(c), conn[c].step # "in" PROVE \A d \in members : conn'[d] = conn[d]
  BY <1>0, <1>2, MemberStands DEF Gone, LInv, SocketsTyped
<1>3. CASE UpgradeFails(c) BY <1>2, <1>3, ListedStays DEF UpgradeFails
<1>4. CASE ClaimRoute(c)
  <2>1. \A d \in members : conn'[d] = conn[d]
    BY <1>0, <1>2, <1>4, MemberStands DEF ClaimRoute, LInv, SocketsTyped
  <2> QED BY <1>4, <2>1, ListedStays DEF ClaimRoute
<1>5. CASE Leave(c)
  <2>1. PICK n \in Nodes :
           /\ conn' = [conn EXCEPT ![c] = Away]
           /\ members' \subseteq members /\ c \notin members'
           /\ \/ UNCHANGED table
              \/ Drop(n) /\ members' \cap Peers(n, table[n]) = {}
           /\ Forget(n)
    BY <1>5, Zenon DEF Leave, Reclaimable
  <2>2. \A d \in members' : conn'[d] = conn[d]
    BY <2>1, MemberStands DEF LInv, SocketsTyped
  <2>3. UNCHANGED dog BY <1>5 DEF Leave
  <2> QED BY <2>1, <2>2, <2>3, LeavingLists
<1>6. CASE Stall(c)
  <2>1. \A m \in Nodes : dog'[m] = dog[m] \/ dog'[m].step = "won"
    BY <1>6 DEF Stall, LInv, NodesTyped, SocketsTyped
  <2> QED BY <1>6, <2>1, ListedStays DEF Stall
<1> QED BY <1>1, <1>3, <1>4, <1>5, <1>6, AttachLists DEF SocketStep

LEMMA NodeLists ==
    ASSUME LInv, NEW n \in Nodes, NodeStep(n)
    PROVE  Listed'
<1> USE Parts
<1>1. CASE Crash(n) \/ Shutdown(n) BY <1>1, VanishLists DEF Crash, Shutdown
<1>2. CASE StallKills(n)
  <2>1. UNCHANGED <<members, table, conn>> /\ closed \subseteq closed' BY <1>2 DEF StallKills
  <2>2. \A m \in Nodes : m # n => dog'[m] = dog[m]
    BY <1>2 DEF StallKills, At, Rest, LInv, NodesTyped
  <2>3. dog'[n].step = "killed" => <<n, dog'[n].sess>> \in closed'
    BY <1>2 DEF StallKills, At, Rest, LInv, NodesTyped
  <2>4. dog'[n].step \in {"off", "killed"} BY <1>2 DEF StallKills, At, Rest, LInv, NodesTyped
  <2> QED BY <2>1, <2>2, <2>3, <2>4, ListedStays
<1>3. CASE StallMarks(n)
  BY <1>3, LeavingLists DEF StallMarks
<1>4. CASE StallReleases(n)
  <2>1. UNCHANGED <<members, table, conn, closed>> BY <1>4 DEF StallReleases
  <2>2. \A m \in Nodes : m # n => dog'[m] = dog[m] BY <1>4 DEF StallReleases, At, LInv, NodesTyped
  <2>3. <<n, dog'[n].sess>> \in closed' BY <1>4 DEF StallReleases, At, LInv, Listed, NodesTyped
  <2> QED BY <2>1, <2>2, <2>3, ListedStays
<1>5. CASE StallDrops(n)
  <2>1. <<n, dog[n].sess>> \in closed BY <1>5 DEF StallDrops, LInv, Listed
  <2> QED BY <1>5, <2>1, LeavingLists DEF StallDrops
<1>6. CASE \/ Start(n) \/ Heartbeat(n) \/ IdleFires(n) \/ IdleReleases(n)
           \/ ListSessions(n) \/ ReadRecords(n) \/ CloseLost(n)
  <2>1. UNCHANGED <<members, table, conn, dog>> /\ closed \subseteq closed'
    BY <1>6 DEF Start, Heartbeat, sessionVars, IdleFires, IdleReleases, ListSessions,
                ReadRecords, CloseLost
  <2> QED BY <2>1, ListedStays
<1> QED BY <1>1, <1>2, <1>3, <1>4, <1>5, <1>6 DEF NodeStep

\* Whatever idle timers, watchdogs, reconcilers and crashes do in between, a
\* socket stands in the session that is in the table, or in one that is closed.
THEOREM NoGhosts == SessionsSpec => []OpenIsListed
<1>1. SessionsInit => Listed BY DEF SessionsInit, Listed, OpenIsListed
<1>2. SInv /\ Listed /\ [SessionsNext]_relayVars => Listed'
  <2> SUFFICES ASSUME LInv, [SessionsNext]_relayVars PROVE Listed' BY DEF LInv
  <2>1. CASE UNCHANGED <<members, table, conn, dog, closed>> BY <2>1, ListedStays
  <2> QED BY <2>1, SocketLists, NodeLists DEF SessionsNext, relayVars, sessionVars
<1>3. Listed => OpenIsListed BY DEF Listed
<1> QED BY <1>1, <1>2, <1>3, SessionsInvariant, PTL DEF SessionsSpec
===========================================================================
