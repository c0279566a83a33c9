----------------------------- MODULE OwnerTable ---------------------------
(***************************************************************************)
(* What the ownership coordinators of sanbo promise the relay about one    *)
(* serverId: it has one owner or none, a member gets it only when it has   *)
(* none, and a member that is taken for living loses it only by giving it  *)
(* up.                                                                     *)
(***************************************************************************)
CONSTANTS Nodes,   \* relay processes, each start of one a member of its own
          None     \* no owner, not a node

VARIABLES owner,   \* who has the serverId
          living   \* the members whose lease holds

Acquire(n) == owner = None /\ owner' = n /\ UNCHANGED living

GiveUp(n) == owner = n /\ owner' = None /\ living' \in {living, living \ {n}}

\* A member whose lease has run out makes room, at once or for nobody yet.
Expire(n) ==
    /\ owner = n /\ n \notin living
    /\ owner' \in (Nodes \ {n}) \cup {n, None}
    /\ UNCHANGED living

Renew == living' \in SUBSET Nodes /\ UNCHANGED owner

OwnerTableInit == owner = None /\ living \subseteq Nodes

OwnerTableNext ==
    \/ Renew
    \/ \E n \in Nodes : Acquire(n) \/ GiveUp(n) \/ Expire(n)

OwnerTableSpec == OwnerTableInit /\ [][OwnerTableNext]_<<owner, living>>
===========================================================================
