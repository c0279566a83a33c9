---------------------------- MODULE RelayRegistry -------------------------
(***************************************************************************)
(* The ownership coordinators of sanbo, for one serverId: a record in a    *)
(* file says which member owns it, a file per member when it last beat.    *)
(* Every operation runs under the flock of the registry and is one step.   *)
(* The age of a heartbeat is counted in ticks and not beyond Lease + 1,    *)
(* which stands for every age that is too old and for a file that is gone: *)
(* a member file swept away and one that has expired say the same.         *)
(*                                                                         *)
(* Without the settings of a cluster the registry is a table in memory, in *)
(* which nothing expires.                                                  *)
(***************************************************************************)
EXTENDS Integers, FiniteSets

CONSTANTS Nodes,   \* relay processes, each start of one a member of its own
          None,    \* no owner
          Lease    \* ticks a heartbeat is good for (clusterLeaseDuration)

ASSUME RegistryAssumption == None \notin Nodes /\ Lease \in Nat

VARIABLES record,   \* the owner file: the member it names, or None
          age,      \* of each member's last heartbeat
          shared    \* is the registry the one in files?

registryVars == <<record, age, shared>>

Expired == Lease + 1

RegistryInit ==
    /\ record = None
    /\ age = [n \in Nodes |-> Expired]

Living(n) == ~shared \/ age[n] <= Lease

\* Who owns the serverId; a record of a dead member is no record, and reading
\* it removes it.
LiveOwner == IF record # None /\ Living(record) THEN record ELSE None

Beat(n) ==
    /\ age' = [age EXCEPT ![n] = 0]
    /\ UNCHANGED <<record, shared>>

Tick ==
    /\ shared /\ \E n \in Nodes : age[n] # Expired
    /\ age' = [n \in Nodes |-> IF age[n] = Expired THEN Expired ELSE age[n] + 1]
    /\ UNCHANGED <<record, shared>>

Lookup == record' = LiveOwner /\ UNCHANGED <<age, shared>>

\* Mutant of Claim: the record is written without a look at the present one.
ClaimOver(n) == record' = n /\ UNCHANGED <<age, shared>>

Claim(n) ==
    /\ record' = IF LiveOwner = None THEN n ELSE LiveOwner
    /\ UNCHANGED <<age, shared>>

Release(n) ==
    /\ record' = IF record = n THEN None ELSE record
    /\ UNCHANGED <<age, shared>>

\* A coordinator that is closed takes its member file and its records along.
CloseRegistry(n) ==
    /\ record' = IF record = n THEN None ELSE record
    /\ age' = [age EXCEPT ![n] = Expired]
    /\ UNCHANGED shared
===========================================================================
