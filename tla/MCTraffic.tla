----------------------------- MODULE MCTraffic ----------------------------
(***************************************************************************)
(* The sockets and sessions of a node with their ownership records, the    *)
(* control socket of a session, the messages of a route and the ingress    *)
(* budget share no state here.  Their product would only multiply what     *)
(* each of them does, so a behaviour runs one of them, the part it has     *)
(* chosen at its start, while the others stay as they began: what their    *)
(* fairness speaks of cannot happen there.                                 *)
(***************************************************************************)
EXTENDS RelaySessions, RelayControl, RelayDelivery, RelayLedger

CONSTANTS Parts, c1, c2, c3, k1, k2, r1, r2, n1, n2

VARIABLE part

MCRouteOf == [c \in Clients |-> IF c = c3 THEN r2 ELSE r1]

MCKindOf == [c \in Conns |-> IF c = c1 THEN "control" ELSE IF c = c2 THEN "client" ELSE "data"]

\* Whether records are shared matters to the sessions only.
TrafficInit ==
    /\ SessionsInit /\ ControlInit /\ DeliveryInit /\ LedgerInit
    /\ part \in Parts /\ (part # "sessions" => shared)

TrafficNext ==
    \/ /\ part = "sessions" /\ SessionsNext
       /\ UNCHANGED <<part, controlVars, deliveryVars, ledgerVars>>
    \/ /\ part = "control" /\ ControlNext
       /\ UNCHANGED <<part, relayVars, deliveryVars, ledgerVars>>
    \/ /\ part = "delivery" /\ DeliveryNext
       /\ UNCHANGED <<part, relayVars, controlVars, ledgerVars>>
    \/ /\ part = "ledger" /\ LedgerNext
       /\ UNCHANGED <<part, relayVars, controlVars, deliveryVars>>

TrafficSpec ==
    /\ TrafficInit
    /\ [][TrafficNext]_<<part, relayVars, controlVars, deliveryVars, ledgerVars>>
    /\ SessionsFairness /\ ControlFairness /\ DeliveryFairness
===========================================================================
