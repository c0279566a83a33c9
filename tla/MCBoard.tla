------------------------------ MODULE MCBoard -----------------------------
(* A small instance of Board: two processes of one session and a third of  *)
(* another agent.                                                          *)
EXTENDS Board

CONSTANTS p1, p2, p3, s1, s2, a1, a2

MCSessionOf == [p \in Procs |-> IF p = p3 THEN s2 ELSE s1]
MCAgentOf   == [s \in Sessions |-> IF s = s2 THEN a2 ELSE a1]
===========================================================================
