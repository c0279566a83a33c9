----------------------------- MODULE MCReaping ----------------------------
(* Small instances of Reaping: each process is a session of its own, each  *)
(* in its own worktree; sessions s1 and s2 are of one agent.               *)
EXTENDS Reaping

CONSTANTS p1, p2, p3, s1, s2, s3, a1, a2, w1, w2, w3

OneEach == [p \in Procs |-> IF p = p1 THEN s1 ELSE IF p = p2 THEN s2 ELSE s3]
Apart   == [p \in Procs |-> IF p = p1 THEN w1 ELSE IF p = p2 THEN w2 ELSE w3]

MCAgentOf == [s \in Sessions |-> IF s = s3 THEN a2 ELSE a1]
===========================================================================
