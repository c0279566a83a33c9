----------------------------- MODULE MCRecords ----------------------------
(***************************************************************************)
(* What agents write down about their work: the leases of their sessions,  *)
(* the numbers of what they add, and the dependencies between issues.  The *)
(* three share no state, so a behaviour runs one of them while the others  *)
(* stay as they began.                                                     *)
(*                                                                         *)
(* Leases: two processes of session s1 in a worktree of its own, one       *)
(* process each of s2 and s3 together in another; s1 and s2 are sessions   *)
(* of agent a1, s3 of a2.  Numbering: two processes that add documents.    *)
(* Dependencies: two processes of one session, of which one blocks.        *)
(***************************************************************************)
EXTENDS BlockGraph, Numbering

CONSTANTS
    Agents, Worktrees, HookSessions, TTL, MaxClock, MaxTools, TornWrites,
    Parts, i1, i2, i3, p1, p2, p3, p4, s1, s2, s3, a1, a2, w1, w2, n1, n2

VARIABLES part, worktree, agent, tool, tools, clock, at, job, lease, last

Registering == {p1, p2, p3, p4}
InSession   == [p \in Registering |-> IF p = p3 THEN s2 ELSE IF p = p4 THEN s3 ELSE s1]
InWorktree  == [p \in Registering |-> IF p \in {p1, p2} THEN w1 ELSE w2]
OfAgent     == [s \in {s1, s2, s3} |-> IF s = s3 THEN a2 ELSE a1]

L == INSTANCE Leases WITH
    Procs <- Registering, SessionOf <- InSession, Sessions <- {s1, s2, s3},
    AgentOf <- OfAgent, WorktreeOf <- InWorktree, pc <- at

leaseVars == <<worktree, agent, tool, tools, clock, at, job, lease, last>>

OneSession == [p \in Procs |-> s1]

\* What is added matters to numbering only, and dangling dependencies to theirs.
RecordsInit ==
    /\ L!LeasesInit /\ NumberingInit /\ GraphInit
    /\ part \in Parts /\ (part # "numbers" => kind = "issue")
    /\ part # "dependencies" => ~dangling

RecordsNext ==
    \/ part = "leases" /\ L!LeasesNext /\ UNCHANGED <<part, docVars, graphVars>>
    \/ part = "numbers" /\ NumberingNext /\ UNCHANGED <<part, leaseVars, graphVars>>
    \/ part = "dependencies" /\ GraphNext /\ UNCHANGED <<part, leaseVars, docVars>>

RecordsSpec == RecordsInit /\ [][RecordsNext]_<<part, leaseVars, docVars, graphVars>>

\* The two properties of Leases, on the leases here.
HookKept          == L!HookKept
ExclusiveWorktree == L!ExclusiveWorktree
===========================================================================
