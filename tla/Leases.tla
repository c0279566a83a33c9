------------------------------- MODULE Leases -----------------------------
(***************************************************************************)
(* Liveness records of sessions, kept in $GIT_COMMON_DIR/ppwk/locks: one   *)
(* file per worktree, which keeps two agents from editing the same files,  *)
(* and one file per agent, which tells a reap whether an owner is alive.   *)
(*                                                                         *)
(* A command registers before it changes the board: it reads, checks and   *)
(* rewrites the worktree file under a flock, and then rewrites the agent   *)
(* file under another flock.  Nothing is held between the two, and the     *)
(* SessionStart and SessionEnd hooks of a tool register as well, without   *)
(* asking who is in the worktree.                                          *)
(***************************************************************************)
EXTENDS IssueRules, Integers

CONSTANTS Procs,         \* process slots; a crashed process frees its slot
          SessionOf,     \* the session a process runs in
          Agents,
          AgentOf,       \* the agent a session belongs to
          Worktrees,
          WorktreeOf,    \* the worktree a process runs in
          HookSessions,  \* sessions of a tool with the ppwk hooks installed
          TTL,           \* Registry.TTL, in ticks
          MaxClock,      \* bound: the last tick
          MaxTools,      \* bound: tool processes started in a behaviour
          TornWrites     \* may a killed process leave a truncated record?

ASSUME LeasesAssumption ==
    /\ SessionOf \in [Procs -> Sessions]
    /\ AgentOf \in [Sessions -> Agents]
    /\ WorktreeOf \in [Procs -> Worktrees]
    /\ HookSessions \subseteq Sessions
    /\ TTL \in Nat /\ MaxClock \in Nat /\ MaxTools \in Nat
    /\ TornWrites \in BOOLEAN

VARIABLES
    worktree,  \* worktree-<digest>.lock
    agent,     \* agent-<digest>.lock
    tool,      \* the tool process a session runs under, 0 for none
    tools,     \* tool processes started so far
    clock,     \* now
    pc,        \* the next step of each process
    job,       \* what it registers as
    lease,     \* the record it has computed
    last       \* the session whose command was last let into a worktree

files     == <<worktree, agent>>
leaseVars == <<files, tool, tools, clock, pc, job, lease, last>>

---------------------------------------------------------------------------
(***************************** Records *************************************)

\* HookPID and HookStarttime together name a tool process: 0 is "no hook".
Lease == [session : Sessions, hook : 0..MaxTools, at : 0..MaxClock]

\* No file, or a record that does not decode.
NoLease == [session |-> Nobody, hook |-> 0, at |-> 0]

Job == [shared : BOOLEAN, hook : 0..MaxTools]

Here(p) == WorktreeOf[p]
Me(p)   == SessionOf[p]

\* Registry.Alive: with a hook the tool process decides, at once and alone;
\* without one the last activity does.
Alive(l) ==
    /\ l # NoLease
    /\ IF l.hook # 0 THEN tool[l.session] = l.hook ELSE clock - l.at <= TTL

\* Mutant of Conflicts: a record without a hook never keeps anybody out.
ConflictsWithHook(l, s) == l.session # s /\ Alive(l) /\ l.hook # 0

\* Registry.conflicts: does record l keep session s out of the worktree?
Conflicts(l, s) ==
    /\ l.session # s
    /\ Alive(l)
    /\ l.hook # 0 \/ AgentOf[l.session] # AgentOf[s]

\* Mutant of NewLease: a plain command forgets the hook of its session.
HookForgotten(p) == [session |-> Me(p), hook |-> job[p].hook, at |-> clock]

\* The record process p writes over the one it found.
NewLease(p) ==
    LET found == worktree[Here(p)]
    IN  [session |-> Me(p),
         hook    |-> IF job[p].hook = 0 /\ found.session = Me(p)
                     THEN found.hook ELSE job[p].hook,
         at      |-> clock]

---------------------------------------------------------------------------
LeasesInit ==
    /\ worktree = [w \in Worktrees |-> NoLease]
    /\ agent = [a \in Agents |-> NoLease]
    /\ tool = [s \in Sessions |-> 0]
    /\ tools = 0
    /\ clock = 0
    /\ pc = [p \in Procs |-> "idle"]
    /\ job = [p \in Procs |-> [shared |-> FALSE, hook |-> 0]]
    /\ lease = [p \in Procs |-> NoLease]
    /\ last = [w \in Worktrees |-> NoLease]

GoTo(p, at) == pc' = [pc EXCEPT ![p] = at]

\* The tool runs the hook before anything else in the session.
HookRunning(s) == \E q \in Procs : Me(q) = s /\ pc[q] # "idle" /\ job[q].hook # 0

CanRun(s) == s \in HookSessions => tool[s] # 0 /\ ~HookRunning(s)

\* A command that changes the board begins, by registering.
Enter(p, shared, hook) ==
    /\ pc[p] = "idle"
    /\ GoTo(p, "worktree")
    /\ job' = [job EXCEPT ![p] = [shared |-> shared, hook |-> hook]]

StartCommand(p) ==
    /\ CanRun(Me(p))
    /\ Enter(p, FALSE, 0)
    /\ UNCHANGED <<files, tool, tools, clock, lease, last>>

\* The tool of a session starts and runs the SessionStart hook.
SessionStart(p) ==
    /\ Me(p) \in HookSessions /\ tool[Me(p)] = 0 /\ tools < MaxTools
    /\ tools' = tools + 1
    /\ tool' = [tool EXCEPT ![Me(p)] = tools + 1]
    /\ Enter(p, TRUE, tools + 1)
    /\ UNCHANGED <<files, clock, lease, last>>

\* The SessionEnd hook has a claimed issue to release.
SessionEnd(p) ==
    /\ Me(p) \in HookSessions /\ tool[Me(p)] # 0 /\ CanRun(Me(p))
    /\ Enter(p, TRUE, 0)
    /\ UNCHANGED <<files, tool, tools, clock, lease, last>>

\* register, first half, under the flock of the worktree file.  `last' is not
\* part of the program: it remembers who was let in.
RegisterWorktree(p) ==
    /\ pc[p] = "worktree"
    /\ IF ~job[p].shared /\ Conflicts(worktree[Here(p)], Me(p))
       THEN /\ GoTo(p, "idle")
            /\ UNCHANGED <<worktree, lease, last>>
       ELSE /\ GoTo(p, "agent")
            /\ lease' = [lease EXCEPT ![p] = NewLease(p)]
            /\ worktree' = [worktree EXCEPT ![Here(p)] = NewLease(p)]
            /\ last' = IF job[p].shared THEN last
                       ELSE [last EXCEPT ![Here(p)] =
                               [session |-> Me(p), hook |-> tool[Me(p)], at |-> clock]]
    /\ UNCHANGED <<agent, tool, tools, clock, job>>

\* register, second half, under the flock of the agent file.
RegisterAgent(p) ==
    /\ pc[p] = "agent"
    /\ GoTo(p, "work")
    /\ agent' = [agent EXCEPT ![AgentOf[Me(p)]] = lease[p]]
    /\ lease' = [lease EXCEPT ![p] = NoLease]
    /\ UNCHANGED <<worktree, tool, tools, clock, job, last>>

\* The command has done its work on the board.
Leave(p) ==
    /\ pc[p] = "work"
    /\ GoTo(p, "idle")
    /\ UNCHANGED <<files, tool, tools, clock, job, lease, last>>

\* The flock could not be had within flockTimeout: the command fails.
GiveUp(p) ==
    /\ pc[p] \in {"worktree", "agent"}
    /\ GoTo(p, "idle")
    /\ lease' = [lease EXCEPT ![p] = NoLease]
    /\ UNCHANGED <<files, tool, tools, clock, job, last>>

\* The process is killed.  writeLease truncates the file before it writes it,
\* so a record can be lost; the kernel drops the flock.
Crash(p) ==
    /\ pc[p] # "idle"
    /\ GoTo(p, "idle")
    /\ lease' = [lease EXCEPT ![p] = NoLease]
    /\ \/ UNCHANGED files
       \/ /\ TornWrites /\ pc[p] = "worktree"
          /\ job[p].shared \/ ~Conflicts(worktree[Here(p)], Me(p))
          /\ worktree' = [worktree EXCEPT ![Here(p)] = NoLease]
          /\ UNCHANGED agent
       \/ /\ TornWrites /\ pc[p] = "agent"
          /\ agent' = [agent EXCEPT ![AgentOf[Me(p)]] = NoLease]
          /\ UNCHANGED worktree
    /\ UNCHANGED <<tool, tools, clock, job, last>>

\* The tool process of a session ends.
ToolExit(s) ==
    /\ tool[s] # 0
    /\ tool' = [tool EXCEPT ![s] = 0]
    /\ UNCHANGED <<files, tools, clock, pc, job, lease, last>>

Tick ==
    /\ clock < MaxClock
    /\ clock' = clock + 1
    /\ UNCHANGED <<files, tool, tools, pc, job, lease, last>>

Register(p) ==
    \/ StartCommand(p) \/ SessionStart(p) \/ SessionEnd(p)
    \/ RegisterWorktree(p) \/ RegisterAgent(p) \/ GiveUp(p)

Around == Tick \/ \E s \in Sessions : ToolExit(s)

LeasesNext ==
    \/ \E p \in Procs : Register(p) \/ Leave(p) \/ Crash(p)
    \/ Around

LeasesSpec == LeasesInit /\ [][LeasesNext]_leaseVars

---------------------------------------------------------------------------
(****************************** Properties *********************************)

\* Type invariant.
LeasesTypeOK ==
    /\ worktree \in [Worktrees -> Lease \cup {NoLease}]
    /\ agent \in [Agents -> Lease \cup {NoLease}]
    /\ tool \in [Sessions -> 0..MaxTools]
    /\ tools \in 0..MaxTools
    /\ clock \in 0..MaxClock
    /\ pc \in [Procs -> {"idle", "worktree", "agent", "work"}]
    /\ job \in [Procs -> Job]
    /\ lease \in [Procs -> Lease \cup {NoLease}]
    /\ last \in [Worktrees -> Lease \cup {NoLease}]

\* Process p is let into its worktree with a command that changes the board.
Admitted(p) == pc[p] = "worktree" /\ pc'[p] = "agent" /\ ~job[p].shared

\* Two live sessions do not work in one worktree: a command is let in only if
\* the session whose command was let in before it is the same, or its tool
\* process has ended, or, where there is no tool to look at, it belongs to
\* the same agent or has been silent for longer than the TTL.
ExclusiveWorktree ==
    [][\A p \in Procs : Admitted(p) =>
           LET before == last[Here(p)]
           IN  \/ before = NoLease \/ before.session = Me(p)
               \/ IF before.hook # 0 THEN tool[before.session] # before.hook
                  ELSE \/ AgentOf[before.session] = AgentOf[Me(p)]
                       \/ clock - before.at > TTL
      ]_leaseVars

\* As long as the tool process a record names is running, a later record of
\* the session names a tool as well: no plain command forgets the hook, so
\* the end of the tool is noticed at once and not after the TTL.
HookKept ==
    [][\A a \in Agents :
           /\ Alive(agent[a]) /\ agent[a].hook # 0
           /\ agent'[a].session = agent[a].session
           => agent'[a].hook # 0]_leaseVars

\* The last activity on record of a session only moves forward.  Not kept:
\* of two commands of one session, the one that computed its record first may
\* write it last (README, "What does not hold").
ActivityMovesForward ==
    [][\A a \in Agents :
           agent'[a] # NoLease /\ agent'[a].session = agent[a].session =>
               agent'[a].at >= agent[a].at]_leaseVars
===========================================================================
