------------------------------- MODULE Reaping ----------------------------
(***************************************************************************)
(* Sessions, leases and issues together: commands register and then change *)
(* the ledger, and `reap' (by itself or inside `next') takes back the      *)
(* issues of owners it finds dead.                                         *)
(*                                                                         *)
(* A reap is a sequence of unprotected reads: it lists the issues in       *)
(* flight, reads the lease of every agent, reads each issue again,         *)
(* registers, and only then takes back one issue after the other, if it is *)
(* still held by the owner it saw.  An accepted command is one step on the *)
(* ledger, which is what Board was shown to implement.                     *)
(***************************************************************************)
EXTENDS Leases, IssueLedger

CONSTANTS Reapers,     \* processes that run reap
          MaxReaps,    \* bound: reaps begun in a behaviour
          SlowReads    \* may reading a lease fail, its flock held too long?

ASSUME ReapingAssumption ==
    Reapers \subseteq Procs /\ MaxReaps \in Nat /\ SlowReads \in BOOLEAN

VARIABLES
    stage,     \* where the reap of a process is
    found,     \* issues listed and not yet shown
    live,      \* owners whose lease spoke for them in the snapshot
    targets,   \* <<issue, owner>> still to be taken back
    reaps,     \* reaps begun so far
    watch      \* not part of the program: what happened since the reap began

reapVars == <<leaseVars, ledger, stage, found, live, targets, reaps, watch>>

---------------------------------------------------------------------------
\* Mutant of Vouches: having a record is enough.
RecordVouches(l, s) == l.session = s

\* Mutant of Vouches: the last activity decides although there is a hook.
ActivityVouches(l, s) == l.session = s /\ clock - l.at <= TTL

\* Does lease l speak for owner s?  Only if it is of the same session.
Vouches(l, s) == Alive(l) /\ l.session = s

Vouched == {s \in Sessions : agent[AgentOf[s]].session = s /\ Alive(agent[AgentOf[s]])}

\* Listed by status claimed, working or blocked, and with an owner.
Held(i) == ~filed[i] /\ status[i] \in InFlight /\ owner[i] # Nobody

ReapInit ==
    /\ LeasesInit /\ LedgerInit
    /\ stage = [p \in Procs |-> "off"]
    /\ found = [p \in Procs |-> {}]
    /\ live = [p \in Procs |-> {}]
    /\ targets = [p \in Procs |-> {}]
    /\ reaps = 0
    /\ watch = [p \in Procs |-> [alive |-> {}, silent |-> {}, still |-> {}]]

\* alive: sessions vouched for at every moment since the reap of p began;
\* silent: at none; still: issues it listed and nobody has changed since.
Watch(p) ==
    IF stage[p] = "off"
    THEN [alive |-> Vouched', silent |-> Sessions \ Vouched', still |-> found'[p]]
    ELSE [alive  |-> watch[p].alive \cap Vouched',
          silent |-> watch[p].silent \ Vouched',
          still  |-> {i \in watch[p].still : status'[i] = status[i] /\ owner'[i] = owner[i]}]

Watching ==
    watch' = [p \in Procs |-> IF stage'[p] = "off" THEN [alive |-> {}, silent |-> {}, still |-> {}]
                                                   ELSE Watch(p)]

---------------------------------------------------------------------------
(**************************** A reap, step by step *************************)

At(p, from, to) == stage[p] = from /\ stage' = [stage EXCEPT ![p] = to]

\* The reap of p is over.
Over(p) ==
    /\ stage' = [stage EXCEPT ![p] = "off"]
    /\ found' = [found EXCEPT ![p] = {}]
    /\ live' = [live EXCEPT ![p] = {}]
    /\ targets' = [targets EXCEPT ![p] = {}]

\* List: a reap begins, with the issues in flight.
ReapList(p) ==
    /\ p \in Reapers /\ pc[p] = "idle" /\ CanRun(Me(p)) /\ reaps < MaxReaps
    /\ At(p, "off", "leases")
    /\ found' = [found EXCEPT ![p] = {i \in Ids : Held(i)}]
    /\ reaps' = reaps + 1
    /\ UNCHANGED <<leaseVars, ledger, live, targets>>

\* leaseSnapshot: a record that cannot be read speaks for nobody.
ReapLeases(p) ==
    /\ At(p, "leases", "show")
    /\ \E unread \in (IF SlowReads THEN SUBSET Agents ELSE {{}}) :
           live' = [live EXCEPT ![p] =
               {s \in Sessions : AgentOf[s] \notin unread /\ Vouches(agent[AgentOf[s]], s)}]
    /\ UNCHANGED <<leaseVars, ledger, found, targets, reaps>>

\* Show: the issue is read again, and is a target unless its owner is live.
ReapShow(p) ==
    /\ stage[p] = "show"
    /\ \E i \in found[p] :
        /\ found' = [found EXCEPT ![p] = @ \ {i}]
        /\ targets' = IF owner[i] \in live[p] THEN targets
                      ELSE [targets EXCEPT ![p] = @ \cup {<<i, owner[i]>>}]
    /\ UNCHANGED <<leaseVars, ledger, stage, live, reaps>>

\* Every listed issue was shown: with targets, the reap registers as any
\* command that changes the board does.
ReapRegister(p) ==
    /\ stage[p] = "show" /\ found[p] = {}
    /\ IF targets[p] = {}
       THEN Over(p) /\ UNCHANGED leaseVars
       ELSE /\ At(p, "show", "take")
            /\ StartCommand(p)
            /\ UNCHANGED <<found, live, targets>>
    /\ UNCHANGED <<ledger, reaps>>

\* The check inside the CAS loop.
StillSeen(i, seen) == ReapPermitted(seen, status[i], owner[i])

\* One target: taken back, or left alone because somebody changed it.
ReapTake(p) ==
    /\ stage[p] = "take" /\ pc[p] = "work"
    /\ \E t \in targets[p] :
        /\ IF ~filed[t[1]] /\ StillSeen(t[1], t[2])
           THEN TakeBack(t[1]) ELSE UNCHANGED ledger
        /\ targets' = [targets EXCEPT ![p] = @ \ {t}]
    /\ UNCHANGED <<leaseVars, stage, found, live, reaps>>

\* A CAS of the reap is lost or its ref is locked: the target is skipped.
ReapSkip(p) ==
    /\ stage[p] = "take" /\ pc[p] = "work"
    /\ \E t \in targets[p] : targets' = [targets EXCEPT ![p] = @ \ {t}]
    /\ UNCHANGED <<leaseVars, ledger, stage, found, live, reaps>>

ReapDone(p) ==
    /\ stage[p] = "take" /\ targets[p] = {}
    /\ Leave(p)
    /\ Over(p)
    /\ UNCHANGED <<ledger, reaps>>

\* Registration failed (the worktree is taken, a flock timed out), or the
\* process died: its reap is over.
ReapAborted(p) ==
    /\ stage[p] = "take" /\ pc[p] = "idle"
    /\ Over(p)
    /\ UNCHANGED <<leaseVars, ledger, reaps>>

ReapCrash(p) ==
    /\ stage[p] \in {"leases", "show"}
    /\ Over(p)
    /\ UNCHANGED <<leaseVars, ledger, reaps>>

Reap(p) ==
    \/ ReapList(p) \/ ReapLeases(p) \/ ReapShow(p) \/ ReapRegister(p)
    \/ ReapTake(p) \/ ReapSkip(p) \/ ReapDone(p) \/ ReapAborted(p) \/ ReapCrash(p)

---------------------------------------------------------------------------
(***************************** Other commands ******************************)

notReaping == <<stage, found, live, targets, reaps>>

\* A registered command changes an issue, or is refused, and is over.
Command(p) ==
    /\ stage[p] = "off"
    /\ Leave(p)
    /\ \/ UNCHANGED ledger
       \/ \E i \in Ids, act \in Actions, force \in BOOLEAN :
              Perform(i, Me(p), act, force)
    /\ UNCHANGED notReaping

\* Registration and the environment, as in Leases.  A process in the reads
\* of a reap does not begin another command.
Session(p) ==
    /\ stage[p] \in {"off", "take"}
    /\ stage[p] = "take" => pc[p] # "idle"
    /\ Register(p) \/ Crash(p)
    /\ UNCHANGED <<ledger, notReaping>>

Outside ==
    /\ Around
    /\ UNCHANGED <<ledger, notReaping>>

Filing ==
    /\ \E i \in Ids : File(i)
    /\ UNCHANGED <<leaseVars, notReaping>>

ReapNext ==
    /\ \/ \E p \in Procs : Reap(p) \/ Command(p) \/ Session(p)
       \/ Outside \/ Filing
    /\ Watching

ReapSpec == ReapInit /\ [][ReapNext]_reapVars

---------------------------------------------------------------------------
(****************************** Properties *********************************)

\* Process p takes an issue back in this step.
TookBack(p, i) ==
    /\ stage[p] = "take" /\ targets'[p] # targets[p]
    /\ owner[i] # Nobody /\ owner'[i] = Nobody

\* A session that was vouched for all along loses nothing to a reap, however
\* the reap and the commands of others interleave.
AliveKeepsIssue ==
    [][\A p \in Procs, i \in Ids : TookBack(p, i) => owner[i] \notin watch[p].alive]_reapVars

\* A reap misses no dead owner: an issue nobody touched since the listing,
\* of an owner nothing spoke for since then, is taken back or still a target.
DeadIsTargeted ==
    \A p \in Procs :
        stage[p] = "show" =>
            \A i \in watch[p].still \ found[p] :
                owner[i] \in watch[p].silent => <<i, owner[i]>> \in targets[p]

\* What T4.5 asks: the issue of another session that is alive is not taken
\* back.  Not kept: an owner that comes back after the snapshot still loses
\* its issue (README, "What does not hold").
LivingKeepsIssue ==
    [][\A p \in Procs, i \in Ids :
           TookBack(p, i) /\ owner[i] # Me(p) => owner[i] \notin Vouched]_reapVars

\* Whenever a command is refused because the issue has no owner, the advice
\* it gives, to start the issue first, can be followed.  Not kept: a blocked
\* issue that was taken back from its owner cannot be started (README, "What
\* does not hold").
StartFirst ==
    \A i \in Ids, act \in Keep :
        ~filed[i] /\ status[i] \in From(act, FALSE) /\ owner[i] = Nobody =>
            \E s \in Sessions : Permitted("start", FALSE, status[i], Nobody, s)
===========================================================================
