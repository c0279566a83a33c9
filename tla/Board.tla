------------------------------- MODULE Board ------------------------------
(***************************************************************************)
(* The issue half of the ppwk board: commands of many operating-system     *)
(* processes that read an issue, decide, and publish the decision with a   *)
(* compare-and-swap on the ref of the issue, then move a finished issue    *)
(* from refs/ppwk/issues/ to refs/ppwk/archive/ in one ref transaction.    *)
(*                                                                         *)
(* One action is one access to the ref store (a Get, a CAS, a transaction) *)
(* with everything the process does up to its next access, so commands of  *)
(* different processes interleave wherever the code lets them.             *)
(*                                                                         *)
(* A ref holds the position of a commit in `objects', 0 when it does not   *)
(* exist.  A commit enters `objects' when a ref first points at it: one    *)
(* whose CAS never succeeds stays unreachable in git and is left out here. *)
(* Positions are unique as commit hashes are: the parent is part of the    *)
(* commit, and a ref never returns to an earlier value.                    *)
(***************************************************************************)
EXTENDS IssueRules, Integers, Sequences

CONSTANTS NumIds,        \* issues T001 .. T<NumIds>
          Procs,         \* process slots; a crashed process frees its slot
          Agents,
          SessionOf,     \* the session a process runs in
          AgentOf,       \* the agent a session belongs to
          LockAttempts,  \* Backoff.LockAttempts
          MaxRetry,      \* bound: the largest --retry
          MaxCommands,   \* bound: commands started in a behaviour
          MineMayForce   \* does release --mine come with --force as well?

ASSUME BoardAssumption ==
    /\ NumIds \in Nat \ {0} /\ LockAttempts \in Nat \ {0}
    /\ MaxRetry \in Nat /\ MaxCommands \in Nat
    /\ SessionOf \in [Procs -> Sessions]
    /\ AgentOf \in [Sessions -> Agents]
    /\ MineMayForce \in BOOLEAN

Ids == 1..NumIds

VARIABLES
    objects,   \* the commits refs have pointed at, oldest first
    issues,    \* refs/ppwk/issues/<id>
    archive,   \* refs/ppwk/archive/<id>
    stuck,     \* issues whose refs carry the .lock file of a killed git
    pc,        \* the next ref access of each process
    cmd,       \* the command it runs
    old,       \* the commit it read
    casLeft,   \* CAS attempts left, this one included
    lockLeft,  \* lock attempts left, this one included
    todo,      \* issues a batch command has still to visit
    started    \* commands started so far

refs  == <<objects, issues, archive>>
local == <<pc, cmd, old, casLeft, lockLeft, todo>>
vars  == <<refs, stuck, local, started>>

---------------------------------------------------------------------------
(***************************** Data ****************************************)

Commit == [id : Ids, status : Status, owner : Owners, by : Owners,
           event : Actions \cup {"create", "reap"}, parent : Nat]

\* act "archive" is the archive command and archive --sweep; `seen' is the
\* owner a reap saw when it chose the issue; `mine' marks release --mine.
Command == [act : Actions \cup {"reap", "archive"}, id : Ids, force : BOOLEAN,
            seen : Owners, retry : 0..MaxRetry, mine : BOOLEAN]

Verb(act, i, force, seen, retry, mine) ==
    [act |-> act, id |-> i, force |-> force, seen |-> seen,
     retry |-> retry, mine |-> mine]

Idle == Verb("archive", 1, FALSE, Nobody, 0, FALSE)

Tip(i) == IF issues[i] # 0 THEN issues[i] ELSE archive[i]

Record(i) == objects[Tip(i)]

\* Mutant of Accepts: the rules are checked by the caller, once, and not here.
AcceptsAll(p, c) == cmd[p].act # "archive"

\* Mutation.Apply: does the command accept this state of the issue?
Accepts(p, c) ==
    IF cmd[p].act = "reap"
    THEN ReapPermitted(cmd[p].seen, c.status, c.owner)
    ELSE /\ cmd[p].act # "archive"
         /\ Permitted(cmd[p].act, cmd[p].force, c.status, c.owner, SessionOf[p])

\* The commit the command writes on top of commit h.
Successor(p, h) ==
    LET c == objects[h]
        a == cmd[p].act
    IN  [id     |-> c.id,
         status |-> IF a = "reap" THEN ReapStatus(c.status) ELSE To(a),
         owner  |-> IF a = "reap" THEN Nobody
                                  ELSE NewOwner(a, c.owner, SessionOf[p]),
         by     |-> SessionOf[p],
         event  |-> a,
         parent |-> h]

---------------------------------------------------------------------------
(************************* Starting a command ******************************)

Init ==
    /\ objects = [i \in Ids |-> [id |-> i, status |-> "open", owner |-> Nobody,
                                 by |-> Nobody, event |-> "create", parent |-> 0]]
    /\ issues  = [i \in Ids |-> i]
    /\ archive = [i \in Ids |-> 0]
    /\ stuck = {}
    /\ pc = [p \in Procs |-> "idle"]
    /\ cmd = [p \in Procs |-> Idle]
    /\ old = [p \in Procs |-> 0]
    /\ casLeft = [p \in Procs |-> 0]
    /\ lockLeft = [p \in Procs |-> 0]
    /\ todo = [p \in Procs |-> {}]
    /\ started = 0

\* Process p starts command c at program counter `at', on the issues in batch.
Start(p, c, at, batch) ==
    /\ pc[p] = "idle"
    /\ started < MaxCommands
    /\ started' = started + 1
    /\ pc' = [pc EXCEPT ![p] = at]
    /\ cmd' = [cmd EXCEPT ![p] = c]
    /\ casLeft' = [casLeft EXCEPT ![p] = c.retry + 1]
    /\ lockLeft' = [lockLeft EXCEPT ![p] = LockAttempts]
    /\ todo' = [todo EXCEPT ![p] = batch]
    /\ UNCHANGED <<refs, stuck, old>>

\* claim, start, done, block, unblock, release, cancel <id>.
StartTransition(p) ==
    \E act \in Actions, i \in Ids, retry \in 0..MaxRetry :
        \E force \in (IF act \in Clear THEN BOOLEAN ELSE {FALSE}) :
            Start(p, Verb(act, i, force, Nobody, retry, FALSE), "load", {})

\* One target of reap: the issue was shown with its owner, then it is mutated.
StartReap(p) ==
    \E i \in Ids :
        Start(p, Verb("reap", i, FALSE, Record(i).owner, 0, FALSE), "load", {})

\* archive <id>.
StartArchive(p) ==
    \E i \in Ids :
        Start(p, Verb("archive", i, FALSE, Nobody, 0, FALSE), "archGet", {})

\* archive --sweep: List the finished issues that are still in issues/.
StartSweep(p) ==
    LET found == {i \in Ids : issues[i] # 0 /\ Record(i).status \in Terminal}
    IN  /\ found # {}
        /\ Start(p, Verb("archive", 1, FALSE, Nobody, 0, FALSE), "pick", found)

\* release --mine: List the claimed issues of this agent, of any session.
StartReleaseMine(p) ==
    LET Mine(o) == o # Nobody /\ AgentOf[o] = AgentOf[SessionOf[p]]
        found == {i \in Ids : /\ issues[i] # 0
                              /\ Record(i).status = "claimed"
                              /\ Mine(Record(i).owner)}
    IN  /\ found # {}
        /\ \E force \in {FALSE, MineMayForce}, retry \in 0..MaxRetry :
               Start(p, Verb("release", 1, force, Nobody, retry, TRUE), "pick", found)

\* A batch turns to its next issue, in the order of the list.
Pick(p) ==
    /\ pc[p] = "pick"
    /\ \E i \in todo[p] :
        /\ \A j \in todo[p] : i <= j
        /\ cmd' = [cmd EXCEPT ![p].id = i]
        /\ todo' = [todo EXCEPT ![p] = @ \ {i}]
    /\ casLeft' = [casLeft EXCEPT ![p] = cmd[p].retry + 1]
    /\ lockLeft' = [lockLeft EXCEPT ![p] = LockAttempts]
    /\ pc' = [pc EXCEPT ![p] = IF cmd[p].act = "archive" THEN "archGet" ELSE "load"]
    /\ UNCHANGED <<refs, stuck, old, started>>

---------------------------------------------------------------------------
(************************ Mutate and its CAS loop **************************)

Id(p) == cmd[p].id

GoTo(p, at) == pc' = [pc EXCEPT ![p] = at]

\* The command is over for this issue: a batch goes on, whatever happened.
Finish(p) ==
    /\ IF todo[p] = {} THEN GoTo(p, "idle") /\ cmd' = [cmd EXCEPT ![p] = Idle]
                       ELSE GoTo(p, "pick") /\ UNCHANGED cmd
    /\ old' = [old EXCEPT ![p] = 0]
    /\ casLeft' = [casLeft EXCEPT ![p] = 0]
    /\ lockLeft' = [lockLeft EXCEPT ![p] = 0]
    /\ UNCHANGED todo

\* loadIssue finds the issue in issues/ and Apply accepts or rejects it.
Load(p) ==
    /\ pc[p] = "load"
    /\ issues[Id(p)] # 0
    /\ IF Accepts(p, objects[issues[Id(p)]])
       THEN /\ GoTo(p, "cas")
            /\ old' = [old EXCEPT ![p] = issues[Id(p)]]
            /\ lockLeft' = [lockLeft EXCEPT ![p] = LockAttempts]
            /\ UNCHANGED <<cmd, casLeft, todo>>
       ELSE Finish(p)
    /\ UNCHANGED <<refs, stuck, started>>

\* loadIssue does not find it in issues/ and will look in archive/.
LoadMissing(p) ==
    /\ pc[p] = "load"
    /\ issues[Id(p)] = 0
    /\ GoTo(p, "loadArchive")
    /\ UNCHANGED <<refs, stuck, cmd, old, casLeft, lockLeft, todo, started>>

\* Found in archive/ or nowhere: either way Mutate returns an error.
LoadArchive(p) ==
    /\ pc[p] = "loadArchive"
    /\ Finish(p)
    /\ UNCHANGED <<refs, stuck, started>>

\* Mutant of RefUnmoved: update-ref without the old value.
RefUnchecked(p) == TRUE

\* The ref still holds the commit that was read.
RefUnmoved(p) == issues[Id(p)] = old[p]

\* The CAS succeeds; a terminal issue is archived next.
CasWin(p) ==
    /\ pc[p] = "cas"
    /\ Id(p) \notin stuck
    /\ RefUnmoved(p)
    /\ objects' = Append(objects, Successor(p, old[p]))
    /\ issues' = [issues EXCEPT ![Id(p)] = Len(objects) + 1]
    /\ IF Successor(p, old[p]).status \in Terminal
       THEN /\ GoTo(p, "archGet")
            /\ lockLeft' = [lockLeft EXCEPT ![p] = LockAttempts]
            /\ UNCHANGED <<cmd, old, casLeft, todo>>
       ELSE Finish(p)
    /\ UNCHANGED <<archive, stuck, started>>

\* Mutant of NextAttempt: the attempts are never used up.
RetryForever(p) == GoTo(p, "load") /\ UNCHANGED <<cmd, old, casLeft, lockLeft, todo>>

\* The attempt is lost: read again, or give up with a ConflictError.
NextAttempt(p) ==
    IF casLeft[p] > 1
    THEN /\ GoTo(p, "load")
         /\ casLeft' = [casLeft EXCEPT ![p] = @ - 1]
         /\ UNCHANGED <<cmd, old, lockLeft, todo>>
    ELSE Finish(p)

\* Somebody moved the ref since it was read (ErrCASConflict).
CasLose(p) ==
    /\ pc[p] = "cas"
    /\ Id(p) \notin stuck
    /\ ~RefUnmoved(p)
    /\ NextAttempt(p)
    /\ UNCHANGED <<refs, stuck, started>>

\* The lock of the ref is taken (ErrLockBusy): the same commit is tried
\* again, and when the lock attempts run out the CAS attempt is lost.
CasBusy(p) ==
    /\ pc[p] = "cas"
    /\ IF lockLeft[p] > 1
       THEN /\ lockLeft' = [lockLeft EXCEPT ![p] = @ - 1]
            /\ UNCHANGED <<pc, cmd, old, casLeft, todo>>
       ELSE NextAttempt(p)
    /\ UNCHANGED <<refs, stuck, started>>

---------------------------------------------------------------------------
(******************************* Archive ***********************************)

\* The issue is still in issues/, and it is finished.
Movable(p) == issues[Id(p)] # 0 /\ objects[issues[Id(p)]].status \in Terminal

\* Archive reads issues/<id>: gone, not finished, or ready to move.
ArchiveGet(p) ==
    /\ pc[p] = "archGet"
    /\ IF Movable(p)
       THEN /\ GoTo(p, "archTx")
            /\ old' = [old EXCEPT ![p] = issues[Id(p)]]
            /\ UNCHANGED <<cmd, casLeft, lockLeft, todo>>
       ELSE Finish(p)
    /\ UNCHANGED <<refs, stuck, started>>

\* Mutant of MoveRefs: two calls instead of a transaction, killed in between.
CreateOnly(p) == archive' = [archive EXCEPT ![Id(p)] = old[p]] /\ UNCHANGED issues

\* The effect of the transaction { create archive/<id>, delete issues/<id> }.
MoveRefs(p) ==
    /\ archive' = [archive EXCEPT ![Id(p)] = old[p]]
    /\ issues' = [issues EXCEPT ![Id(p)] = 0]

\* The transaction goes through.
ArchiveMove(p) ==
    /\ pc[p] = "archTx"
    /\ Id(p) \notin stuck
    /\ RefUnmoved(p) /\ archive[Id(p)] = 0
    /\ MoveRefs(p)
    /\ Finish(p)
    /\ UNCHANGED <<objects, stuck, started>>

\* Another round of the loop of Archive, while it has attempts left.
ArchiveAgain(p) ==
    IF lockLeft[p] > 1
    THEN /\ GoTo(p, "archGet")
         /\ lockLeft' = [lockLeft EXCEPT ![p] = @ - 1]
         /\ UNCHANGED <<cmd, old, casLeft, todo>>
    ELSE Finish(p)

\* A conflict: final when archive/<id> exists, a reason to reread otherwise.
ArchiveConflict(p) ==
    /\ pc[p] = "archTx"
    /\ Id(p) \notin stuck
    /\ ~(RefUnmoved(p) /\ archive[Id(p)] = 0)
    /\ IF archive[Id(p)] # 0 THEN Finish(p) ELSE ArchiveAgain(p)
    /\ UNCHANGED <<refs, stuck, started>>

ArchiveBusy(p) ==
    /\ pc[p] = "archTx"
    /\ ArchiveAgain(p)
    /\ UNCHANGED <<refs, stuck, started>>

---------------------------------------------------------------------------
(******************************* Failure ***********************************)

\* The process is killed between two accesses, or inside git: the ref is as
\* it was, but the .lock file may stay behind and is never removed by ppwk.
Crash(p) ==
    /\ pc[p] # "idle"
    /\ GoTo(p, "idle") /\ cmd' = [cmd EXCEPT ![p] = Idle]
    /\ old' = [old EXCEPT ![p] = 0]
    /\ casLeft' = [casLeft EXCEPT ![p] = 0]
    /\ lockLeft' = [lockLeft EXCEPT ![p] = 0]
    /\ todo' = [todo EXCEPT ![p] = {}]
    /\ stuck' \in {stuck} \cup
                  (IF pc[p] \in {"cas", "archTx"} THEN {stuck \cup {Id(p)}} ELSE {})
    /\ UNCHANGED <<refs, started>>

---------------------------------------------------------------------------
Begin(p) ==
    \/ StartTransition(p) \/ StartReap(p) \/ StartArchive(p)
    \/ StartSweep(p) \/ StartReleaseMine(p)

Step(p) ==
    \/ Pick(p)
    \/ Load(p) \/ LoadMissing(p) \/ LoadArchive(p)
    \/ CasWin(p) \/ CasLose(p) \/ CasBusy(p)
    \/ ArchiveGet(p) \/ ArchiveMove(p) \/ ArchiveConflict(p) \/ ArchiveBusy(p)

Next == \E p \in Procs : Begin(p) \/ Step(p) \/ Crash(p)

Spec == Init /\ [][Next]_vars

\* A running process is scheduled; nobody has to start a command or to crash.
Fairness == \A p \in Procs : WF_vars(Step(p))

FairSpec == Spec /\ Fairness

---------------------------------------------------------------------------
(****************************** Properties *********************************)

\* Type invariant.
TypeOK ==
    /\ objects \in Seq(Commit)
    /\ issues \in [Ids -> 0..Len(objects)]
    /\ archive \in [Ids -> 0..Len(objects)]
    /\ stuck \subseteq Ids
    /\ pc \in [Procs -> {"idle", "pick", "load", "loadArchive", "cas",
                         "archGet", "archTx"}]
    /\ cmd \in [Procs -> Command]
    /\ old \in [Procs -> 0..Len(objects)]
    /\ casLeft \in [Procs -> 0..MaxRetry + 1]
    /\ lockLeft \in [Procs -> 0..LockAttempts]
    /\ todo \in [Procs -> SUBSET Ids]
    /\ started \in 0..MaxCommands

\* No update is lost: the parent of a commit is the latest earlier commit of
\* the same issue and the ref, wherever it is, points at the latest one, so
\* every command that was told it succeeded is in the history of the ref and
\* no two commands built on the same state.
NoLostUpdate ==
    /\ \A h, k \in DOMAIN objects :
           objects[h].id = objects[k].id /\ h < k =>
               h <= objects[k].parent /\ objects[k].parent < k
    /\ \A i \in Ids, h \in DOMAIN objects : objects[h].id = i => h <= Tip(i)

\* An issue is in issues/ or in archive/, never in both and never in neither,
\* whoever sweeps, finishes or dies in the middle of the move.
OnePlace == \A i \in Ids : (issues[i] = 0) # (archive[i] = 0)

\* Whatever is in archive/ is finished.
ArchiveIsFinished ==
    \A i \in Ids : archive[i] # 0 => objects[archive[i]].status \in Terminal

\* An owner is recorded exactly while somebody answers for the issue; only a
\* blocked issue may have lost its owner to a reap.
OwnerMatchesStatus ==
    \A i \in Ids :
        /\ Record(i).status \in {"open", "cancelled"} => Record(i).owner = Nobody
        /\ Record(i).status \in {"claimed", "working", "done"} => Record(i).owner # Nobody

\* Ownership never passes from one session to another in one commit, and
\* nobody is made the owner by somebody else's command.
NoHandover ==
    \A k \in DOMAIN objects :
        objects[k].parent # 0 =>
            LET before == objects[objects[k].parent].owner
                after  == objects[k].owner
            IN  after \in {before, Nobody} \/ (before = Nobody /\ after = objects[k].by)

\* Work is finished only by the session that held it when the commit landed.
DoneByHolder ==
    \A k \in DOMAIN objects :
        objects[k].status = "done" =>
            /\ objects[objects[k].parent].status = "working"
            /\ objects[objects[k].parent].owner = objects[k].by

\* The rules of ownership, in every commit there is and whoever raced for it.
OwnershipKept == OwnerMatchesStatus /\ NoHandover /\ DoneByHolder

\* release --mine reopens claimed issues and leaves work in progress alone.
MineKeepsWorking ==
    [][\A p \in Procs : CasWin(p) /\ cmd[p].mine => objects[old[p]].status = "claimed"]_vars

\* A finished issue never changes again: it is moved, never rewritten.
FinishedIsFinal ==
    [][\A i \in Ids : Record(i).status \in Terminal => Tip(i)' = Tip(i)]_vars

\* Every command returns (or its process dies), even on a ref whose stale
\* lock nobody removes and with rivals on every attempt.
CommandsReturn == \A p \in Procs : pc[p] # "idle" ~> pc[p] = "idle"

---------------------------------------------------------------------------
(***************************************************************************)
(* The board implements the ledger: the record of an issue is the commit   *)
(* its ref points at, and it is filed once its ref is in archive/.  Only a *)
(* CAS that wins and the archive transaction change it.                    *)
(***************************************************************************)
Ledger == INSTANCE IssueLedger WITH
              status <- [i \in Ids |-> Record(i).status],
              owner  <- [i \in Ids |-> Record(i).owner],
              filed  <- [i \in Ids |-> archive[i] # 0]

ImplementsLedger == Ledger!LedgerSpec
===========================================================================
