---------------------------- MODULE BoardProofs ---------------------------
(***************************************************************************)
(* Machine-checked proofs about Board, for any number of issues,           *)
(* processes, sessions, retries and commands.                              *)
(***************************************************************************)
EXTENDS Board, TLAPS, SequenceTheorems

---------------------------------------------------------------------------
(*********************** The inductive invariant ***************************)

\* The ref of an issue points at a commit of that issue.
TipMatches == \A i \in Ids : Tip(i) \in DOMAIN objects /\ Record(i).id = i

\* The owner on record fits the status, in every commit ever published.
CommitsOwned ==
    \A k \in DOMAIN objects :
        /\ objects[k].status \in {"open", "cancelled"} => objects[k].owner = Nobody
        /\ objects[k].status \in {"claimed", "working", "done"} =>
               objects[k].owner # Nobody

\* The parent of a commit is an earlier commit, and there is one if it is done.
ParentsExist ==
    \A k \in DOMAIN objects :
        /\ objects[k].parent \in 0..(k - 1)
        /\ objects[k].status = "done" => objects[k].parent # 0

RefsOK == /\ OnePlace /\ TipMatches /\ NoLostUpdate /\ ArchiveIsFinished
          /\ CommitsOwned /\ ParentsExist /\ NoHandover /\ DoneByHolder

\* A process about to publish holds a commit of its issue that its command
\* accepts, or that is finished: what it read and decided cannot go stale,
\* because commits never change and the ref is compared with what it read.
Holds(p) == old[p] # 0 /\ objects[old[p]].id = Id(p)

JobOK(p) ==
    /\ pc[p] = "cas" => Holds(p) /\ Accepts(p, objects[old[p]])
    /\ pc[p] = "archTx" => Holds(p) /\ objects[old[p]].status \in Terminal

IInv == TypeOK /\ RefsOK /\ \A p \in Procs : JobOK(p)

Pcs == {"idle", "pick", "load", "loadArchive", "cas", "archGet", "archTx"}

\* The part of the type invariant that is about process p.
JobTyped(p) ==
    /\ pc[p] \in Pcs
    /\ cmd[p] \in Command
    /\ old[p] \in 0..Len(objects)
    /\ casLeft[p] \in 0..MaxRetry + 1
    /\ lockLeft[p] \in 0..LockAttempts
    /\ todo[p] \in SUBSET Ids

\* A step of process p leaves the registers of the others alone.
Only(p) ==
    /\ pc' = [pc EXCEPT ![p] = pc'[p]]
    /\ cmd' = [cmd EXCEPT ![p] = cmd'[p]]
    /\ old' = [old EXCEPT ![p] = old'[p]]
    /\ casLeft' = [casLeft EXCEPT ![p] = casLeft'[p]]
    /\ lockLeft' = [lockLeft EXCEPT ![p] = lockLeft'[p]]
    /\ todo' = [todo EXCEPT ![p] = todo'[p]]

---------------------------------------------------------------------------
(************************* The initial states ******************************)

LEMMA InitTyped == Init => TypeOK
<1> SUFFICES ASSUME Init PROVE TypeOK
  OBVIOUS
<1> USE BoardAssumption DEF Init
<1>1. objects \in [1..NumIds -> Commit]
  BY DEF Ids, Commit, Status, Owners
<1>2. objects \in Seq(Commit) /\ Len(objects) = NumIds
  BY <1>1, SeqDef, LenProperties
<1>3. Idle \in Command
  BY DEF Idle, Verb, Command, Ids, Owners
<1> QED
  BY <1>2, <1>3 DEF TypeOK, Ids

LEMMA InitInv == Init => IInv
<1> SUFFICES ASSUME Init PROVE IInv
  OBVIOUS
<1>1. TypeOK
  BY InitTyped
<1>2. DOMAIN objects = Ids /\ \A i \in Ids : Tip(i) = i /\ i # 0
  BY BoardAssumption DEF Init, Tip, Ids
<1>3. RefsOK
  BY <1>2 DEF Init, RefsOK, OnePlace, TipMatches, NoLostUpdate, Record, Ids,
     ArchiveIsFinished, CommitsOwned, ParentsExist, NoHandover, DoneByHolder
<1> QED
  BY <1>1, <1>3 DEF IInv, JobOK, Init

---------------------------------------------------------------------------
(********************** Steps that move no ref *****************************)

\* Whatever p does to its own registers, the invariant survives if they stay
\* well typed and what p holds before it publishes is right.
LEMMA LocalStep ==
    ASSUME IInv, NEW p \in Procs, Only(p), UNCHANGED refs,
           stuck' \subseteq Ids, started' \in 0..MaxCommands,
           JobTyped(p)', JobOK(p)'
    PROVE  IInv'
<1>1. UNCHANGED <<objects, issues, archive>>
  BY DEF refs
<1>2. TypeOK'
  BY <1>1 DEF IInv, TypeOK, Only, JobTyped, Pcs
<1>3. RefsOK'
  BY <1>1 DEF IInv, RefsOK, OnePlace, TipMatches, NoLostUpdate, ArchiveIsFinished,
     CommitsOwned, ParentsExist, NoHandover, DoneByHolder, Tip, Record
<1>4. ASSUME NEW q \in Procs, q # p PROVE JobOK(q)'
  <2>1. pc'[q] = pc[q] /\ cmd'[q] = cmd[q] /\ old'[q] = old[q]
    BY <1>4 DEF IInv, TypeOK, Only
  <2> QED
    BY <1>1, <2>1, <1>4 DEF IInv, JobOK, Holds, Accepts, Id
<1> QED
  BY <1>2, <1>3, <1>4 DEF IInv

---------------------------------------------------------------------------
(************************* Commands begin **********************************)

LEMMA VerbTyped ==
    ASSUME NEW act \in Actions \cup {"reap", "archive"}, NEW i \in Ids,
           NEW force \in BOOLEAN, NEW seen \in Owners, NEW retry \in 0..MaxRetry,
           NEW mine \in BOOLEAN
    PROVE  Verb(act, i, force, seen, retry, mine) \in Command
BY DEF Verb, Command

LEMMA IdleTyped == Idle \in Command
BY BoardAssumption DEF Idle, Verb, Command, Ids, Owners

LEMMA RecordTyped == ASSUME IInv, NEW i \in Ids PROVE Record(i) \in Commit
<1>1. Tip(i) \in DOMAIN objects /\ objects \in Seq(Commit)
  BY DEF IInv, RefsOK, TipMatches, TypeOK
<1> QED
  BY <1>1, ElementOfSeq DEF Record

LEMMA StartStep ==
    ASSUME IInv, NEW p \in Procs, NEW c \in Command,
           NEW at \in {"load", "archGet", "pick"}, NEW batch \in SUBSET Ids,
           Start(p, c, at, batch)
    PROVE  IInv'
<1>1. TypeOK
  BY DEF IInv
<1>2. c.retry + 1 \in 0..MaxRetry + 1
  BY BoardAssumption DEF Command
<1>3. Only(p) /\ pc'[p] = at /\ cmd'[p] = c /\ casLeft'[p] = c.retry + 1
      /\ lockLeft'[p] = LockAttempts /\ todo'[p] = batch /\ old'[p] = old[p]
  BY <1>1 DEF Start, Only, TypeOK
<1>4. UNCHANGED <<refs, stuck>> /\ started' \in 0..MaxCommands
  BY <1>1, BoardAssumption DEF Start, TypeOK
<1>5. JobTyped(p)'
  BY <1>1, <1>2, <1>3, <1>4, BoardAssumption DEF JobTyped, TypeOK, Pcs, refs
<1>6. JobOK(p)'
  BY <1>3 DEF JobOK
<1> QED
  BY <1>1, <1>3, <1>4, <1>5, <1>6, LocalStep DEF TypeOK

LEMMA BeginStep == ASSUME IInv, NEW p \in Procs, Begin(p) PROVE IInv'
<1>0. 0 \in 0..MaxRetry /\ 1 \in Ids /\ Nobody \in Owners
  BY BoardAssumption DEF Ids, Owners
<1>a. ASSUME NEW c \in Command, NEW at \in {"load", "archGet"}, Start(p, c, at, {})
      PROVE  IInv'
  <2>1. {} \in SUBSET Ids
    OBVIOUS
  <2> QED
    BY <1>a, <2>1, StartStep
<1>1. CASE StartTransition(p)
  <2>1. PICK act \in Actions, i \in Ids, retry \in 0..MaxRetry :
            \E force \in (IF act \in Clear THEN BOOLEAN ELSE {FALSE}) :
                Start(p, Verb(act, i, force, Nobody, retry, FALSE), "load", {})
    BY <1>1 DEF StartTransition
  <2>2. PICK force \in BOOLEAN :
            Start(p, Verb(act, i, force, Nobody, retry, FALSE), "load", {})
    BY <2>1
  <2>3. Verb(act, i, force, Nobody, retry, FALSE) \in Command
    BY <1>0, VerbTyped
  <2> QED
    BY <2>2, <2>3, <1>a
<1>2. CASE StartReap(p)
  <2>1. PICK i \in Ids :
            Start(p, Verb("reap", i, FALSE, Record(i).owner, 0, FALSE), "load", {})
    BY <1>2 DEF StartReap
  <2>2. Record(i).owner \in Owners
    BY RecordTyped DEF Commit
  <2>3. Verb("reap", i, FALSE, Record(i).owner, 0, FALSE) \in Command
    BY <1>0, <2>2, VerbTyped
  <2> QED
    BY <2>1, <2>3, <1>a
<1>3. CASE StartArchive(p)
  <2>1. PICK i \in Ids :
            Start(p, Verb("archive", i, FALSE, Nobody, 0, FALSE), "archGet", {})
    BY <1>3 DEF StartArchive
  <2>2. Verb("archive", i, FALSE, Nobody, 0, FALSE) \in Command
    BY <1>0, VerbTyped
  <2> QED
    BY <2>1, <2>2, <1>a
<1>4. CASE StartSweep(p)
  <2>1. PICK batch \in SUBSET Ids :
            Start(p, Verb("archive", 1, FALSE, Nobody, 0, FALSE), "pick", batch)
    BY <1>4, Zenon DEF StartSweep
  <2>2. Verb("archive", 1, FALSE, Nobody, 0, FALSE) \in Command
    BY <1>0, VerbTyped
  <2> QED
    BY <2>1, <2>2, StartStep
<1>5. CASE StartReleaseMine(p)
  <2> DEFINE found == {i \in Ids : /\ issues[i] # 0
                                   /\ Record(i).status = "claimed"
                                   /\ Record(i).owner # Nobody
                                   /\ AgentOf[Record(i).owner] = AgentOf[SessionOf[p]]}
  <2>1. PICK force \in {FALSE, MineMayForce}, retry \in 0..MaxRetry :
            Start(p, Verb("release", 1, force, Nobody, retry, TRUE), "pick", found)
    BY <1>5 DEF StartReleaseMine
  <2>2. Verb("release", 1, force, Nobody, retry, TRUE) \in Command
    BY <1>0, VerbTyped, BoardAssumption DEF Actions
  <2>3. found \in SUBSET Ids
    OBVIOUS
  <2> QED
    BY <2>1, <2>2, <2>3, StartStep
<1> QED
  BY <1>1, <1>2, <1>3, <1>4, <1>5 DEF Begin

---------------------------------------------------------------------------
(************************** Commands go on *********************************)

\* The registers of p after Finish are harmless, whatever the refs become.
LEMMA FinishLocal ==
    ASSUME TypeOK, NEW p \in Procs, Finish(p), Len(objects') \in Nat
    PROVE  Only(p) /\ JobTyped(p)' /\ JobOK(p)'
<1>1. Only(p) /\ old'[p] = 0 /\ casLeft'[p] = 0 /\ lockLeft'[p] = 0 /\ todo'[p] = todo[p]
  BY DEF TypeOK, Finish, GoTo, Only
<1>2. /\ pc'[p] \in {"idle", "pick"}
      /\ cmd'[p] \in {cmd[p], Idle}
  BY DEF TypeOK, Finish, GoTo
<1>3. JobTyped(p)'
  BY <1>1, <1>2, IdleTyped, BoardAssumption DEF TypeOK, JobTyped, Pcs
<1>4. JobOK(p)'
  BY <1>2 DEF JobOK
<1> QED
  BY <1>1, <1>3, <1>4

LEMMA ObjectsLen == ASSUME TypeOK PROVE Len(objects) \in Nat /\ DOMAIN objects = 1..Len(objects)
BY LenProperties DEF TypeOK

LEMMA FinishStep ==
    ASSUME IInv, NEW p \in Procs, Finish(p), UNCHANGED <<refs, stuck, started>>
    PROVE  IInv'
<1>1. TypeOK
  BY DEF IInv
<1>2. Len(objects') \in Nat
  BY <1>1, ObjectsLen DEF refs
<1>3. Only(p) /\ JobTyped(p)' /\ JobOK(p)'
  BY <1>1, <1>2, FinishLocal
<1> QED
  BY <1>1, <1>3, LocalStep DEF TypeOK

\* A step of p that moves no ref and does not end the command.
LEMMA OnwardStep ==
    ASSUME IInv, NEW p \in Procs, UNCHANGED <<refs, stuck, started>>,
           Only(p), JobTyped(p)', JobOK(p)'
    PROVE  IInv'
<1>1. TypeOK
  BY DEF IInv
<1> QED
  BY <1>1, LocalStep DEF TypeOK

LEMMA PickStep == ASSUME IInv, NEW p \in Procs, Pick(p) PROVE IInv'
<1>1. TypeOK
  BY DEF IInv
<1>2. PICK i \in todo[p] : /\ cmd' = [cmd EXCEPT ![p].id = i]
                           /\ todo' = [todo EXCEPT ![p] = @ \ {i}]
  BY DEF Pick
<1>3. cmd[p].retry \in 0..MaxRetry /\ cmd'[p] \in Command /\ todo'[p] \in SUBSET Ids
  BY <1>1, <1>2 DEF TypeOK, Command
<1>4. Only(p)
  BY <1>1, <1>2 DEF TypeOK, Pick, Only
<1>5. JobTyped(p)'
  <2>1. /\ casLeft'[p] = cmd[p].retry + 1 /\ lockLeft'[p] = LockAttempts
        /\ pc'[p] \in {"archGet", "load"} /\ old'[p] = old[p]
    BY <1>1 DEF TypeOK, Pick
  <2> QED
    BY SMTT(30), <1>1, <1>3, <2>1, BoardAssumption DEF TypeOK, JobTyped, Pcs, Pick, refs
<1>6. JobOK(p)'
  BY <1>1 DEF TypeOK, Pick, JobOK
<1> QED
  BY <1>4, <1>5, <1>6, OnwardStep DEF Pick

LEMMA LoadStep == ASSUME IInv, NEW p \in Procs, Load(p) PROVE IInv'
<1>1. TypeOK /\ Id(p) \in Ids
  BY DEF IInv, TypeOK, Id, Command
<1>2. UNCHANGED <<refs, stuck, started>>
  BY DEF Load
<1>3. CASE ~Accepts(p, objects[issues[Id(p)]])
  BY <1>2, <1>3, FinishStep DEF Load
<1>4. CASE Accepts(p, objects[issues[Id(p)]])
  <2>1. /\ pc' = [pc EXCEPT ![p] = "cas"]
        /\ old' = [old EXCEPT ![p] = issues[Id(p)]]
        /\ lockLeft' = [lockLeft EXCEPT ![p] = LockAttempts]
        /\ UNCHANGED <<cmd, casLeft, todo>>
    BY <1>4 DEF Load, GoTo
  <2>2. Only(p)
    BY <1>1, <2>1 DEF TypeOK, Only
  <2>3. JobTyped(p)'
    BY <1>1, <1>2, <2>1, BoardAssumption DEF TypeOK, JobTyped, Pcs, refs
  <2>4. issues[Id(p)] # 0 /\ objects[issues[Id(p)]].id = Id(p)
    BY <1>1 DEF IInv, RefsOK, TipMatches, Tip, Record, Load
  <2>5. JobOK(p)'
    <3>1. pc'[p] = "cas" /\ old'[p] = issues[Id(p)] /\ cmd'[p] = cmd[p] /\ objects' = objects
      BY <1>1, <1>2, <2>1 DEF TypeOK, refs
    <3> QED
      BY <1>4, <2>4, <3>1 DEF JobOK, Holds, Accepts, Id
  <2> QED
    BY <1>2, <2>2, <2>3, <2>5, OnwardStep
<1> QED
  BY <1>3, <1>4

LEMMA GoToStep ==
    ASSUME IInv, NEW p \in Procs, NEW at \in {"load", "loadArchive", "archGet"},
           NEW k \in 0..MaxRetry + 1, NEW l \in 0..LockAttempts, GoTo(p, at),
           casLeft' = [casLeft EXCEPT ![p] = k], lockLeft' = [lockLeft EXCEPT ![p] = l],
           UNCHANGED <<refs, stuck, started, cmd, old, todo>>
    PROVE  IInv'
<1>1. TypeOK
  BY DEF IInv
<1>2. Only(p) /\ pc'[p] = at
  BY <1>1 DEF TypeOK, Only, GoTo
<1>3. JobTyped(p)'
  BY <1>1, <1>2 DEF TypeOK, JobTyped, Pcs, refs
<1>4. JobOK(p)'
  BY <1>2 DEF JobOK
<1> QED
  BY <1>2, <1>3, <1>4, OnwardStep

LEMMA NextAttemptStep ==
    ASSUME IInv, NEW p \in Procs, NextAttempt(p), UNCHANGED <<refs, stuck, started>>
    PROVE  IInv'
<1>1. TypeOK
  BY DEF IInv
<1>2. CASE casLeft[p] > 1
  <2>1. casLeft[p] - 1 \in 0..MaxRetry + 1 /\ lockLeft[p] \in 0..LockAttempts
    BY <1>1, <1>2, BoardAssumption DEF TypeOK
  <2>2. casLeft' = [casLeft EXCEPT ![p] = casLeft[p] - 1] /\ lockLeft' = [lockLeft EXCEPT ![p] = lockLeft[p]]
    BY <1>1, <1>2 DEF NextAttempt, TypeOK
  <2>3. GoTo(p, "load") /\ UNCHANGED <<cmd, old, todo>>
    BY <1>2 DEF NextAttempt
  <2> QED
    BY <2>1, <2>2, <2>3, GoToStep
<1>3. CASE ~(casLeft[p] > 1)
  BY <1>3, FinishStep DEF NextAttempt
<1> QED
  BY <1>2, <1>3

LEMMA ArchiveAgainStep ==
    ASSUME IInv, NEW p \in Procs, ArchiveAgain(p), UNCHANGED <<refs, stuck, started>>
    PROVE  IInv'
<1>1. TypeOK
  BY DEF IInv
<1>2. CASE lockLeft[p] > 1
  <2>1. lockLeft[p] - 1 \in 0..LockAttempts /\ casLeft[p] \in 0..MaxRetry + 1
    BY <1>1, <1>2, BoardAssumption DEF TypeOK
  <2>2. lockLeft' = [lockLeft EXCEPT ![p] = lockLeft[p] - 1] /\ casLeft' = [casLeft EXCEPT ![p] = casLeft[p]]
    BY <1>1, <1>2 DEF ArchiveAgain, TypeOK
  <2>3. GoTo(p, "archGet") /\ UNCHANGED <<cmd, old, todo>>
    BY <1>2 DEF ArchiveAgain
  <2> QED
    BY <2>1, <2>2, <2>3, GoToStep
<1>3. CASE ~(lockLeft[p] > 1)
  BY <1>3, FinishStep DEF ArchiveAgain
<1> QED
  BY <1>2, <1>3

LEMMA LoadMissingStep == ASSUME IInv, NEW p \in Procs, LoadMissing(p) PROVE IInv'
<1>1. TypeOK
  BY DEF IInv
<1>2. /\ casLeft[p] \in 0..MaxRetry + 1 /\ lockLeft[p] \in 0..LockAttempts
      /\ casLeft' = [casLeft EXCEPT ![p] = casLeft[p]]
      /\ lockLeft' = [lockLeft EXCEPT ![p] = lockLeft[p]]
  BY <1>1 DEF LoadMissing, TypeOK
<1>3. GoTo(p, "loadArchive") /\ UNCHANGED <<refs, stuck, started, cmd, old, todo>>
  BY DEF LoadMissing
<1> QED
  BY <1>2, <1>3, GoToStep

LEMMA CasBusyStep == ASSUME IInv, NEW p \in Procs, CasBusy(p) PROVE IInv'
<1>1. TypeOK /\ JobOK(p) /\ pc[p] = "cas" /\ UNCHANGED <<refs, stuck, started>>
  BY DEF IInv, CasBusy
<1>2. CASE lockLeft[p] > 1
  <2>1. lockLeft' = [lockLeft EXCEPT ![p] = lockLeft[p] - 1]
        /\ UNCHANGED <<pc, cmd, old, casLeft, todo>>
    BY <1>2 DEF CasBusy
  <2>2. Only(p) /\ JobTyped(p)'
    BY <1>1, <1>2, <2>1, BoardAssumption DEF TypeOK, Only, JobTyped, Pcs, refs
  <2>3. JobOK(p)'
    BY <1>1, <2>1 DEF JobOK, Holds, Accepts, Id, refs
  <2> QED
    BY <1>1, <2>2, <2>3, OnwardStep
<1>3. CASE ~(lockLeft[p] > 1)
  BY <1>1, <1>3, NextAttemptStep DEF CasBusy
<1> QED
  BY <1>2, <1>3

LEMMA ArchiveGetStep == ASSUME IInv, NEW p \in Procs, ArchiveGet(p) PROVE IInv'
<1>1. TypeOK /\ Id(p) \in Ids /\ UNCHANGED <<refs, stuck, started>>
  BY DEF IInv, TypeOK, Id, Command, ArchiveGet
<1>2. CASE ~Movable(p)
  BY <1>1, <1>2, FinishStep DEF ArchiveGet
<1>3. CASE Movable(p)
  <2>1. /\ pc' = [pc EXCEPT ![p] = "archTx"]
        /\ old' = [old EXCEPT ![p] = issues[Id(p)]]
        /\ UNCHANGED <<cmd, casLeft, lockLeft, todo>>
    BY <1>3 DEF ArchiveGet, GoTo
  <2>2. Only(p) /\ JobTyped(p)'
    BY <1>1, <2>1 DEF TypeOK, Only, JobTyped, Pcs, refs
  <2>3. objects[issues[Id(p)]].id = Id(p)
    BY <1>1, <1>3 DEF IInv, RefsOK, TipMatches, Tip, Record, Movable
  <2>4. pc'[p] = "archTx" /\ old'[p] = issues[Id(p)] /\ cmd'[p] = cmd[p] /\ objects' = objects
    BY <1>1, <2>1 DEF TypeOK, refs
  <2>5. JobOK(p)'
    BY <1>3, <2>3, <2>4 DEF JobOK, Holds, Id, Movable
  <2> QED
    BY <1>1, <2>2, <2>5, OnwardStep
<1> QED
  BY <1>2, <1>3

LEMMA CrashStep == ASSUME IInv, NEW p \in Procs, Crash(p) PROVE IInv'
<1>1. TypeOK /\ Id(p) \in Ids
  BY DEF IInv, TypeOK, Id, Command
<1>2. UNCHANGED <<refs, started>> /\ stuck' \subseteq Ids /\ started' \in 0..MaxCommands
  BY <1>1 DEF Crash, TypeOK
<1>3. Only(p) /\ pc'[p] = "idle"
  BY <1>1 DEF TypeOK, Only, Crash, GoTo
<1>4. JobTyped(p)'
  BY <1>1, <1>2, IdleTyped, BoardAssumption DEF TypeOK, JobTyped, Pcs, Crash, GoTo, refs
<1>5. JobOK(p)'
  BY <1>3 DEF JobOK
<1> QED
  BY <1>2, <1>3, <1>4, <1>5, LocalStep

---------------------------------------------------------------------------
(************************ Steps that move a ref ****************************)

\* What the rules of IssueRules guarantee of an accepted command.
LEMMA SuccessorRules ==
    ASSUME TypeOK, NEW p \in Procs, NEW h \in DOMAIN objects, Accepts(p, objects[h])
    PROVE  LET b == objects[h]
               c == Successor(p, h)
           IN  /\ b \in Commit /\ c \in Commit /\ c.parent = h /\ c.id = b.id
               /\ b.status \notin Terminal
               /\ c.status \in {"open", "cancelled"} => c.owner = Nobody
               /\ (/\ b.status \in {"claimed", "working", "done"} => b.owner # Nobody)
                      => (c.status \in {"claimed", "working", "done"} => c.owner # Nobody)
               /\ c.owner \in {b.owner, Nobody} \/ (b.owner = Nobody /\ c.owner = c.by)
               /\ c.status = "done" => b.status = "working" /\ b.owner = c.by
<1> DEFINE b == objects[h]
<1> DEFINE c == Successor(p, h)
<1>1. b \in Commit /\ h \in Nat
  BY ElementOfSeq, ObjectsLen DEF TypeOK
<1>2. SessionOf[p] \in Owners /\ SessionOf[p] # Nobody /\ Nobody \in Owners
  BY BoardAssumption, NobodyAssumption DEF Owners
<1>3. cmd[p].act \in Actions \cup {"reap"}
  BY DEF TypeOK, Command, Accepts
<1>4. CASE cmd[p].act = "reap"
  <2>1. b.status \in InFlight
    BY <1>4 DEF Accepts, ReapPermitted
  <2>2. c = [id |-> b.id, status |-> ReapStatus(b.status), owner |-> Nobody,
             by |-> SessionOf[p], event |-> "reap", parent |-> h]
    BY <1>4 DEF Successor
  <2> QED
    BY <1>1, <1>2, <2>1, <2>2 DEF Commit, Status, Terminal, InFlight, ReapStatus
<1>5. CASE cmd[p].act # "reap"
  <2> DEFINE a == cmd[p].act
  <2>1. Permitted(a, cmd[p].force, b.status, b.owner, SessionOf[p]) /\ a \in Actions
    BY <1>3, <1>5 DEF Accepts
  <2>2. c = [id |-> b.id, status |-> To(a), owner |-> NewOwner(a, b.owner, SessionOf[p]),
             by |-> SessionOf[p], event |-> a, parent |-> h]
    BY <1>5 DEF Successor
  <2>3. To(a) \in Status /\ NewOwner(a, b.owner, SessionOf[p]) \in Owners
    BY <1>1, <1>2, <2>1 DEF Actions, To, NewOwner, Status, Commit
  <2>4. c \in Commit /\ c.parent = h /\ c.id = b.id
    BY <1>1, <1>2, <2>1, <2>2, <2>3 DEF Commit
  <2>5. c.status \in {"open", "cancelled"} => c.owner = Nobody
    BY <2>1, <2>2 DEF Actions, To, NewOwner, Take, Clear
  <2>6. c.status \in {"claimed", "working", "done"} => c.owner # Nobody
    BY <1>2, <2>1, <2>2 DEF Actions, To, NewOwner, Take, Keep, Clear, Permitted,
       OwnershipAllows
  <2>7. c.owner \in {b.owner, Nobody} \/ (b.owner = Nobody /\ c.owner = c.by)
    BY <2>1, <2>2 DEF NewOwner, Take, Clear, Keep, Permitted, OwnershipAllows
  <2>8. c.status = "done" => b.status = "working" /\ b.owner = c.by
    BY <1>2, <2>1, <2>2 DEF Actions, To, From, Permitted, OwnershipAllows, Take, Keep, Clear
  <2> QED
    BY <1>1, <2>1, <2>4, <2>5, <2>6, <2>7, <2>8 DEF Permitted
<1> QED
  BY <1>4, <1>5

LEMMA CasWinLocal ==
    ASSUME IInv, NEW p \in Procs, CasWin(p), Len(objects') \in Nat,
           Len(objects) <= Len(objects')
    PROVE  Only(p) /\ JobTyped(p)' /\ JobOK(p)'
<1>1. TypeOK
  BY DEF IInv
<1>2. CASE Successor(p, old[p]).status \notin Terminal
  BY <1>1, <1>2, FinishLocal DEF CasWin
<1>3. CASE Successor(p, old[p]).status \in Terminal
  <2>1. /\ pc' = [pc EXCEPT ![p] = "archGet"]
        /\ lockLeft' = [lockLeft EXCEPT ![p] = LockAttempts]
        /\ UNCHANGED <<cmd, old, casLeft, todo>>
    BY <1>3 DEF CasWin, GoTo
  <2>2. Only(p) /\ pc'[p] = "archGet"
    BY <1>1, <2>1 DEF TypeOK, Only
  <2>3. old[p] \in 0..Len(objects')
    BY <1>1, ObjectsLen DEF TypeOK
  <2>4. JobTyped(p)'
    BY <1>1, <2>1, <2>3, BoardAssumption DEF TypeOK, JobTyped, Pcs
  <2> QED
    BY <2>2, <2>4 DEF JobOK
<1> QED
  BY <1>2, <1>3

\* A commit on top of the tip of its issue: the heart of the proof.  The CAS
\* compares the ref with what was read, so the parent of the new commit is
\* the tip, and the tip was the latest commit of the issue.
LEMMA CasWinStep == ASSUME IInv, NEW p \in Procs, CasWin(p) PROVE IInv'
<1>0. Id(p) \in Ids
  BY DEF IInv, TypeOK, Id, Command
<1>i. PICK i \in Ids : i = Id(p)
  BY <1>0
<1>a. PICK h, n, c : i = Id(p) /\ h = old[p] /\ n = Len(objects) + 1
                     /\ c = Successor(p, h)
  BY <1>i, Zenon
<1>1. TypeOK /\ RefsOK /\ JobOK(p)
  BY DEF IInv
<1>2. /\ h # 0 /\ issues[i] = h /\ h \in DOMAIN objects /\ Tip(i) = h
      /\ objects[h].id = i /\ Accepts(p, objects[h])
  BY <1>a, <1>1, ObjectsLen DEF TypeOK, CasWin, JobOK, Holds, RefUnmoved, Tip
<1>3. /\ objects' = Append(objects, c)
      /\ issues' = [issues EXCEPT ![i] = n]
      /\ UNCHANGED <<archive, stuck, started>>
  BY <1>a DEF CasWin
<1>4. c \in Commit /\ c.parent = h /\ c.id = i
  BY <1>a, <1>1, <1>2, SuccessorRules
<1>5. /\ Len(objects) \in Nat /\ DOMAIN objects = 1..Len(objects)
      /\ n = Len(objects) + 1 /\ n \in Nat
      /\ objects' \in Seq(Commit) /\ Len(objects') = n
      /\ DOMAIN objects' = 1..n
      /\ \A k \in DOMAIN objects : objects'[k] = objects[k]
      /\ objects'[n] = c
  BY <1>a, <1>1, <1>3, <1>4, ObjectsLen, AppendProperties DEF TypeOK
<1>6. Only(p) /\ JobTyped(p)' /\ JobOK(p)'
  BY <1>5, CasWinLocal
<1>7. TypeOK'
  <2>1. issues' \in [Ids -> 0..Len(objects')] /\ archive' \in [Ids -> 0..Len(objects')]
    BY <1>1, <1>3, <1>5 DEF TypeOK
  <2>2. \A q \in Procs : old[q] \in 0..Len(objects')
    BY <1>1, <1>5 DEF TypeOK
  <2>3. old' \in [Procs -> 0..Len(objects')]
    BY <1>1, <1>6, <2>2 DEF TypeOK, Only, JobTyped
  <2> QED
    BY <1>1, <1>3, <1>5, <1>6, <2>1, <2>3 DEF TypeOK, Only, JobTyped, Pcs
<1>8. Tip(i)' = n /\ \A j \in Ids \ {i} : Tip(j)' = Tip(j)
  BY <1>1, <1>3, <1>5 DEF TypeOK, Tip
<1>9. RefsOK'
  <2>1. OnePlace'
    BY <1>1, <1>2, <1>3, <1>5 DEF RefsOK, OnePlace, TypeOK
  <2>2. TipMatches'
    BY <1>1, <1>4, <1>5, <1>8 DEF RefsOK, TipMatches, Record
  <2>3. NoLostUpdate'
    <3>1. ASSUME NEW g \in DOMAIN objects', NEW k \in DOMAIN objects',
                 objects'[g].id = objects'[k].id, g < k
          PROVE  g <= objects'[k].parent /\ objects'[k].parent < k
      <4>1. CASE k \in DOMAIN objects
        BY <1>1, <1>5, <3>1, <4>1 DEF RefsOK, NoLostUpdate
      <4>2. CASE k = n
        <5>1. g \in DOMAIN objects /\ objects[g].id = i
          BY <1>4, <1>5, <3>1, <4>2
        <5>2. g <= h
          BY <1>1, <1>2, <5>1 DEF RefsOK, NoLostUpdate
        <5> QED
          BY <1>2, <1>4, <1>5, <4>2, <5>2
      <4> QED
        BY <1>5, <4>1, <4>2
    <3>2. ASSUME NEW j \in Ids, NEW g \in DOMAIN objects', objects'[g].id = j
          PROVE  g <= Tip(j)'
      <4>1. CASE j = i
        BY <1>5, <1>8, <4>1
      <4>2. CASE j # i
        <5>1. g \in DOMAIN objects /\ objects[g].id = j
          BY <1>4, <1>5, <3>2, <4>2
        <5> QED
          BY <1>1, <1>8, <4>2, <5>1 DEF RefsOK, NoLostUpdate
      <4> QED
        BY <4>1, <4>2
    <3> QED
      BY <3>1, <3>2 DEF NoLostUpdate
  <2>4. ArchiveIsFinished'
    BY <1>1, <1>3, <1>5 DEF RefsOK, ArchiveIsFinished, TypeOK
  <2>5. /\ objects[h].status \in {"claimed", "working", "done"} => objects[h].owner # Nobody
    BY <1>1, <1>2 DEF RefsOK, CommitsOwned
  <2>6. CommitsOwned'
    <3>1. /\ c.status \in {"open", "cancelled"} => c.owner = Nobody
          /\ c.status \in {"claimed", "working", "done"} => c.owner # Nobody
      BY <1>1, <1>2, <2>5, <1>a, SuccessorRules
    <3> QED
      BY <1>1, <1>5, <3>1 DEF RefsOK, CommitsOwned
  <2>7. ParentsExist'
    BY <1>1, <1>2, <1>4, <1>5 DEF RefsOK, ParentsExist
  <2>8. \A k \in DOMAIN objects : objects[k].parent # 0 =>
            objects'[objects[k].parent] = objects[objects[k].parent]
    BY <1>1, <1>5 DEF RefsOK, ParentsExist
  <2>9. NoHandover'
    <3>1. c.owner \in {objects[h].owner, Nobody} \/ (objects[h].owner = Nobody /\ c.owner = c.by)
      BY <1>1, <1>2, <1>a, SuccessorRules
    <3>2. ASSUME NEW k \in DOMAIN objects', objects'[k].parent # 0
          PROVE  LET before == objects'[objects'[k].parent].owner
                     after  == objects'[k].owner
                 IN  after \in {before, Nobody} \/ (before = Nobody /\ after = objects'[k].by)
      <4>1. CASE k \in DOMAIN objects
        BY <1>1, <1>5, <2>8, <3>2, <4>1 DEF RefsOK, NoHandover
      <4>2. CASE k = n
        BY <1>2, <1>4, <1>5, <3>1, <4>2
      <4> QED
        BY <1>5, <4>1, <4>2
    <3> QED
      BY <3>2 DEF NoHandover
  <2>10. DoneByHolder'
    <3>1. c.status = "done" => objects[h].status = "working" /\ objects[h].owner = c.by
      BY <1>1, <1>2, <1>a, SuccessorRules
    <3>2. ASSUME NEW k \in DOMAIN objects', objects'[k].status = "done"
          PROVE  /\ objects'[objects'[k].parent].status = "working"
                 /\ objects'[objects'[k].parent].owner = objects'[k].by
      <4>1. CASE k \in DOMAIN objects
        BY <1>1, <1>5, <2>8, <3>2, <4>1 DEF RefsOK, DoneByHolder, ParentsExist
      <4>2. CASE k = n
        BY <1>2, <1>4, <1>5, <3>1, <3>2, <4>2
      <4> QED
        BY <1>5, <4>1, <4>2
    <3> QED
      BY <3>2 DEF DoneByHolder
  <2> QED
    BY <2>1, <2>2, <2>3, <2>4, <2>6, <2>7, <2>9, <2>10 DEF RefsOK
<1>10. ASSUME NEW q \in Procs, q # p PROVE JobOK(q)'
  <2>1. pc'[q] = pc[q] /\ cmd'[q] = cmd[q] /\ old'[q] = old[q] /\ old[q] \in 0..Len(objects)
    BY <1>1, <1>6, <1>10 DEF TypeOK, Only
  <2>2. JobOK(q)
    BY DEF IInv
  <2>3. old[q] # 0 => objects'[old[q]] = objects[old[q]]
    BY <1>5, <2>1
  <2> QED
    BY <2>1, <2>2, <2>3 DEF JobOK, Holds, Accepts, Id
<1> QED
  BY <1>6, <1>7, <1>9, <1>10 DEF IInv

LEMMA ArchiveMoveStep == ASSUME IInv, NEW p \in Procs, ArchiveMove(p) PROVE IInv'
<1>0. Id(p) \in Ids
  BY DEF IInv, TypeOK, Id, Command
<1>i. PICK i \in Ids : i = Id(p)
  BY <1>0
<1>a. PICK h : i = Id(p) /\ h = old[p]
  BY <1>i, Zenon
<1>1. TypeOK /\ RefsOK /\ JobOK(p)
  BY DEF IInv
<1>2. /\ h # 0 /\ issues[i] = h /\ archive[i] = 0 /\ h \in 0..Len(objects)
      /\ objects[h].status \in Terminal
  BY <1>a, <1>1 DEF TypeOK, ArchiveMove, JobOK, Holds, RefUnmoved
<1>3. /\ archive' = [archive EXCEPT ![i] = h]
      /\ issues' = [issues EXCEPT ![i] = 0]
      /\ UNCHANGED <<objects, stuck, started>>
  BY <1>a DEF ArchiveMove, MoveRefs
<1>4. Only(p) /\ JobTyped(p)' /\ JobOK(p)'
  BY <1>1, <1>3, ObjectsLen, FinishLocal DEF ArchiveMove
<1>5. TypeOK'
  <2>1. issues' \in [Ids -> 0..Len(objects')] /\ archive' \in [Ids -> 0..Len(objects')]
    BY <1>1, <1>2, <1>3, ObjectsLen DEF TypeOK
  <2> QED
    BY <1>1, <1>3, <1>4, <2>1 DEF TypeOK, Only, JobTyped, Pcs
<1>6. \A j \in Ids : Tip(j)' = Tip(j)
  BY <1>1, <1>2, <1>3 DEF TypeOK, Tip, RefsOK, OnePlace
<1>7. RefsOK'
  <2>1. OnePlace'
    BY <1>1, <1>2, <1>3 DEF TypeOK, RefsOK, OnePlace
  <2>2. TipMatches' /\ NoLostUpdate'
    BY <1>1, <1>3, <1>6 DEF RefsOK, TipMatches, NoLostUpdate, Record
  <2>3. ArchiveIsFinished'
    BY <1>1, <1>2, <1>3 DEF TypeOK, RefsOK, ArchiveIsFinished
  <2>4. CommitsOwned' /\ ParentsExist' /\ NoHandover' /\ DoneByHolder'
    BY <1>1, <1>3 DEF RefsOK, CommitsOwned, ParentsExist, NoHandover, DoneByHolder
  <2> QED
    BY <2>1, <2>2, <2>3, <2>4 DEF RefsOK
<1>8. ASSUME NEW q \in Procs, q # p PROVE JobOK(q)'
  <2>1. pc'[q] = pc[q] /\ cmd'[q] = cmd[q] /\ old'[q] = old[q]
    BY <1>1, <1>4, <1>8 DEF TypeOK, Only
  <2> QED
    BY <1>3, <2>1 DEF IInv, JobOK, Holds, Accepts, Id
<1> QED
  BY <1>4, <1>5, <1>7, <1>8 DEF IInv

LEMMA StutterInv == ASSUME IInv, UNCHANGED vars PROVE IInv'
BY DEF IInv, TypeOK, RefsOK, OnePlace, TipMatches, NoLostUpdate, ArchiveIsFinished,
   CommitsOwned, ParentsExist, NoHandover, DoneByHolder, Tip, Record, JobOK, Holds,
   Accepts, Id, vars, refs, local

LEMMA NextInv == IInv /\ [Next]_vars => IInv'
<1> SUFFICES ASSUME IInv, [Next]_vars PROVE IInv'
  OBVIOUS
<1>1. CASE UNCHANGED vars
  BY <1>1, StutterInv
<1>2. ASSUME NEW p \in Procs, Step(p) PROVE IInv'
  <2>1. CASE Pick(p) BY <2>1, PickStep
  <2>2. CASE Load(p) BY <2>2, LoadStep
  <2>3. CASE LoadMissing(p) BY <2>3, LoadMissingStep
  <2>4. CASE LoadArchive(p) BY <2>4, FinishStep DEF LoadArchive
  <2>5. CASE CasWin(p) BY <2>5, CasWinStep
  <2>6. CASE CasLose(p) BY <2>6, NextAttemptStep DEF CasLose
  <2>7. CASE CasBusy(p) BY <2>7, CasBusyStep
  <2>8. CASE ArchiveGet(p) BY <2>8, ArchiveGetStep
  <2>9. CASE ArchiveMove(p) BY <2>9, ArchiveMoveStep
  <2>10. CASE ArchiveConflict(p)
    BY <2>10, FinishStep, ArchiveAgainStep DEF ArchiveConflict
  <2>11. CASE ArchiveBusy(p) BY <2>11, ArchiveAgainStep DEF ArchiveBusy
  <2> QED
    BY <1>2, <2>1, <2>2, <2>3, <2>4, <2>5, <2>6, <2>7, <2>8, <2>9, <2>10, <2>11 DEF Step
<1> QED
  BY <1>1, <1>2, BeginStep, CrashStep DEF Next

---------------------------------------------------------------------------
(***************************** Theorems ************************************)

\* The invariant holds in every reachable state (CAS loop of cas.go, the
\* two-ref move of archive.go), whatever the numbers of issues and processes.
THEOREM Invariance == Spec => []IInv
BY InitInv, NextInv, PTL DEF Spec

\* Every register keeps its type: no ref points past the object store, no
\* attempt counter of the CAS loop leaves its range.
THEOREM Typing == Spec => []TypeOK
<1>1. IInv => TypeOK
  BY DEF IInv
<1> QED
  BY <1>1, Invariance, PTL

\* No two commands build on the same state of an issue, and the ref of the
\* issue points at the latest commit: no accepted command is ever undone by
\* another that had not seen it (Board.Mutate).
THEOREM Updates == Spec => []NoLostUpdate
<1>1. IInv => NoLostUpdate
  BY DEF IInv, RefsOK
<1> QED
  BY <1>1, Invariance, PTL

\* An issue is in issues/ or in archive/, not in both and not in neither
\* (Board.Archive moves it in one transaction of the ref store).
THEOREM Placement == Spec => []OnePlace
<1>1. IInv => OnePlace
  BY DEF IInv, RefsOK
<1> QED
  BY <1>1, Invariance, PTL

\* What is in archive/ is finished, although Board.Archive looks at the status
\* before its transaction: the transaction fails if the ref has moved since.
THEOREM ArchivesFinished == Spec => []ArchiveIsFinished
<1>1. IInv => ArchiveIsFinished
  BY DEF IInv, RefsOK
<1> QED
  BY <1>1, Invariance, PTL

\* An owner is on record exactly while somebody answers for the issue
\* (applyTransition and checkOwnership under the CAS).
THEOREM Ownership == Spec => []OwnerMatchesStatus
<1>1. IInv => OwnerMatchesStatus
  BY DEF IInv, RefsOK, TipMatches, CommitsOwned, OwnerMatchesStatus, Record
<1> QED
  BY <1>1, Invariance, PTL

\* No commit hands an issue from one holder to another (checkOwnership).
THEOREM NeverHandedOver == Spec => []NoHandover
<1>1. IInv => NoHandover
  BY DEF IInv, RefsOK
<1> QED
  BY <1>1, Invariance, PTL

\* Only the holder of an issue finishes its work, for any number of sessions
\* and whatever races they lose before (checkOwnership in the CAS loop).
THEOREM HolderFinishes == Spec => []DoneByHolder
<1>1. IInv => DoneByHolder
  BY DEF IInv, RefsOK
<1> QED
  BY <1>1, Invariance, PTL

\* The three rules of ownership together (transition.go).
THEOREM OwnershipStays == Spec => []OwnershipKept
BY Ownership, NeverHandedOver, HolderFinishes, PTL DEF OwnershipKept

---------------------------------------------------------------------------
(************************ The ledger is implemented ************************)

\* What a winning CAS does to the records: it replaces one, which it accepts.
LEMMA CasWinEffect ==
    ASSUME IInv, NEW p \in Procs, NEW i \in Ids, i = Id(p), CasWin(p)
    PROVE  /\ old[p] \in DOMAIN objects /\ Record(i) = objects[old[p]]
           /\ Accepts(p, Record(i)) /\ archive[i] = 0 /\ UNCHANGED archive
           /\ Record(i)' = Successor(p, old[p])
           /\ \A j \in Ids \ {i} : Tip(j)' = Tip(j) /\ Record(j)' = Record(j)
<1> PICK h, n, c : h = old[p] /\ n = Len(objects) + 1 /\ c = Successor(p, h)
  BY Zenon
<1>1. TypeOK /\ RefsOK /\ JobOK(p)
  BY DEF IInv
<1>2. /\ h # 0 /\ issues[i] = h /\ h \in DOMAIN objects /\ Tip(i) = h
      /\ Accepts(p, objects[h])
  BY <1>1, ObjectsLen DEF TypeOK, CasWin, JobOK, Holds, RefUnmoved, Tip
<1>3. /\ objects' = Append(objects, c)
      /\ issues' = [issues EXCEPT ![i] = n]
      /\ archive' = archive
  BY DEF CasWin
<1>4. c \in Commit
  BY <1>1, <1>2, SuccessorRules
<1>5. /\ n \in Nat /\ n # 0 /\ objects'[n] = c
      /\ \A k \in DOMAIN objects : objects'[k] = objects[k]
  BY <1>1, <1>3, <1>4, ObjectsLen, AppendProperties DEF TypeOK
<1>6. Tip(i)' = n /\ \A j \in Ids \ {i} : Tip(j)' = Tip(j)
  BY <1>1, <1>3, <1>5 DEF TypeOK, Tip
<1>7. archive[i] = 0
  BY <1>1, <1>2, ObjectsLen DEF RefsOK, OnePlace
<1> QED
  BY <1>1, <1>2, <1>3, <1>5, <1>6, <1>7 DEF Record, RefsOK, TipMatches

\* The archive transaction changes no record, and files one that is finished.
LEMMA ArchiveMoveEffect ==
    ASSUME IInv, NEW p \in Procs, NEW i \in Ids, i = Id(p), ArchiveMove(p)
    PROVE  /\ archive[i] = 0 /\ Record(i).status \in Terminal
           /\ \E h \in 1..Len(objects) : archive' = [archive EXCEPT ![i] = h]
           /\ \A j \in Ids : Tip(j)' = Tip(j) /\ Record(j)' = Record(j)
<1> PICK h : h = old[p]
  BY Zenon
<1>1. TypeOK /\ RefsOK /\ JobOK(p)
  BY DEF IInv
<1>2. /\ h \in 1..Len(objects) /\ issues[i] = h /\ archive[i] = 0
      /\ objects[h].status \in Terminal
  BY <1>1, ObjectsLen DEF TypeOK, ArchiveMove, JobOK, Holds, RefUnmoved
<1>3. /\ archive' = [archive EXCEPT ![i] = h]
      /\ issues' = [issues EXCEPT ![i] = 0]
      /\ objects' = objects
  BY DEF ArchiveMove, MoveRefs
<1>4. \A j \in Ids : Tip(j)' = Tip(j)
  BY <1>1, <1>2, <1>3 DEF TypeOK, Tip, RefsOK, OnePlace
<1> QED
  BY <1>2, <1>3, <1>4 DEF Record, Tip

\* Everything else leaves the refs alone.
LEMMA OtherSteps ==
    ASSUME [Next]_vars
    PROVE  UNCHANGED refs \/ \E p \in Procs : CasWin(p) \/ ArchiveMove(p)
<1>1. ASSUME NEW p \in Procs, Begin(p) PROVE UNCHANGED refs
  <2>1. ASSUME NEW c, NEW at, NEW batch, Start(p, c, at, batch) PROVE UNCHANGED refs
    BY <2>1 DEF Start
  <2> QED
    BY <1>1, <2>1, Zenon DEF Begin, StartTransition, StartReap, StartArchive, StartSweep,
       StartReleaseMine
<1>2. ASSUME NEW p \in Procs, Step(p) PROVE UNCHANGED refs \/ CasWin(p) \/ ArchiveMove(p)
  BY <1>2 DEF Step, Pick, Load, LoadMissing, LoadArchive, CasLose, CasBusy,
     ArchiveGet, ArchiveConflict, ArchiveBusy
<1>3. ASSUME NEW p \in Procs, Crash(p) PROVE UNCHANGED refs
  BY <1>3 DEF Crash
<1> QED
  BY <1>1, <1>2, <1>3 DEF Next, vars

\* A finished issue is never rewritten: release, reap and every other
\* command refuse it, and the archive moves the very same commit.
THEOREM Finality == Spec => FinishedIsFinal
<1>1. IInv /\ [Next]_vars =>
          [\A i \in Ids : Record(i).status \in Terminal => Tip(i)' = Tip(i)]_vars
  <2> SUFFICES ASSUME IInv, [Next]_vars, NEW i \in Ids, Record(i).status \in Terminal
               PROVE  Tip(i)' = Tip(i)
    OBVIOUS
  <2>1. CASE UNCHANGED refs
    BY <2>1 DEF refs, Tip
  <2>2. ASSUME NEW p \in Procs, CasWin(p) PROVE Tip(i)' = Tip(i)
    <3>1. PICK j \in Ids : j = Id(p)
      BY DEF IInv, TypeOK, Id, Command
    <3>2. old[p] \in DOMAIN objects /\ Record(j) = objects[old[p]] /\ Accepts(p, Record(j))
      BY <2>2, <3>1, CasWinEffect
    <3>3. Record(j).status \notin Terminal
      BY <3>2, SuccessorRules DEF IInv
    <3> QED
      BY <2>2, <3>1, <3>3, CasWinEffect
  <2>3. ASSUME NEW p \in Procs, ArchiveMove(p) PROVE Tip(i)' = Tip(i)
    <3>1. PICK j \in Ids : j = Id(p)
      BY DEF IInv, TypeOK, Id, Command
    <3> QED
      BY <2>3, <3>1, ArchiveMoveEffect
  <2> QED
    BY <2>1, <2>2, <2>3, OtherSteps
<1> QED
  BY <1>1, Invariance, PTL DEF Spec, FinishedIsFinal

\* The rules the ledger is built from are the rules of the board.
LEMMA SameRules ==
    /\ Ledger!Terminal = Terminal /\ Ledger!InFlight = InFlight /\ Ledger!Actions = Actions
    /\ \A act, force, status, owner, s :
           /\ Ledger!Permitted(act, force, status, owner, s) = Permitted(act, force, status, owner, s)
           /\ Ledger!NewOwner(act, owner, s) = NewOwner(act, owner, s)
    /\ \A act : Ledger!To(act) = To(act)
    /\ \A status : Ledger!ReapStatus(status) = ReapStatus(status)
<1>1. /\ Ledger!Terminal = Terminal /\ Ledger!InFlight = InFlight /\ Ledger!Actions = Actions
      /\ Ledger!Take = Take /\ Ledger!Keep = Keep /\ Ledger!Clear = Clear
  BY DEF Ledger!Terminal, Terminal, Ledger!InFlight, InFlight, Ledger!Actions, Actions,
     Ledger!Take, Take, Ledger!Keep, Keep, Ledger!Clear, Clear
<1>2. \A act : Ledger!To(act) = To(act)
  BY DEF Ledger!To, To
<1>3. \A act, force : Ledger!From(act, force) = From(act, force)
  BY DEF Ledger!From, From
<1>4. \A act, owner, s : Ledger!NewOwner(act, owner, s) = NewOwner(act, owner, s)
  BY <1>1 DEF Ledger!NewOwner, NewOwner
<1>5. \A act, force, owner, s :
          Ledger!OwnershipAllows(act, force, owner, s) <=> OwnershipAllows(act, force, owner, s)
  BY <1>1 DEF Ledger!OwnershipAllows, OwnershipAllows
<1>6. \A act, force, status, owner, s :
          Ledger!Permitted(act, force, status, owner, s) = Permitted(act, force, status, owner, s)
  BY <1>1, <1>3, <1>5, Zenon DEF Ledger!Permitted, Permitted
<1>7. \A status : Ledger!ReapStatus(status) = ReapStatus(status)
  BY DEF Ledger!ReapStatus, ReapStatus
<1> QED
  BY <1>1, <1>2, <1>4, <1>6, <1>7

LEMMA LedgerInitially == Init => Ledger!LedgerInit
<1> SUFFICES ASSUME Init PROVE Ledger!LedgerInit
  OBVIOUS
<1>1. \A i \in Ids : Record(i).status = "open" /\ Record(i).owner = Nobody /\ archive[i] = 0
  BY DEF Init, Record, Tip, Ids
<1> QED
  BY <1>1 DEF Ledger!LedgerInit

LEMMA LedgerUnmoved == ASSUME UNCHANGED refs PROVE UNCHANGED Ledger!ledger
BY DEF refs, Ledger!ledger, Record, Tip

LEMMA CasWinPerforms ==
    ASSUME IInv, NEW p \in Procs, CasWin(p)
    PROVE  Ledger!LedgerNext
<1>1. PICK i \in Ids : i = Id(p)
  BY DEF IInv, TypeOK, Id, Command
<1>2. PICK h, b, c, s, a, force :
          /\ h = old[p] /\ b = objects[h] /\ c = Successor(p, h) /\ s = SessionOf[p]
          /\ a = cmd[p].act /\ force = cmd[p].force
  BY Zenon
<1>a. h \in DOMAIN objects /\ s \in Sessions /\ force \in BOOLEAN
  BY <1>1, <1>2, CasWinEffect, BoardAssumption DEF IInv, TypeOK, Command
<1>3. /\ Record(i) = b /\ archive[i] = 0 /\ archive' = archive /\ Accepts(p, b)
      /\ Record(i)' = c
      /\ \A j \in Ids \ {i} : Record(j)' = Record(j)
  BY <1>1, <1>2, CasWinEffect
<1>4. /\ [j \in Ids |-> Record(j).status]' =
             [[j \in Ids |-> Record(j).status] EXCEPT ![i] = c.status]
      /\ [j \in Ids |-> Record(j).owner]' =
             [[j \in Ids |-> Record(j).owner] EXCEPT ![i] = c.owner]
  BY <1>3
<1>5. CASE a = "reap"
  <2>1. c.status = ReapStatus(b.status) /\ c.owner = Nobody
    BY <1>2, <1>5 DEF Successor
  <2>2. b.status \in InFlight
    BY <1>2, <1>3, <1>5 DEF Accepts, ReapPermitted
  <2>3. Ledger!TakeBack(i)
    BY <1>3, <1>4, <2>1, <2>2, SameRules DEF Ledger!TakeBack
  <2> QED
    BY <2>3 DEF Ledger!LedgerNext
<1>6. CASE a # "reap"
  <2>1. c.status = To(a) /\ c.owner = NewOwner(a, b.owner, s)
    BY <1>2, <1>6 DEF Successor
  <2>2. Permitted(a, force, b.status, b.owner, s) /\ a \in Actions
    BY <1>2, <1>3, <1>6 DEF Accepts, IInv, TypeOK, Command
  <2>3. /\ Ledger!Permitted(a, force, b.status, b.owner, s)
        /\ Ledger!To(a) = c.status /\ Ledger!NewOwner(a, b.owner, s) = c.owner
    BY <2>1, <2>2, SameRules, Zenon
  <2>4. Ledger!Perform(i, s, a, force)
    BY <1>3, <1>4, <2>3 DEF Ledger!Perform
  <2> QED
    BY <1>a, <2>2, <2>4, SameRules DEF Ledger!LedgerNext
<1> QED
  BY <1>5, <1>6

LEMMA ArchiveMoveFiles ==
    ASSUME IInv, NEW p \in Procs, ArchiveMove(p)
    PROVE  Ledger!LedgerNext
<1>1. PICK i \in Ids : i = Id(p)
  BY DEF IInv, TypeOK, Id, Command
<1>2. PICK h \in 1..Len(objects) : archive' = [archive EXCEPT ![i] = h]
  BY <1>1, ArchiveMoveEffect
<1>3. /\ archive[i] = 0 /\ Record(i).status \in Terminal
      /\ \A j \in Ids : Record(j)' = Record(j)
  BY <1>1, ArchiveMoveEffect
<1>4. /\ [j \in Ids |-> archive[j] # 0]' = [[j \in Ids |-> archive[j] # 0] EXCEPT ![i] = TRUE]
      /\ UNCHANGED [j \in Ids |-> Record(j).status]
      /\ UNCHANGED [j \in Ids |-> Record(j).owner]
  <2>1. archive \in [Ids -> Nat] /\ h # 0
    BY ObjectsLen DEF IInv, TypeOK
  <2>2. \A j \in Ids : archive'[j] = IF j = i THEN h ELSE archive[j]
    BY <1>2, <2>1
  <2>3. \A j \in Ids : (archive'[j] # 0) = (IF j = i THEN TRUE ELSE archive[j] # 0)
    BY <2>1, <2>2
  <2> QED
    BY <1>3, <2>3
<1>5. Ledger!File(i)
  BY <1>3, <1>4, SameRules DEF Ledger!File
<1> QED
  BY <1>5 DEF Ledger!LedgerNext

\* The board implements the ledger: with any number of processes, retries,
\* lost races, stale locks and crashes it behaves as if every accepted
\* command changed one record atomically (Mutate, Reap and Archive).
THEOREM Implementation == Spec => ImplementsLedger
<1>1. IInv /\ [Next]_vars => [Ledger!LedgerNext]_(Ledger!ledger)
  BY OtherSteps, LedgerUnmoved, CasWinPerforms, ArchiveMoveFiles
<1> QED
  BY <1>1, LedgerInitially, Invariance, PTL DEF Spec, ImplementsLedger, Ledger!LedgerSpec

---------------------------------------------------------------------------
(****************** What release --mine leaves alone ***********************)

\* A process that runs release --mine runs nothing else, and without --force.
MineIsPlain == \A p \in Procs : cmd[p].mine => cmd[p].act = "release" /\ cmd[p].force = FALSE

LEMMA MineKept == ASSUME ~MineMayForce, IInv, MineIsPlain, [Next]_vars PROVE MineIsPlain'
<1>t. TypeOK BY DEF IInv
<1>1. CASE UNCHANGED vars BY <1>1 DEF MineIsPlain, vars, local
<1>2. ASSUME NEW p \in Procs, UNCHANGED cmd \/ cmd' = [cmd EXCEPT ![p] = Idle] PROVE MineIsPlain'
  <2>1. Idle.mine = FALSE BY DEF Idle, Verb
  <2> QED BY <1>t, <1>2, <2>1 DEF MineIsPlain, TypeOK
<1>3. ASSUME NEW p \in Procs, Finish(p) PROVE MineIsPlain'
  BY <1>2, <1>3 DEF Finish
<1>4. ASSUME NEW p \in Procs, Begin(p) PROVE MineIsPlain'
  <2>1. ASSUME NEW c, cmd' = [cmd EXCEPT ![p] = c], c.mine => c.act = "release" /\ c.force = FALSE
        PROVE  MineIsPlain'
    BY <1>t, <2>1 DEF MineIsPlain, TypeOK
  <2>2. ASSUME NEW act, NEW i, NEW force, NEW seen, NEW retry, NEW mine, NEW at, NEW batch,
               Start(p, Verb(act, i, force, seen, retry, mine), at, batch),
               mine => act = "release" /\ force = FALSE
        PROVE  MineIsPlain'
    <3>1. cmd' = [cmd EXCEPT ![p] = Verb(act, i, force, seen, retry, mine)] BY <2>2 DEF Start
    <3> DEFINE c == Verb(act, i, force, seen, retry, mine)
    <3>2. c.mine = mine /\ c.act = act /\ c.force = force BY DEF Verb
    <3> HIDE DEF c
    <3> QED BY <2>1, <2>2, <3>1, <3>2 DEF c
  <2>3. CASE StartTransition(p) BY <2>2, <2>3 DEF StartTransition
  <2>4. CASE StartReap(p) BY <2>2, <2>4 DEF StartReap
  <2>5. CASE StartArchive(p) BY <2>2, <2>5 DEF StartArchive
  <2>6. CASE StartSweep(p) BY <2>2, <2>6 DEF StartSweep
  <2>7. CASE StartReleaseMine(p)
    <3>1. PICK force \in {FALSE, MineMayForce}, retry \in 0..MaxRetry, batch \in SUBSET Ids :
              Start(p, Verb("release", 1, force, Nobody, retry, TRUE), "pick", batch)
      BY <2>7, Zenon DEF StartReleaseMine
    <3>2. force = FALSE BY BoardAssumption
    <3> QED BY <2>2, <3>1, <3>2
  <2> QED BY <1>4, <2>3, <2>4, <2>5, <2>6, <2>7 DEF Begin
<1>5. ASSUME NEW p \in Procs, Pick(p) PROVE MineIsPlain'
  <2>1. PICK i \in Ids : cmd' = [cmd EXCEPT ![p].id = i] BY <1>t, <1>5 DEF Pick, TypeOK
  <2>2. cmd'[p].mine = cmd[p].mine /\ cmd'[p].act = cmd[p].act /\ cmd'[p].force = cmd[p].force
        /\ \A q \in Procs : q # p => cmd'[q] = cmd[q]
    BY <1>t, <2>1 DEF TypeOK, Command
  <2> QED BY <2>2 DEF MineIsPlain
<1>6. ASSUME NEW p \in Procs, Step(p), ~Pick(p) PROVE MineIsPlain'
  BY <1>2, <1>3, <1>6 DEF Step, Load, LoadMissing, LoadArchive, CasWin, CasLose, CasBusy, ArchiveGet,
     ArchiveMove, ArchiveConflict, ArchiveBusy, NextAttempt, ArchiveAgain
<1>7. ASSUME NEW p \in Procs, Crash(p) PROVE MineIsPlain'
  BY <1>2, <1>7 DEF Crash
<1> QED BY <1>1, <1>4, <1>5, <1>6, <1>7 DEF Next

\* release --mine leaves alone what another process of the agent has started
\* since the issues were listed (release.go): an issue it reopens is claimed
\* in the very commit it replaces.  With --force it is not so, and the theorem
\* is about the command without it.
THEOREM MineSparesWork == ASSUME ~MineMayForce PROVE Spec => MineKeepsWorking
<1>1. Init => MineIsPlain BY DEF Init, MineIsPlain, Idle, Verb
<1>2. IInv /\ MineIsPlain /\ [Next]_vars => MineIsPlain' BY MineKept
<1>3. IInv /\ MineIsPlain =>
          \A p \in Procs : CasWin(p) /\ cmd[p].mine => objects[old[p]].status = "claimed"
  <2> SUFFICES ASSUME IInv, MineIsPlain, NEW p \in Procs, CasWin(p), cmd[p].mine
               PROVE  objects[old[p]].status = "claimed"
    OBVIOUS
  <2>1. Accepts(p, objects[old[p]]) BY DEF IInv, JobOK, CasWin
  <2>2. cmd[p].act = "release" /\ cmd[p].force = FALSE BY DEF MineIsPlain
  <2>3. Permitted("release", FALSE, objects[old[p]].status, objects[old[p]].owner, SessionOf[p])
    BY <2>1, <2>2 DEF Accepts
  <2> QED BY <2>3 DEF Permitted, From
<1>4. Init /\ [][Next]_vars => [](IInv /\ MineIsPlain) BY <1>1, <1>2, InitInv, NextInv, PTL
<1> QED BY <1>3, <1>4, PTL DEF Spec, MineKeepsWorking
===========================================================================
