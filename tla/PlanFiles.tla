------------------------------ MODULE PlanFiles ---------------------------
(***************************************************************************)
(* How planr keeps one plan in several files.  Every phase has a document  *)
(* of its own; PLAN.md repeats what they say, as a checklist and as the    *)
(* status of the plan.  A command that changes the plan finds its          *)
(* directory, opens the lock file in it, waits for the lock, reads the     *)
(* documents, judges, and then replaces one document after the other; when *)
(* a later one cannot be written it puts the earlier ones back.  Archiving *)
(* moves the directory, lock file included.                                *)
(*                                                                         *)
(* An edit is made on a copy that was checked out earlier without the lock *)
(* and is accepted only while the document is still what the author saw.   *)
(* doctor --fix rebuilds the checklist from the phase documents; it takes  *)
(* no lock.                                                                *)
(*                                                                         *)
(* Left out: what a refusal says; conditional phases, which differ from    *)
(* planned ones by their entry condition only; the sections in GOALS.md    *)
(* and CONTEXT.md, which nothing repeats; hooks and the check for          *)
(* uncommitted source, which can only make a command give up (GiveUp).     *)
(***************************************************************************)
EXTENDS Integers, Sequences, FiniteSets

CONSTANTS
    Procs,       \* planr processes
    Phases,      \* numbers of phases
    Absent,      \* no such document, no such entry
    PlanMd,      \* the path of PLAN.md
    Nobody,      \* the holder of a free lock
    Drafts,      \* what a plan may be registered with: documents by number
    DepLists,    \* bound: the dependencies that a new or edited phase names
    Editors,     \* bound: the processes that edit documents
    Forceful,    \* bound: the processes that use --force
    FixBeside,   \* whether doctor --fix may run beside other commands
    MaxCommands  \* bound: commands started in a behaviour

ASSUME PlanFilesAssumption ==
    /\ IsFiniteSet(Phases) /\ Phases = 0..Cardinality(Phases) - 1
    /\ Absent \notin Phases /\ PlanMd \notin Phases /\ Nobody \notin Procs
    /\ DepLists \subseteq SUBSET Phases /\ Editors \subseteq Procs /\ Forceful \subseteq Procs
    /\ FixBeside \in BOOLEAN /\ MaxCommands \in Nat

Statuses == {"planned", "in-progress", "done"}
Titles   == {"title", "new title"}

PhaseDocs == [status : Statuses, title : Titles, deps : SUBSET Phases]
Entries   == [checked : BOOLEAN, title : Titles]
PlanDocs  == [status : {"in-progress", "done"},
              list : [Phases -> Entries \cup {Absent}],
              prose : {"as registered", "edited"}]

VARIABLES
    phase,    \* the phase documents
    plan,     \* PLAN.md
    place,    \* where the directory is: nowhere yet, in plans or in archive
    lock,     \* who holds the lock in the plan's directory
    dirLock,  \* who holds the lock of the first plans directory
    pc,       \* the next step of each process
    job,      \* the command it runs
    at,       \* where it has found the directory
    todo,     \* the changes it has still to write
    undo,     \* the changes it has written, the last one first
    copy,     \* what doctor --fix has read
    sheet,    \* the document each process has checked out for an edit
    started,  \* commands started so far
    forced,   \* not part of the program: a phase that others need was removed
    torn      \* not part of the program: phases, or PLAN.md for its status,
              \* that a crash or a failed write has left at odds

docs      == <<phase, plan, place>>
locks     == <<lock, dirLock>>
ofProcess == <<job, at, todo, undo, copy>>
planVars  == <<docs, locks, pc, ofProcess, sheet, started, forced, torn>>

---------------------------------------------------------------------------
(* What the documents say.                                                 *)

Present(doc) == {i \in Phases : doc[i] # Absent}
AllDone(doc) == Present(doc) # {} /\ \A i \in Present(doc) : doc[i].status = "done"

\* The status of the plan that a command derives from the phases.
PlanStatus(doc) == IF AllDone(doc) THEN "done" ELSE "in-progress"

Entry(d)  == [checked |-> d.status = "done", title |-> d.title]
\* The checklist that doctor --fix derives from the phases.
Checklist(doc) == [i \in Phases |-> IF doc[i] = Absent THEN Absent ELSE Entry(doc[i])]

\* The number a new phase gets.
NextPhaseID(doc) == CHOOSE n \in 0..Cardinality(Phases) :
    /\ \A i \in Present(doc) : i < n
    /\ n = 0 \/ n - 1 \in Present(doc)

Dependents(doc, i) == {k \in Present(doc) \ {i} : i \in doc[k].deps}

\* Every dependency is a phase of the plan and none leads back to itself.
Defined(doc) == \A i \in Present(doc) : doc[i].deps \subseteq Present(doc)
Cyclefree(doc) ==
    ~\E S \in (SUBSET Present(doc)) \ {{}} : \A i \in S : doc[i].deps \cap S # {}
\* Mutant: nothing looks for cycles.
DefinedOnly(doc) == Defined(doc)
ValidDependencies(doc) == Defined(doc) /\ Cyclefree(doc)

\* What a plan may be registered with has been validated (draft.go):
\* every phase is planned, and the dependencies are sound.
ASSUME DraftsAssumption ==
    /\ Absent \notin PhaseDocs \cup Entries
    /\ Drafts \subseteq [Phases -> PhaseDocs \cup {Absent}]
    /\ \A d \in Drafts : ValidDependencies(d) /\ \A i \in Present(d) : d[i].status = "planned"

\* Mutant: a dependency that is not there is passed over.
DependenciesMetIfThere(doc, i) ==
    \A d \in doc[i].deps \cap Present(doc) : doc[d].status = "done"

\* A dependency that is not there counts as unmet.
DependenciesMet(doc, i) ==
    \A d \in doc[i].deps : d \in Present(doc) /\ doc[d].status = "done"

---------------------------------------------------------------------------
(* The commands.                                                           *)

MayForce(p) == IF p \in Forceful THEN BOOLEAN ELSE {FALSE}

Commands(p) ==
    [cmd : {"set"}, id : Phases, to : Statuses, force : MayForce(p)]
    \cup [cmd : {"rm"}, id : Phases, force : MayForce(p)]
    \cup [cmd : {"add"}, deps : DepLists]
    \cup [cmd : {"edit phase"}, title : Titles, deps : DepLists]
    \cup {[cmd |-> c] : c \in {"edit plan", "archive"}}

GoTo(p, from, to) == pc[p] \in from /\ pc' = [pc EXCEPT ![p] = to]
Start(p, step, c) ==
    /\ started < MaxCommands /\ started' = started + 1
    /\ GoTo(p, {"idle"}, step)
    /\ job' = [job EXCEPT ![p] = c]
    /\ at' = [at EXCEPT ![p] = place]

Fixing(q) == pc[q] \in {"look", "scan", "repair"}
MayStartBesides == FixBeside \/ \A q \in Procs : ~Fixing(q)

\* An edit begins with the copy that was checked out, and needs one.
HasSheet(p, c) ==
    CASE c.cmd = "edit phase" -> sheet[p] # Absent /\ sheet[p].path # PlanMd
      [] c.cmd = "edit plan"  -> sheet[p] # Absent /\ sheet[p].path = PlanMd
      [] OTHER                -> TRUE

\* A command finds the directory.  archive looks first, without any lock,
\* whether the plan is done and not yet in the archive.
Find(p) == \E c \in Commands(p) :
    /\ MayStartBesides /\ place # "none" /\ HasSheet(p, c)
    /\ c.cmd = "archive" => place = "plans" /\ plan.status = "done"
    /\ Start(p, IF c.cmd = "archive" THEN "ask directory" ELSE "open", c)
    /\ UNCHANGED <<docs, locks, todo, undo, copy, sheet, forced, torn>>

\* planr edit: a copy of one document, made without the lock; not over an
\* earlier one, which goes when its edit has been applied or refused.
Checkout(p) == \E path \in Phases \cup {PlanMd} :
    /\ p \in Editors /\ sheet[p] = Absent
    /\ pc[p] = "idle" /\ place # "none"
    /\ path # PlanMd => phase[path] # Absent
    /\ sheet' = [sheet EXCEPT ![p] =
            [path |-> path, base |-> IF path = PlanMd THEN plan ELSE phase[path]]]
    /\ UNCHANGED <<docs, locks, pc, ofProcess, started, forced, torn>>

---------------------------------------------------------------------------
(* The two locks.  A lock is lost with the process that holds it.          *)

\* The lock of the directory: archive finds the plan again under it.
LockDirectory(p) ==
    /\ GoTo(p, {"ask directory"}, "find again")
    /\ dirLock = Nobody /\ dirLock' = p
    /\ UNCHANGED <<docs, lock, ofProcess, sheet, started, forced, torn>>

StillToArchive == place = "plans" /\ plan.status = "done"

FindAgain(p) ==
    /\ GoTo(p, {"find again"}, "open")
    /\ job[p].cmd = "archive" /\ StillToArchive
    /\ at' = [at EXCEPT ![p] = place]
    /\ UNCHANGED <<docs, locks, job, todo, undo, copy, sheet, started, forced, torn>>

\* The lock file is opened where the directory was found, and not created
\* there once the directory has moved; then the wait is for that very file.
Open(p) ==
    /\ GoTo(p, {"open"}, "wait") /\ at[p] = place
    /\ UNCHANGED <<docs, locks, ofProcess, sheet, started, forced, torn>>

\* Mutant: archive does not wait for who is writing in the directory.
LockPlanUnlessMoving(p) ==
    /\ GoTo(p, {"wait"}, "judge")
    /\ lock = Nobody \/ job[p].cmd = "archive"
    /\ lock' = IF lock = Nobody THEN p ELSE lock
    /\ UNCHANGED <<docs, dirLock, ofProcess, sheet, started, forced, torn>>

LockPlan(p) ==
    /\ GoTo(p, {"wait"}, "judge")
    /\ lock = Nobody /\ lock' = p
    /\ UNCHANGED <<docs, dirLock, ofProcess, sheet, started, forced, torn>>

Leave(p) ==
    /\ lock' = IF lock = p THEN Nobody ELSE lock
    /\ dirLock' = IF dirLock = p THEN Nobody ELSE dirLock
    /\ pc' = [pc EXCEPT ![p] = "idle"]
    /\ job' = [job EXCEPT ![p] = Absent]
    /\ at' = [at EXCEPT ![p] = "none"]
    /\ todo' = [todo EXCEPT ![p] = <<>>]
    /\ undo' = [undo EXCEPT ![p] = <<>>]
    /\ copy' = [copy EXCEPT ![p] = Absent]
    /\ sheet' = IF job[p].cmd \in {"edit phase", "edit plan"}
                THEN [sheet EXCEPT ![p] = Absent] ELSE sheet

\* A refusal, a timeout of a lock, a hook that fails, an error of a read.
GiveUp(p) ==
    /\ pc[p] \in {"ask directory", "find again", "open", "wait", "judge",
                  "look", "scan", "repair"}
    /\ Leave(p)
    /\ UNCHANGED <<docs, started, forced, torn>>

---------------------------------------------------------------------------
(* Under the lock: read, judge, and lay out the changes.                   *)

Replace(path, old, new) == [path |-> path, old |-> old, new |-> new]
WithList(d, i, e) == [d EXCEPT !.list[i] = e]

\* The documents are where the process expects them.
Reads(p, cmd) == pc[p] = "judge" /\ job[p].cmd = cmd /\ at[p] = place

Plans(p, changes) ==
    /\ GoTo(p, {"judge"}, "write")
    /\ todo' = [todo EXCEPT ![p] = changes]
    /\ UNCHANGED <<docs, locks, at, undo, copy, sheet, started, torn>>

SetStatus(p) == LET j == job[p] IN
    /\ Reads(p, "set")
    /\ phase[j.id] # Absent /\ plan.list[j.id] # Absent
    /\ j.force \/ j.to = "planned" \/ DependenciesMet(phase, j.id)
    /\ LET after == [phase EXCEPT ![j.id].status = j.to]
           list  == WithList(plan, j.id, [plan.list[j.id] EXCEPT !.checked = j.to = "done"])
       IN Plans(p, << Replace(j.id, phase[j.id], after[j.id]),
                      Replace(PlanMd, plan, [list EXCEPT !.status = PlanStatus(after)]) >>)
    /\ UNCHANGED <<job, forced>>

\* Mutant: removing a phase leaves the status of the plan alone.
RemovePhaseKeeps(p) == LET j == job[p] IN
    /\ Reads(p, "rm") /\ plan.status # "done"
    /\ phase[j.id] # Absent /\ plan.list[j.id] # Absent
    /\ j.force \/ Dependents(phase, j.id) = {}
    /\ Plans(p, << Replace(PlanMd, plan, WithList(plan, j.id, Absent)),
                   Replace(j.id, phase[j.id], Absent) >>)
    /\ forced' = (forced \/ Dependents(phase, j.id) # {})
    /\ UNCHANGED job

\* PLAN.md is written before the document is deleted.
RemovePhase(p) == LET j == job[p] IN
    /\ Reads(p, "rm") /\ plan.status # "done"
    /\ phase[j.id] # Absent /\ plan.list[j.id] # Absent
    /\ j.force \/ Dependents(phase, j.id) = {}
    /\ LET after == [phase EXCEPT ![j.id] = Absent]
           list  == WithList(plan, j.id, Absent)
       IN Plans(p, << Replace(PlanMd, plan, [list EXCEPT !.status = PlanStatus(after)]),
                      Replace(j.id, phase[j.id], Absent) >>)
    /\ forced' = (forced \/ Dependents(phase, j.id) # {})
    /\ UNCHANGED job

AddPhase(p) == LET n   == NextPhaseID(phase)
                   doc == [status |-> "planned", title |-> "title", deps |-> job[p].deps] IN
    /\ Reads(p, "add") /\ plan.status # "done" /\ n \in Phases
    /\ ValidDependencies([phase EXCEPT ![n] = doc])
    /\ plan.list[n] = Absent
    /\ Plans(p, << Replace(n, Absent, doc),
                   Replace(PlanMd, plan, [WithList(plan, n, Entry(doc)) EXCEPT !.status = "in-progress"]) >>)
    /\ job' = [job EXCEPT ![p] = [cmd |-> "add", id |-> n]]
    /\ UNCHANGED forced

\* Mutant: only the status is compared.
SeenStatus(p, current) == sheet[p].base.status = current.status

\* planr_base: the document is what its author has seen.
Seen(p, current) == sheet[p].base = current

\* Title and dependencies change, the status stays; PLAN.md changes with
\* the title.
EditPhase(p) == LET i   == sheet[p].path
                    new == [sheet[p].base EXCEPT !.title = job[p].title, !.deps = job[p].deps]
                    entry == <<Replace(PlanMd, plan, WithList(plan, i, Entry(new)))>> IN
    /\ Reads(p, "edit phase")
    /\ phase[i] # Absent /\ Seen(p, phase[i]) /\ new # phase[i]
    /\ ValidDependencies([phase EXCEPT ![i] = new])
    /\ new.title # phase[i].title => plan.list[i] # Absent
    /\ Plans(p, <<Replace(i, phase[i], new)>>
                \o IF new.title # phase[i].title THEN entry ELSE <<>>)
    /\ job' = [job EXCEPT ![p] = [cmd |-> "edit phase", id |-> i]]
    /\ UNCHANGED forced

\* What surrounds the checklist is the author's, checklist and frontmatter
\* are those on disk.
EditPlan(p) ==
    /\ Reads(p, "edit plan") /\ Seen(p, plan) /\ plan.prose # "edited"
    /\ Plans(p, <<Replace(PlanMd, plan, [plan EXCEPT !.prose = "edited"])>>)
    /\ UNCHANGED <<job, forced>>

---------------------------------------------------------------------------
(* planstore.Apply: one document after the other, each replaced at once.   *)

Put(change, to) ==
    IF change.path = PlanMd
    THEN plan' = to /\ UNCHANGED phase
    ELSE phase' = [phase EXCEPT ![change.path] = to] /\ UNCHANGED plan

Write(p) ==
    /\ pc[p] = "write" /\ todo[p] # <<>>
    /\ Put(Head(todo[p]), Head(todo[p]).new)
    /\ undo' = [undo EXCEPT ![p] = <<Head(todo[p])>> \o @]
    /\ todo' = [todo EXCEPT ![p] = Tail(@)]
    /\ UNCHANGED <<place, locks, pc, job, at, copy, sheet, started, forced, torn>>

WriteFails(p) ==
    /\ GoTo(p, {"write"}, "roll back") /\ todo[p] # <<>>
    /\ UNCHANGED <<docs, locks, ofProcess, sheet, started, forced, torn>>

\* The change before the one that failed is taken back first.
RollBack(p) ==
    /\ pc[p] = "roll back" /\ undo[p] # <<>>
    /\ Put(Head(undo[p]), Head(undo[p]).old)
    /\ undo' = [undo EXCEPT ![p] = Tail(@)]
    /\ UNCHANGED <<place, locks, pc, job, at, todo, copy, sheet, started, forced, torn>>

\* The command has written everything or taken everything back.  What it
\* derived anew is right again: the status of the plan, and the phase gone.
Finish(p) ==
    /\ \/ pc[p] = "write" /\ todo[p] = <<>>
       \/ pc[p] = "roll back" /\ undo[p] = <<>>
    /\ torn' = IF pc[p] = "write" /\ job[p].cmd \in {"set", "add", "rm"}
               THEN torn \ ({PlanMd} \cup IF job[p].cmd = "rm" THEN {job[p].id} ELSE {})
               ELSE torn
    /\ Leave(p) /\ UNCHANGED <<docs, started, forced>>

\* Some of the changes of p are on disk and some are not.
Half(p) == undo[p] # <<>> /\ (todo[p] # <<>> \/ pc[p] = "roll back")
Torn(p) == IF Half(p) THEN {job[p].id, PlanMd} ELSE {}

\* A document cannot be put back: the command ends there.
RollBackFails(p) ==
    /\ pc[p] = "roll back" /\ undo[p] # <<>>
    /\ torn' = torn \cup Torn(p)
    /\ Leave(p) /\ UNCHANGED <<docs, started, forced>>

\* The process dies and its locks go with it.
Crash(p) ==
    /\ pc[p] # "idle"
    /\ torn' = torn \cup Torn(p)
    /\ Leave(p) /\ UNCHANGED <<docs, started, forced>>

---------------------------------------------------------------------------
(* archive and registration, under the lock of the first directory.        *)

\* The third look at the plan, the only one under its own lock.
DoneUnderLock == plan.status = "done"

Archive(p) ==
    /\ Reads(p, "archive") /\ DoneUnderLock
    /\ place' = "archive" /\ Leave(p)
    /\ UNCHANGED <<phase, plan, started, forced, torn>>

Register(p) ==
    /\ place = "none" /\ dirLock = Nobody
    /\ Start(p, "ask directory", [cmd |-> "register"])
    /\ UNCHANGED <<docs, locks, todo, undo, copy, sheet, forced, torn>>

\* The documents are written into a temporary directory, which appears at
\* once under the name that was free.
Registered(p) ==
    /\ pc[p] = "find again" /\ job[p].cmd = "register" /\ place = "none"
    /\ phase' \in Drafts
    /\ plan' = [status |-> "in-progress", list |-> Checklist(phase'), prose |-> "as registered"]
    /\ place' = "plans" /\ Leave(p)
    /\ UNCHANGED <<started, forced, torn>>

---------------------------------------------------------------------------
(* doctor --fix, without a lock.                                           *)

\* PLAN.md is read first ...
FixRead(p) ==
    /\ FixBeside \/ \A q \in Procs : pc[q] = "idle"
    /\ place # "none"
    /\ Start(p, "look", [cmd |-> "fix"])
    /\ copy' = [copy EXCEPT ![p] = [plan |-> plan]]
    /\ UNCHANGED <<docs, locks, todo, undo, sheet, forced, torn>>

\* ... then the names of the phases ...
FixList(p) ==
    /\ GoTo(p, {"look"}, "scan") /\ at[p] = place
    /\ Present(phase) # {}
    /\ copy' = [copy EXCEPT ![p] =
            [plan |-> @.plan, ids |-> Present(phase), doc |-> [i \in Phases |-> Absent]]]
    /\ UNCHANGED <<docs, locks, job, at, todo, undo, sheet, started, forced, torn>>

Unread(p) == {i \in copy[p].ids : copy[p].doc[i] = Absent}

\* ... and the documents, in the order of their names.  One that has gone
\* ends the repair.
FixPhase(p) ==
    /\ pc[p] = "scan" /\ at[p] = place
    /\ \E i \in Unread(p) :
        /\ phase[i] # Absent /\ \A k \in Unread(p) : i <= k
        /\ copy' = [copy EXCEPT ![p].doc[i] = phase[i]]
        /\ pc' = [pc EXCEPT ![p] = IF Unread(p) = {i} THEN "repair" ELSE "scan"]
    /\ UNCHANGED <<docs, locks, job, at, todo, undo, sheet, started, forced, torn>>

\* PLAN.md as it was read, with the checklist of the phases that were read.
Repaired(p) == [copy[p].plan EXCEPT !.list = Checklist(copy[p].doc)]

FixWrite(p) ==
    /\ pc[p] = "repair" /\ at[p] = place
    /\ Repaired(p) # copy[p].plan
    /\ plan' = Repaired(p)
    /\ torn' = torn \cap {PlanMd}
    /\ Leave(p) /\ UNCHANGED <<phase, place, started, forced>>

---------------------------------------------------------------------------
PlanFilesInit ==
    /\ phase = [i \in Phases |-> Absent]
    /\ plan = [status |-> "in-progress", list |-> phase, prose |-> "as registered"]
    /\ place = "none" /\ lock = Nobody /\ dirLock = Nobody
    /\ pc = [p \in Procs |-> "idle"] /\ job = [p \in Procs |-> Absent]
    /\ at = [p \in Procs |-> "none"]
    /\ todo = [p \in Procs |-> <<>>] /\ undo = [p \in Procs |-> <<>>]
    /\ copy = [p \in Procs |-> Absent] /\ sheet = [p \in Procs |-> Absent]
    /\ started = 0 /\ forced = FALSE /\ torn = {}

PlanFilesNext == \E p \in Procs :
    \/ Register(p) \/ LockDirectory(p) \/ Registered(p)
    \/ Find(p) \/ Checkout(p) \/ FindAgain(p) \/ Open(p) \/ LockPlan(p) \/ GiveUp(p)
    \/ SetStatus(p) \/ RemovePhase(p) \/ AddPhase(p) \/ EditPhase(p) \/ EditPlan(p)
    \/ Archive(p)
    \/ Write(p) \/ WriteFails(p) \/ RollBack(p) \/ RollBackFails(p) \/ Finish(p)
    \/ Crash(p)
    \/ FixRead(p) \/ FixList(p) \/ FixPhase(p) \/ FixWrite(p)

PlanFilesSpec == PlanFilesInit /\ [][PlanFilesNext]_planVars

---------------------------------------------------------------------------
PlanFilesTypeOK ==
    /\ phase \in [Phases -> PhaseDocs \cup {Absent}]
    /\ plan \in PlanDocs
    /\ place \in {"none", "plans", "archive"}
    /\ lock \in Procs \cup {Nobody} /\ dirLock \in Procs \cup {Nobody}
    /\ torn \subseteq Phases \cup {PlanMd}
    /\ started \in 0..MaxCommands

\* When nobody changes the plan, PLAN.md says of every phase what its
\* document says, and of the plan what follows from all of them - except
\* where a crash or a rollback that failed has come between two documents
\* (phase.go UpdatePhaseStatusLocked, transaction.go Apply).
FilesAgree ==
    lock = Nobody =>
        /\ \A i \in Phases \ torn : plan.list[i] = Checklist(phase)[i]
        /\ PlanMd \notin torn => plan.status = PlanStatus(phase)

\* An accepted edit replaces the very document its author has edited,
\* whatever the others did since the checkout (edit.go Edit, planr_base).
EditsOnBase == \A p \in Procs :
    (pc[p] = "write" /\ undo[p] = <<>>) =>
        /\ job[p].cmd = "edit phase" => phase[job[p].id] = sheet[p].base
        /\ job[p].cmd = "edit plan" => plan = sheet[p].base

\* A phase is started or finished without --force only while everything it
\* depends on is done (phase.go EnsureDependenciesMet).
DependenciesBefore == \A p \in Procs :
    (pc[p] = "write" /\ undo[p] = <<>> /\ job[p].cmd = "set") =>
        \/ job[p].force \/ job[p].to = "planned"
        \/ \A d \in phase[job[p].id].deps : phase[d] # Absent /\ phase[d].status = "done"

\* The dependencies of the phases never form a cycle, and without --force
\* none of them is left without its phase, whatever is added, edited and
\* removed, and whatever number is used again.
GraphSound == Cyclefree(phase) /\ (forced \/ Defined(phase))

\* A directory goes to the archive with all its phases done, unless an
\* earlier crash left PLAN.md wrong, and while nobody is writing in it
\* (archive.go runArchive).
ArchivedWhole ==
    [][(place = "plans" /\ place' = "archive") =>
            /\ PlanMd \notin torn => AllDone(phase)
            /\ \A q \in Procs : pc[q] \notin {"write", "roll back"}]_planVars

\* What docs/configuration.md:189 says: doctor --fix does nothing but
\* rebuild the checklist.
FixOnlyRebuilds ==
    [][\A p \in Procs : FixWrite(p) =>
            plan'.status = plan.status /\ plan'.prose = plan.prose]_planVars
===========================================================================
