-------------------------- MODULE PlanFilesProofs -------------------------
(***************************************************************************)
(* Proofs about the documents of a plan, for any number of processes,      *)
(* phases and commands, where doctor --fix runs beside no other command.   *)
(*                                                                         *)
(* Whoever judges, writes or rolls back has the lock of the plan, so there *)
(* is one writer at a time.  The invariant says of a writer that there are *)
(* documents that agree with each other and differ from those on disk by   *)
(* what it can still take back, and others that agree and differ by what   *)
(* it has still to write.  When it comes to an end, one of the two are on  *)
(* disk; when it dies in the middle, the disk is wrong in the two          *)
(* documents it was about, and these are put on record in torn.            *)
(***************************************************************************)
EXTENDS PlanFiles, SequenceTheorems, FiniteSetTheorems, TLAPS

---------------------------------------------------------------------------
(* Types.                                                                  *)

Steps == {"idle", "ask directory", "find again", "open", "wait", "judge", "write", "roll back",
          "look", "scan", "repair"}

Doc == [Phases -> PhaseDocs \cup {Absent}]

\* What a command is asked to do, and what is kept of it while it writes.
Asked ==
    [cmd : {"set"}, id : Phases, to : Statuses, force : BOOLEAN]
    \cup [cmd : {"rm"}, id : Phases, force : BOOLEAN]
    \cup [cmd : {"add"}, deps : SUBSET Phases]
    \cup [cmd : {"edit phase"}, title : Titles, deps : SUBSET Phases]
    \cup [cmd : {"edit plan", "archive", "register"}]
Kept ==
    [cmd : {"set"}, id : Phases, to : Statuses, force : BOOLEAN]
    \cup [cmd : {"rm"}, id : Phases, force : BOOLEAN]
    \cup [cmd : {"add", "edit phase"}, id : Phases]
    \cup [cmd : {"edit plan"}]

PhaseSheets == [path : Phases, base : PhaseDocs]
PlanSheets  == [path : {PlanMd}, base : PlanDocs]

PhaseChanges == [path : Phases, old : PhaseDocs \cup {Absent}, new : PhaseDocs \cup {Absent}]
PlanChanges  == [path : {PlanMd}, old : PlanDocs, new : PlanDocs]
Changes      == PhaseChanges \cup PlanChanges

Typed ==
    /\ phase \in Doc /\ plan \in PlanDocs
    /\ place \in {"none", "plans", "archive"}
    /\ lock \in Procs \cup {Nobody}
    /\ pc \in [Procs -> Steps]
    /\ job = [p \in Procs |-> job[p]] /\ at = [p \in Procs |-> at[p]]
    /\ copy = [p \in Procs |-> copy[p]]
    /\ sheet \in [Procs -> PhaseSheets \cup PlanSheets \cup {Absent}]
    /\ todo \in [Procs -> Seq(Changes)] /\ undo \in [Procs -> Seq(Changes)]
    /\ torn \subseteq Phases \cup {PlanMd} /\ forced \in BOOLEAN

Under(p)   == pc[p] \in {"judge", "write", "roll back"}
Writing(p) == pc[p] \in {"write", "roll back"}
Asking(p)  == pc[p] \in {"ask directory", "find again", "open", "wait", "judge"}

\* Who reads and writes under the lock has it; there is a directory then.
Locked ==
    \A p \in Procs :
        /\ Under(p) <=> lock = p
        /\ place = "none" => pc[p] \in {"idle", "ask directory", "find again"}

Jobs ==
    \A p \in Procs :
        /\ Asking(p) => job[p] \in Asked
        /\ Writing(p) => job[p] \in Kept
        /\ ~Writing(p) => todo[p] = <<>> /\ undo[p] = <<>>
        /\ Under(p) /\ job[p].cmd = "edit phase" => sheet[p] \in PhaseSheets
        /\ Under(p) /\ job[p].cmd = "edit plan" => sheet[p] \in PlanSheets
        /\ pc[p] \in {"open", "wait"} /\ job[p].cmd = "edit phase" => sheet[p] \in PhaseSheets
        /\ pc[p] \in {"open", "wait"} /\ job[p].cmd = "edit plan" => sheet[p] \in PlanSheets
        /\ Asking(p) /\ job[p].cmd = "register" => pc[p] \in {"ask directory", "find again"}

Skeleton == Typed /\ Locked /\ Jobs

---------------------------------------------------------------------------
(* What agrees, and what a writer has laid out.                            *)

\* Documents agree but for those named in T.
Agrees(doc, pl, T) ==
    /\ \A i \in Phases \ T : pl.list[i] = Checklist(doc)[i]
    /\ PlanMd \notin T => pl.status = PlanStatus(doc)

Paths == Phases \cup {PlanMd}
Has(doc, pl, path) == IF path = PlanMd THEN pl ELSE doc[path]
Now(path) == Has(phase, plan, path)

Elems(s)   == {s[k] : k \in 1..Len(s)}
OneEach(s) == \A j, k \in 1..Len(s) : j # k => s[j].path # s[k].path

\* The documents before the changes of s, and after them.
Elsewhere(s, doc, pl) ==
    \A path \in Paths : (\A c \in Elems(s) : c.path # path) => Has(doc, pl, path) = Now(path)
Before(s, doc, pl) == (\A c \in Elems(s) : Has(doc, pl, c.path) = c.old) /\ Elsewhere(s, doc, pl)
After(s, doc, pl)  == (\A c \in Elems(s) : Has(doc, pl, c.path) = c.new) /\ Elsewhere(s, doc, pl)

\* What is right again when the command of p has been carried out.
Mends(p) ==
    IF job[p].cmd \in {"set", "add", "rm"}
    THEN {PlanMd} \cup (IF job[p].cmd = "rm" THEN {job[p].id} ELSE {}) ELSE {}

\* A change is about the phase of the command, or about its entry.
About(p, c) ==
    IF job[p].cmd = "edit plan" THEN c.path = PlanMd
    ELSE \/ c.path = job[p].id
         \/ c.path = PlanMd /\ \A i \in Phases \ {job[p].id} : c.new.list[i] = c.old.list[i]

\* The changes of a writer are of different documents: what it has written
\* is on disk, and the rest will replace what is there.
Laid(p) ==
    /\ \A c \in Elems(undo[p]) : c.new = Now(c.path) /\ About(p, c)
    /\ \A c \in Elems(todo[p]) : c.old = Now(c.path) /\ About(p, c)
    /\ \A c \in Elems(todo[p]), d \in Elems(undo[p]) : c.path # d.path
    /\ OneEach(todo[p]) /\ OneEach(undo[p])
    /\ job[p].cmd = "edit plan" => (todo[p] = <<>> \/ (undo[p] = <<>> /\ Tail(todo[p]) = <<>>))

CanGoBack(p) == \E doc \in Doc, pl \in PlanDocs : Before(undo[p], doc, pl) /\ Agrees(doc, pl, torn)
CanGoOn(p) ==
    \E doc \in Doc, pl \in PlanDocs : After(todo[p], doc, pl) /\ Agrees(doc, pl, torn \ Mends(p))

WriterOK(p) ==
    /\ Laid(p) /\ CanGoBack(p)
    /\ pc[p] = "write" => CanGoOn(p)
    /\ pc[p] = "roll back" => todo[p] # <<>>

Writers == \A p \in Procs : Writing(p) => WriterOK(p)

Quiet == \A p \in Procs : ~Writing(p)

AgreeAtRest == Quiet => Agrees(phase, plan, torn)

---------------------------------------------------------------------------
(* The repair has read what is there, and nobody else is at work.          *)

Reading(p) == pc[p] \in {"scan", "repair"}

RepairOK(p) ==
    /\ \A q \in Procs \ {p} : pc[q] = "idle"
    /\ place # "none" /\ copy[p].plan = plan
    /\ pc[p] = "look" => copy[p] \in [plan : PlanDocs]
    /\ Reading(p) =>
        /\ copy[p] \in [plan : PlanDocs, ids : SUBSET Phases, doc : Doc]
        /\ copy[p].ids = Present(phase)
        /\ \A i \in Phases : copy[p].doc[i] \in {Absent, phase[i]}
    /\ pc[p] = "repair" => Unread(p) = {}

Repairs == \A p \in Procs : Fixing(p) => RepairOK(p)

---------------------------------------------------------------------------
(* Dependencies.                                                           *)

Sound(doc) == Cyclefree(doc) /\ (forced \/ Defined(doc))
With(path, d) == [phase EXCEPT ![path] = d]

\* The phases stay sound if a change is taken back, and if one is made.
SoundBy(p) ==
    /\ \A c \in Elems(undo[p]) : c.path \in Phases => Sound(With(c.path, c.old))
    /\ pc[p] = "write" =>
        \A c \in Elems(todo[p]) : c.path \in Phases => Sound(With(c.path, c.new))

SoundAround == Sound(phase) /\ \A p \in Procs : Writing(p) => SoundBy(p)

AboutFiles == Writers /\ AgreeAtRest /\ SoundAround /\ EditsOnBase /\ DependenciesBefore

PFInv == Skeleton /\ AboutFiles /\ Repairs

---------------------------------------------------------------------------
(* The beginning.                                                          *)

LEMMA CommandsAsked ==
    ASSUME NEW p \in Procs PROVE  \A c \in Commands(p) : c \in Asked /\ c.cmd # "register"
<1>1. MayForce(p) \subseteq BOOLEAN
  <2>1. CASE p \in Forceful BY <2>1, Zenon DEF MayForce
  <2>2. CASE p \notin Forceful
    <3>1. MayForce(p) = {FALSE} BY <2>2, Zenon DEF MayForce
    <3> QED BY <3>1, Zenon
  <2> QED BY <2>1, <2>2
<1>2. DepLists \subseteq SUBSET Phases BY PlanFilesAssumption
<1> SUFFICES ASSUME NEW c \in Commands(p) PROVE c \in Asked /\ c.cmd # "register" OBVIOUS
<1>3. CASE c \in [cmd : {"set"}, id : Phases, to : Statuses, force : MayForce(p)]
  BY <1>1, <1>3 DEF Asked
<1>4. CASE c \in [cmd : {"rm"}, id : Phases, force : MayForce(p)] BY <1>1, <1>4 DEF Asked
<1>5. CASE c \in [cmd : {"add"}, deps : DepLists] BY <1>2, <1>5 DEF Asked
<1>6. CASE c \in [cmd : {"edit phase"}, title : Titles, deps : DepLists] BY <1>2, <1>6 DEF Asked
<1>7. CASE c \in {[cmd |-> k] : k \in {"edit plan", "archive"}}
  <2>1. PICK k \in {"edit plan", "archive"} : c = [cmd |-> k] BY <1>7
  <2>2. c \in [cmd : {"edit plan", "archive", "register"}] BY <2>1
  <2> QED BY <2>1, <2>2 DEF Asked
<1> QED BY <1>3, <1>4, <1>5, <1>6, <1>7 DEF Commands

LEMMA Begins == PlanFilesInit => PFInv
<1> SUFFICES ASSUME PlanFilesInit PROVE PFInv OBVIOUS
<1>1. Typed
  <2> USE DEF PlanFilesInit
  <2>1. phase \in Doc BY DEF Doc
  <2>2. plan \in PlanDocs BY DEF PlanDocs
  <2>3. pc \in [Procs -> Steps] BY DEF Steps
  <2>4. job = [p \in Procs |-> job[p]] /\ at = [p \in Procs |-> at[p]] /\ copy = [p \in Procs |-> copy[p]]
    OBVIOUS
  <2>5. sheet \in [Procs -> PhaseSheets \cup PlanSheets \cup {Absent}] OBVIOUS
  <2>6. <<>> \in Seq(Changes) BY EmptySeq
  <2>7. todo \in [Procs -> Seq(Changes)] /\ undo \in [Procs -> Seq(Changes)] BY <2>6
  <2> QED BY <2>1, <2>2, <2>3, <2>4, <2>5, <2>7 DEF Typed
<1>2. Locked BY PlanFilesAssumption DEF Locked, Under, PlanFilesInit
<1>3. Jobs BY DEF Jobs, Asking, Writing, Under, PlanFilesInit
<1>4. Present(phase) = {} BY DEF Present, PlanFilesInit
<1>5. Sound(phase)
  <2>2. Cyclefree(phase)
    <3>1. ASSUME NEW S \in (SUBSET Present(phase)) \ {{}} PROVE FALSE
      <4>1. S # {} /\ S \subseteq Present(phase) BY Zenon
      <4> QED BY <1>4, <4>1
    <3> QED BY <3>1, Zenon DEF Cyclefree
  <2>3. Defined(phase) BY <1>4 DEF Defined
  <2> QED BY <2>2, <2>3 DEF Sound
<1>6. Quiet /\ \A p \in Procs : ~Fixing(p) BY DEF Quiet, Writing, Fixing, PlanFilesInit
<1>7. Agrees(phase, plan, torn)
  <2>1. \A i \in Phases : plan.list[i] = Checklist(phase)[i] BY DEF PlanFilesInit, Checklist
  <2>2. plan.status = PlanStatus(phase) BY <1>4 DEF PlanFilesInit, PlanStatus, AllDone
  <2> QED BY <2>1, <2>2 DEF Agrees
<1>8. Writers /\ AgreeAtRest /\ Repairs /\ SoundAround
  BY <1>5, <1>6, <1>7 DEF Writers, Quiet, AgreeAtRest, Repairs, SoundAround
<1>9. EditsOnBase /\ DependenciesBefore BY DEF EditsOnBase, DependenciesBefore, PlanFilesInit
<1> QED BY <1>1, <1>2, <1>3, <1>8, <1>9 DEF PFInv, Skeleton, AboutFiles

---------------------------------------------------------------------------
(* Types, locks and jobs.                                                  *)

\* A process that leaves has nothing, and frees what it held.
LEMMA LeaveKeeps ==
    ASSUME Skeleton, NEW p \in Procs, Leave(p), phase' \in Doc, plan' \in PlanDocs,
           place' \in {"none", "plans", "archive"}, place = "none" \/ place' # "none",
           torn' \subseteq Phases \cup {PlanMd}, forced' \in BOOLEAN
    PROVE  Skeleton'
<1> USE PlanFilesAssumption DEF Skeleton, Leave
<1>1. Typed'
  <2>1. pc' \in [Procs -> Steps] BY DEF Typed, Steps
  <2>2. /\ job' = [q \in Procs |-> job'[q]] /\ at' = [q \in Procs |-> at'[q]]
        /\ copy' = [q \in Procs |-> copy'[q]]
    BY DEF Typed
  <2>3. sheet' \in [Procs -> PhaseSheets \cup PlanSheets \cup {Absent}] BY DEF Typed
  <2>4. <<>> \in Seq(Changes) BY EmptySeq
  <2>6. todo' \in [Procs -> Seq(Changes)] /\ undo' \in [Procs -> Seq(Changes)] BY <2>4 DEF Typed
  <2>5. lock' \in Procs \cup {Nobody} BY DEF Typed
  <2> QED BY <2>1, <2>2, <2>3, <2>6, <2>5 DEF Typed
<1>2. Locked' BY DEF Locked, Under, Typed
<1>3. Jobs' BY DEF Jobs, Asking, Writing, Under, Typed
<1> QED BY <1>1, <1>2, <1>3

---------------------------------------------------------------------------
(* Steps that change no document.                                          *)

\* One process writes at a time.
LEMMA OneWriter ==
    ASSUME Skeleton, NEW p \in Procs, Under(p), NEW q \in Procs, q # p
    PROVE  ~Under(q) /\ ~Writing(q)
<1>1. lock = p BY DEF Skeleton, Locked
<1>2. ~Under(q) BY <1>1 DEF Skeleton, Locked
<1> QED BY <1>2 DEF Under, Writing

\* A step that leaves the documents alone, makes nobody a writer and keeps
\* what the writer is about keeps what is said of documents and writers.
Calm ==
    /\ UNCHANGED <<phase, plan, torn, forced, todo, undo>>
    /\ \A q \in Procs :
        /\ Writing(q)' <=> Writing(q)
        /\ (pc[q] = "write")' => pc[q] = "write"
        /\ Writing(q) => UNCHANGED <<job[q], sheet[q]>>
        /\ (pc[q] = "roll back")' => pc[q] = "roll back" \/ todo[q] # <<>>

LEMMA CalmKeeps == ASSUME AboutFiles, Calm PROVE AboutFiles'
<1> USE DEF Calm
<1>1. Writers'
  <2> SUFFICES ASSUME NEW q \in Procs, Writing(q)' PROVE WriterOK(q)' BY DEF Writers
  <2>1. WriterOK(q) /\ Writing(q) BY DEF AboutFiles, Writers
  <2>2. job'[q] = job[q] BY <2>1
  <2>3. \A path : Now(path)' = Now(path) BY DEF Now, Has
  <2>4. \A c : About(q, c)' = About(q, c) BY <2>2 DEF About
  <2>10. Elems(todo[q])' = Elems(todo[q]) /\ Elems(undo[q])' = Elems(undo[q]) OBVIOUS
  <2>11. OneEach(todo[q])' = OneEach(todo[q]) /\ OneEach(undo[q])' = OneEach(undo[q]) OBVIOUS
  <2>12. Laid(q) BY <2>1 DEF WriterOK
  <2>5. Laid(q)' BY <2>12, <2>2, <2>3, <2>4, <2>10, <2>11 DEF Laid
  <2>6. CanGoBack(q)'
    <3>1. PICK doc \in Doc, pl \in PlanDocs : Before(undo[q], doc, pl) /\ Agrees(doc, pl, torn)
      BY <2>1 DEF WriterOK, CanGoBack
    <3>2. Before(undo[q], doc, pl)' BY <3>1, <2>3, <2>10 DEF Before, Elsewhere
    <3> QED BY <3>1, <3>2 DEF CanGoBack
  <2>7. Mends(q)' = Mends(q) BY <2>2 DEF Mends
  <2>8. ASSUME pc'[q] = "write" PROVE CanGoOn(q)'
    <3>1. PICK doc \in Doc, pl \in PlanDocs :
              After(todo[q], doc, pl) /\ Agrees(doc, pl, torn \ Mends(q))
      BY <2>1, <2>8 DEF WriterOK, CanGoOn
    <3>2. After(todo[q], doc, pl)' BY <3>1, <2>3, <2>10 DEF After, Elsewhere
    <3> QED BY <3>1, <3>2, <2>7 DEF CanGoOn
  <2>9. ASSUME pc'[q] = "roll back" PROVE todo'[q] # <<>>
    BY <2>1, <2>9 DEF WriterOK
  <2> QED BY <2>5, <2>6, <2>8, <2>9 DEF WriterOK
<1>2. AgreeAtRest'
  <2>1. Quiet' => Quiet BY DEF Quiet
  <2> QED BY <2>1 DEF AboutFiles, AgreeAtRest, Agrees
<1>3. SoundAround'
  <2>1. \A doc : Sound(doc)' = Sound(doc) BY DEF Sound
  <2>2. \A path, d : With(path, d)' = With(path, d) BY DEF With
  <2>3. Sound(phase)' BY <2>1 DEF AboutFiles, SoundAround, Sound
  <2>4. ASSUME NEW q \in Procs, Writing(q)' PROVE SoundBy(q)'
    <3>1. SoundBy(q) BY <2>4 DEF AboutFiles, SoundAround
    <3> QED BY <3>1, <2>2 DEF SoundBy, Elems, Sound
  <2> QED BY <2>3, <2>4 DEF SoundAround
<1>4. EditsOnBase' BY DEF AboutFiles, EditsOnBase, Writing
<1>5. DependenciesBefore' BY ZenonT(60) DEF AboutFiles, DependenciesBefore, Writing
<1> QED BY <1>1, <1>2, <1>3, <1>4, <1>5 DEF AboutFiles

\* Where nobody writes, the documents need only agree and be sound.
LEMMA QuietIsEnough ==
    ASSUME Quiet', Agrees(phase, plan, torn)', Sound(phase)'
    PROVE  AboutFiles'
BY DEF Quiet, AboutFiles, Writers, AgreeAtRest, SoundAround, EditsOnBase, DependenciesBefore, Writing

\* No repair runs beside a process that is at work, or begins then.
LEMMA NoRepair ==
    ASSUME Typed, Repairs, NEW p \in Procs, pc[p] # "idle", ~Fixing(p),
           NEW to, pc' = [pc EXCEPT ![p] = to], to \notin {"look", "scan", "repair"}
    PROVE  Repairs'
<1>1. \A q \in Procs : ~Fixing(q) BY DEF Repairs, RepairOK
<1>2. \A q \in Procs : ~Fixing(q)' BY <1>1 DEF Fixing, Typed
<1> QED BY <1>2 DEF Repairs

---------------------------------------------------------------------------
(* Changes, one after the other.                                           *)

LEMMA FirstOfChanges ==
    ASSUME NEW s \in Seq(Changes), s # <<>>
    PROVE  /\ Head(s) \in Changes /\ Tail(s) \in Seq(Changes)
           /\ Elems(s) = {Head(s)} \cup Elems(Tail(s))
           /\ OneEach(s) => /\ OneEach(Tail(s))
                            /\ \A c \in Elems(Tail(s)) : c.path # Head(s).path
<1>1. Head(s) \in Changes /\ Tail(s) \in Seq(Changes) /\ Len(s) \in Nat \ {0}
  BY HeadTailProperties, EmptySeq, LenProperties
<1>2. Len(Tail(s)) = Len(s) - 1 /\ \A k \in 1..Len(Tail(s)) : Tail(s)[k] = s[k + 1]
  BY HeadTailProperties
<1>3. Head(s) = s[1] OBVIOUS
<1>4. Elems(s) = {Head(s)} \cup Elems(Tail(s))
  <2>1. ASSUME NEW k \in 1..Len(s) PROVE s[k] \in {Head(s)} \cup Elems(Tail(s))
    <3>1. CASE k = 1 BY <3>1, <1>3
    <3>2. CASE k # 1
      <4>1. k - 1 \in 1..Len(Tail(s)) /\ (k - 1) + 1 = k BY <3>2, <1>1, <1>2
      <4>2. s[k] = Tail(s)[k - 1] BY <4>1, <1>2
      <4> QED BY <4>1, <4>2 DEF Elems
    <3> QED BY <3>1, <3>2
  <2>2. Head(s) \in Elems(s) BY <1>1, <1>3 DEF Elems
  <2>3. ASSUME NEW k \in 1..Len(Tail(s)) PROVE Tail(s)[k] \in Elems(s)
    <3>1. k + 1 \in 1..Len(s) BY <1>1, <1>2
    <3> QED BY <3>1, <1>2 DEF Elems
  <2> QED BY <2>1, <2>2, <2>3 DEF Elems
<1>5. ASSUME OneEach(s) PROVE OneEach(Tail(s)) /\ \A c \in Elems(Tail(s)) : c.path # Head(s).path
  <2>1. ASSUME NEW j \in 1..Len(Tail(s)), NEW k \in 1..Len(Tail(s)), j # k
        PROVE  Tail(s)[j].path # Tail(s)[k].path
    <3>1. j + 1 \in 1..Len(s) /\ k + 1 \in 1..Len(s) /\ j + 1 # k + 1 BY <1>1, <1>2, <2>1
    <3>2. s[j + 1].path # s[k + 1].path BY <3>1, <1>5 DEF OneEach
    <3> QED BY <3>2, <1>2
  <2>2. ASSUME NEW k \in 1..Len(Tail(s)) PROVE Tail(s)[k].path # Head(s).path
    <3>1. k + 1 \in 1..Len(s) /\ 1 \in 1..Len(s) /\ k + 1 # 1 BY <1>1, <1>2
    <3>2. s[k + 1].path # s[1].path BY <3>1, <1>5 DEF OneEach
    <3> QED BY <3>2, <1>2, <1>3
  <2> QED BY <2>1, <2>2 DEF OneEach, Elems
<1> QED BY <1>1, <1>4, <1>5

LEMMA OneMoreChange ==
    ASSUME NEW h \in Changes, NEW s \in Seq(Changes)
    PROVE  /\ <<h>> \o s \in Seq(Changes) /\ <<h>> \o s # <<>>
           /\ Elems(<<h>> \o s) = {h} \cup Elems(s)
           /\ OneEach(s) /\ (\A c \in Elems(s) : c.path # h.path) => OneEach(<<h>> \o s)
<1> DEFINE t == <<h>> \o s
<1>1. t \in Seq(Changes) /\ Len(s) \in Nat /\ Len(t) = Len(s) + 1 BY LenProperties
<1>2. t[1] = h /\ \A k \in 1..Len(s) : t[k + 1] = s[k] OBVIOUS
<1>3. t # <<>> BY <1>1
<1> HIDE DEF t
<1>4. \A k \in 1..Len(t) : k # 1 => k - 1 \in 1..Len(s) /\ t[k] = s[k - 1]
  <2> SUFFICES ASSUME NEW k \in 1..Len(t), k # 1 PROVE k - 1 \in 1..Len(s) /\ t[k] = s[k - 1] OBVIOUS
  <2>1. k - 1 \in 1..Len(s) /\ (k - 1) + 1 = k BY <1>1
  <2> QED BY <2>1, <1>2
<1>5. Elems(t) = {h} \cup Elems(s)
  <2>1. ASSUME NEW k \in 1..Len(t) PROVE t[k] \in {h} \cup Elems(s) BY <1>2, <1>4 DEF Elems
  <2>2. ASSUME NEW k \in 1..Len(s) PROVE s[k] \in Elems(t)
    <3>1. k + 1 \in 1..Len(t) BY <1>1
    <3> QED BY <3>1, <1>2 DEF Elems
  <2>3. h \in Elems(t)
    <3>1. 1 \in 1..Len(t) BY <1>1
    <3> QED BY <3>1, <1>2 DEF Elems
  <2> QED BY <2>1, <2>2, <2>3 DEF Elems
<1>6. ASSUME OneEach(s), \A c \in Elems(s) : c.path # h.path PROVE OneEach(t)
  <2> SUFFICES ASSUME NEW j \in 1..Len(t), NEW k \in 1..Len(t), j # k PROVE t[j].path # t[k].path
    BY DEF OneEach
  <2>1. CASE j = 1
    <3>1. t[k] \in Elems(s) BY <2>1, <1>4 DEF Elems
    <3> QED BY <3>1, <2>1, <1>2, <1>6
  <2>2. CASE k = 1
    <3>1. t[j] \in Elems(s) BY <2>2, <1>4 DEF Elems
    <3> QED BY <3>1, <2>2, <1>2, <1>6
  <2>3. CASE j # 1 /\ k # 1
    <3>1. j - 1 \in 1..Len(s) /\ k - 1 \in 1..Len(s) /\ j - 1 # k - 1 BY <2>3, <1>1, <1>4
    <3> QED BY <3>1, <2>3, <1>4, <1>6 DEF OneEach
  <2> QED BY <2>1, <2>2, <2>3
<1> QED BY <1>1, <1>3, <1>5, <1>6 DEF t

LEMMA NoChanges == Elems(<<>>) = {} /\ OneEach(<<>>)
BY DEF Elems, OneEach

\* A change replaces one document.
LEMMA PutOne ==
    ASSUME Typed, NEW c \in Changes, NEW to \in {c.old, c.new}, Put(c, to)
    PROVE  /\ phase' \in Doc /\ plan' \in PlanDocs
           /\ c.path \in Paths /\ Now(c.path)' = to
           /\ \A path \in Paths : path # c.path => Now(path)' = Now(path)
           /\ c.path \in Phases => phase' = With(c.path, to)
           /\ c.path \notin Phases => phase' = phase
<1>1. CASE c \in PhaseChanges
  <2>1. c.path \in Phases /\ c.path # PlanMd /\ to \in PhaseDocs \cup {Absent}
    BY <1>1, PlanFilesAssumption DEF PhaseChanges
  <2>2. phase' = [phase EXCEPT ![c.path] = to] /\ plan' = plan BY <2>1 DEF Put
  <2>3. phase \in Doc /\ plan \in PlanDocs BY DEF Typed
  <2> QED BY <2>1, <2>2, <2>3, PlanFilesAssumption DEF Paths, Now, Has, With, Doc
<1>2. CASE c \in PlanChanges
  <2>1. c.path = PlanMd /\ c.path \notin Phases /\ to \in PlanDocs
    BY <1>2, PlanFilesAssumption DEF PlanChanges
  <2>2. plan' = to /\ phase' = phase BY <2>1 DEF Put
  <2>3. phase \in Doc BY DEF Typed
  <2> QED BY <2>1, <2>2, <2>3 DEF Paths, Now, Has
<1> QED BY <1>1, <1>2 DEF Changes

---------------------------------------------------------------------------
(* Writing and taking back.                                                *)

LEMMA WriteKeeps == ASSUME PFInv, NEW p \in Procs, Write(p) PROVE PFInv'
<1>1. Skeleton /\ Repairs /\ Typed /\ Locked /\ Jobs BY DEF PFInv, Skeleton
<1>2. pc[p] = "write" /\ Writing(p) /\ Under(p) /\ todo[p] # <<>>
  BY DEF Write, Writing, Under
<1>3. /\ Laid(p) /\ CanGoBack(p) /\ CanGoOn(p)
      /\ SoundBy(p) /\ Sound(phase)
  BY <1>2 DEF PFInv, AboutFiles, Writers, WriterOK, SoundAround
<1>4. todo[p] \in Seq(Changes) /\ undo[p] \in Seq(Changes) BY <1>1 DEF Typed
<1>5. PICK h : h = Head(todo[p]) OBVIOUS
<1>6. PICK rest : rest = Tail(todo[p]) OBVIOUS
<1>7. /\ h \in Changes /\ rest \in Seq(Changes)
      /\ Elems(todo[p]) = {h} \cup Elems(rest)
      /\ OneEach(rest) /\ \A c \in Elems(rest) : c.path # h.path
  BY <1>2, <1>3, <1>4, <1>5, <1>6, FirstOfChanges DEF Laid
<1>8. PICK done : done = <<h>> \o undo[p] OBVIOUS
<1>9. /\ \A c \in Elems(undo[p]) : c.path # h.path
      /\ done \in Seq(Changes) /\ done # <<>>
      /\ Elems(done) = {h} \cup Elems(undo[p]) /\ OneEach(done)
  <2>1. \A c \in Elems(undo[p]) : c.path # h.path BY <1>3, <1>7 DEF Laid
  <2> QED BY <2>1, <1>3, <1>4, <1>7, <1>8, OneMoreChange DEF Laid
<1>10. /\ Put(h, h.new) /\ todo' = [todo EXCEPT ![p] = rest] /\ undo' = [undo EXCEPT ![p] = done]
       /\ UNCHANGED <<place, locks, pc, job, at, copy, sheet, started, forced, torn>>
  BY <1>5, <1>6, <1>8 DEF Write
<1>11. todo'[p] = rest /\ undo'[p] = done /\ \A q \in Procs \ {p} : todo'[q] = todo[q] /\ undo'[q] = undo[q]
  BY <1>1, <1>10 DEF Typed
<1>12. /\ phase' \in Doc /\ plan' \in PlanDocs
       /\ h.path \in Paths /\ Now(h.path)' = h.new
       /\ \A path \in Paths : path # h.path => Now(path)' = Now(path)
       /\ h.path \in Phases => phase' = With(h.path, h.new)
       /\ h.path \notin Phases => phase' = phase
  BY <1>1, <1>7, <1>10, PutOne
<1>13. Skeleton'
  <2>1. Typed'
    <3>1. todo' \in [Procs -> Seq(Changes)] /\ undo' \in [Procs -> Seq(Changes)]
      BY <1>1, <1>7, <1>9, <1>10 DEF Typed
    <3> QED BY <1>1, <1>10, <1>12, <3>1 DEF Typed, locks
  <2>2. Locked' BY <1>1, <1>10 DEF Locked, locks, Under
  <2>3. Jobs' BY <1>1, <1>2, <1>10, <1>11 DEF Jobs, Writing, Under, Asking
  <2> QED BY <2>1, <2>2, <2>3 DEF Skeleton
<1>14. Repairs'
  <2>1. pc' = [pc EXCEPT ![p] = "write"] BY <1>1, <1>2, <1>10 DEF Typed
  <2> QED BY <1>1, <1>2, <2>1, NoRepair DEF Fixing
<1>15. \A q \in Procs : Writing(q)' => q = p
  BY <1>1, <1>2, <1>10, OneWriter DEF Writing
<1>16. WriterOK(p)'
  <2>1. \A c : About(p, c)' = About(p, c) BY <1>10 DEF About
  <2>2. \A c \in Elems(todo[p]) \cup Elems(undo[p]) : c.path \in Paths
    <3>1. \A c \in Changes : c.path \in Paths BY DEF Changes, PhaseChanges, PlanChanges, Paths
    <3> QED BY <1>4, <3>1, ElementOfSeq DEF Elems
  <2>3. Laid(p)'
    <3>1. \A c \in Elems(done) : c.new = Now(c.path)' /\ About(p, c)
      BY <1>3, <1>7, <1>9, <1>12, <2>2 DEF Laid
    <3>2. \A c \in Elems(rest) : c.old = Now(c.path)' /\ About(p, c)
      BY <1>3, <1>7, <1>12, <2>2 DEF Laid
    <3>3. \A c \in Elems(rest), d \in Elems(done) : c.path # d.path
      BY <1>3, <1>7, <1>9 DEF Laid
    <3>4. job[p].cmd = "edit plan" => rest = <<>> BY <1>2, <1>3, <1>6 DEF Laid
    <3> QED BY <1>7, <1>9, <1>10, <1>11, <2>1, <3>1, <3>2, <3>3, <3>4 DEF Laid
  <2>4. CanGoBack(p)'
    <3>1. PICK doc \in Doc, pl \in PlanDocs : Before(undo[p], doc, pl) /\ Agrees(doc, pl, torn)
      BY <1>3 DEF CanGoBack
    <3>2. Has(doc, pl, h.path) = h.old
      <4>1. h.old = Now(h.path) BY <1>3, <1>7 DEF Laid
      <4> QED BY <3>1, <4>1, <1>9, <1>12 DEF Before, Elsewhere
    <3>3. \A c \in Elems(done) : Has(doc, pl, c.path) = c.old BY <3>1, <3>2, <1>9 DEF Before
    <3>4. ASSUME NEW path \in Paths, \A c \in Elems(done) : c.path # path
          PROVE  Has(doc, pl, path) = Now(path)'
      BY <3>1, <3>4, <1>9, <1>12 DEF Before, Elsewhere
    <3>5. Before(undo[p], doc, pl)' BY <3>3, <3>4, <1>11 DEF Before, Elsewhere
    <3> QED BY <3>1, <3>5, <1>10 DEF CanGoBack
  <2>5. CanGoOn(p)'
    <3>1. PICK doc \in Doc, pl \in PlanDocs :
              After(todo[p], doc, pl) /\ Agrees(doc, pl, torn \ Mends(p))
      BY <1>3 DEF CanGoOn
    <3>2. \A c \in Elems(rest) : Has(doc, pl, c.path) = c.new BY <3>1, <1>7 DEF After
    <3>3. ASSUME NEW path \in Paths, \A c \in Elems(rest) : c.path # path
          PROVE  Has(doc, pl, path) = Now(path)'
      BY <3>1, <3>3, <1>7, <1>12 DEF After, Elsewhere
    <3>4. After(todo[p], doc, pl)' BY <3>2, <3>3, <1>11 DEF After, Elsewhere
    <3>5. Mends(p)' = Mends(p) BY <1>10 DEF Mends
    <3> QED BY <3>1, <3>4, <3>5, <1>10 DEF CanGoOn
  <2> QED BY <1>2, <1>10, <2>3, <2>4, <2>5 DEF WriterOK
<1>17. \A doc : Sound(doc)' = Sound(doc) BY <1>10 DEF Sound
<1>18. Sound(phase)' /\ SoundBy(p)'
  <2>1. Sound(phase') BY <1>3, <1>7, <1>2, <1>12 DEF SoundBy
  <2>2. CASE h.path \in Phases
    <3>1. \A c \in Elems(rest) \cup Elems(undo[p]) : c.path \notin Phases
      <4>1. \A c \in {h} \cup Elems(rest) \cup Elems(undo[p]) : c.path \in Phases => c.path = job[p].id
        BY <1>3, <1>7, PlanFilesAssumption DEF Laid, About
      <4> QED BY <4>1, <2>2, <1>7, <1>9
    <3>2. [phase' EXCEPT ![h.path] = h.old] = phase
      <4>1. h.old = phase[h.path] BY <2>2, <1>3, <1>7, PlanFilesAssumption DEF Laid, Now, Has
      <4> QED BY <4>1, <2>2, <1>1, <1>12 DEF With, Typed, Doc
    <3> QED BY <3>1, <3>2, <2>1, <1>3, <1>9, <1>11, <1>17 DEF SoundBy, With, Sound
  <2>3. CASE h.path \notin Phases
    <3>1. \A path, d : With(path, d)' = With(path, d) BY <2>3, <1>12 DEF With
    <3>2. \A c \in Elems(done) : c.path \in Phases => c \in Elems(undo[p]) BY <2>3, <1>9
    <3> QED BY <3>1, <3>2, <2>1, <1>2, <1>3, <1>7, <1>11, <1>17 DEF SoundBy, Sound
  <2> QED BY <2>2, <2>3
<1>19. AboutFiles'
  <2>1. Writers' BY <1>15, <1>16 DEF Writers
  <2>2. AgreeAtRest' BY <1>2, <1>10 DEF AgreeAtRest, Quiet, Writing
  <2>3. SoundAround' BY <1>15, <1>18 DEF SoundAround
  <2>4. EditsOnBase' /\ DependenciesBefore'
    BY <1>9, <1>11, <1>15 DEF EditsOnBase, DependenciesBefore, Writing
  <2> QED BY <2>1, <2>2, <2>3, <2>4 DEF AboutFiles
<1> QED BY <1>13, <1>14, <1>19 DEF PFInv

LEMMA RollBackKeeps == ASSUME PFInv, NEW p \in Procs, RollBack(p) PROVE PFInv'
<1>1. Skeleton /\ Repairs /\ Typed /\ Locked /\ Jobs BY DEF PFInv, Skeleton
<1>2. pc[p] = "roll back" /\ Writing(p) /\ Under(p) /\ undo[p] # <<>>
  BY DEF RollBack, Writing, Under
<1>3. Laid(p) /\ CanGoBack(p) /\ todo[p] # <<>> /\ SoundBy(p) /\ Sound(phase)
  BY <1>2 DEF PFInv, AboutFiles, Writers, WriterOK, SoundAround
<1>4. todo[p] \in Seq(Changes) /\ undo[p] \in Seq(Changes) BY <1>1 DEF Typed
<1>5. PICK h : h = Head(undo[p]) OBVIOUS
<1>6. PICK rest : rest = Tail(undo[p]) OBVIOUS
<1>7. /\ h \in Changes /\ rest \in Seq(Changes)
      /\ Elems(undo[p]) = {h} \cup Elems(rest)
      /\ OneEach(rest) /\ \A c \in Elems(rest) : c.path # h.path
  BY <1>2, <1>3, <1>4, <1>5, <1>6, FirstOfChanges DEF Laid
<1>8. /\ Put(h, h.old) /\ undo' = [undo EXCEPT ![p] = rest] /\ todo' = todo
      /\ UNCHANGED <<place, locks, pc, job, at, copy, sheet, started, forced, torn>>
  BY <1>5, <1>6 DEF RollBack
<1>9. undo'[p] = rest /\ \A q \in Procs \ {p} : undo'[q] = undo[q] BY <1>1, <1>8 DEF Typed
<1>10. /\ phase' \in Doc /\ plan' \in PlanDocs
       /\ h.path \in Paths /\ Now(h.path)' = h.old
       /\ \A path \in Paths : path # h.path => Now(path)' = Now(path)
       /\ h.path \in Phases => phase' = With(h.path, h.old)
       /\ h.path \notin Phases => phase' = phase
  BY <1>1, <1>7, <1>8, PutOne
<1>11. Skeleton'
  <2>1. undo' \in [Procs -> Seq(Changes)] BY <1>1, <1>7, <1>8 DEF Typed
  <2>2. Typed' BY <1>1, <1>8, <1>10, <2>1 DEF Typed, locks
  <2>3. Locked' BY <1>1, <1>8 DEF Locked, locks, Under
  <2>4. Jobs' BY <1>1, <1>2, <1>8, <1>9 DEF Jobs, Writing, Under, Asking
  <2> QED BY <2>2, <2>3, <2>4 DEF Skeleton
<1>12. Repairs'
  <2>1. pc' = [pc EXCEPT ![p] = "roll back"] BY <1>1, <1>2, <1>8 DEF Typed
  <2> QED BY <1>1, <1>2, <2>1, NoRepair DEF Fixing
<1>13. \A q \in Procs : Writing(q)' => q = p BY <1>1, <1>2, <1>8, OneWriter DEF Writing
<1>14. \A c \in Elems(todo[p]) \cup Elems(undo[p]) : c.path \in Paths
  <2>1. \A c \in Changes : c.path \in Paths BY DEF Changes, PhaseChanges, PlanChanges, Paths
  <2> QED BY <1>4, <2>1, ElementOfSeq DEF Elems
<1>15. WriterOK(p)'
  <2>1. \A c : About(p, c)' = About(p, c) BY <1>8 DEF About
  <2>2. Laid(p)'
    <3>1. \A c \in Elems(rest) : c.new = Now(c.path)' /\ About(p, c)
      BY <1>3, <1>7, <1>10, <1>14 DEF Laid
    <3>2. \A c \in Elems(todo[p]) : c.old = Now(c.path)' /\ About(p, c)
      BY <1>3, <1>7, <1>10, <1>14 DEF Laid
    <3>3. \A c \in Elems(todo[p]), d \in Elems(rest) : c.path # d.path BY <1>3, <1>7 DEF Laid
    <3>4. job[p].cmd # "edit plan" BY <1>2, <1>3 DEF Laid
    <3> QED BY <1>3, <1>7, <1>8, <1>9, <2>1, <3>1, <3>2, <3>3, <3>4 DEF Laid
  <2>3. CanGoBack(p)'
    <3>1. PICK doc \in Doc, pl \in PlanDocs : Before(undo[p], doc, pl) /\ Agrees(doc, pl, torn)
      BY <1>3 DEF CanGoBack
    <3>2. \A c \in Elems(rest) : Has(doc, pl, c.path) = c.old BY <3>1, <1>7 DEF Before
    <3>3. ASSUME NEW path \in Paths, \A c \in Elems(rest) : c.path # path
          PROVE  Has(doc, pl, path) = Now(path)'
      BY <3>1, <3>3, <1>7, <1>10 DEF Before, Elsewhere
    <3>4. Before(undo[p], doc, pl)' BY <3>2, <3>3, <1>9 DEF Before, Elsewhere
    <3> QED BY <3>1, <3>4, <1>8 DEF CanGoBack
  <2> QED BY <1>2, <1>3, <1>8, <2>2, <2>3 DEF WriterOK
<1>16. Sound(phase)' /\ SoundBy(p)'
  <2>1. \A doc : Sound(doc)' = Sound(doc) BY <1>8 DEF Sound
  <2>2. Sound(phase') BY <1>3, <1>7, <1>10 DEF SoundBy
  <2>3. CASE h.path \in Phases
    <3>1. \A c \in {h} \cup Elems(rest) : c.path \in Phases => c.path = job[p].id
      BY <1>3, <1>7, PlanFilesAssumption DEF Laid, About
    <3>2. \A c \in Elems(rest) : c.path \notin Phases BY <2>3, <3>1, <1>7
    <3> QED BY <3>2, <2>1, <2>2, <1>2, <1>8, <1>9 DEF SoundBy, Sound
  <2>4. CASE h.path \notin Phases
    <3>1. \A path, d : With(path, d)' = With(path, d) BY <2>4, <1>10 DEF With
    <3> QED BY <3>1, <2>1, <2>2, <1>2, <1>3, <1>7, <1>8, <1>9 DEF SoundBy, Sound
  <2> QED BY <2>3, <2>4
<1>17. AboutFiles'
  <2>1. Writers' BY <1>13, <1>15 DEF Writers
  <2>2. AgreeAtRest' BY <1>2, <1>8 DEF AgreeAtRest, Quiet, Writing
  <2>3. SoundAround' BY <1>13, <1>16 DEF SoundAround
  <2>4. EditsOnBase' /\ DependenciesBefore'
    BY <1>2, <1>8, <1>13 DEF EditsOnBase, DependenciesBefore, Writing
  <2> QED BY <2>1, <2>2, <2>3, <2>4 DEF AboutFiles
<1> QED BY <1>11, <1>12, <1>17 DEF PFInv

LEMMA WriteFailsKeeps == ASSUME PFInv, NEW p \in Procs, WriteFails(p) PROVE PFInv'
<1>1. Skeleton /\ Repairs /\ Typed /\ Locked /\ Jobs BY DEF PFInv, Skeleton
<1>2. /\ pc[p] = "write" /\ pc' = [pc EXCEPT ![p] = "roll back"] /\ todo[p] # <<>>
      /\ UNCHANGED <<phase, plan, place, lock, job, at, todo, undo, copy, sheet, forced, torn>>
  BY DEF WriteFails, GoTo, docs, locks, ofProcess
<1>3. Skeleton'
  <2>1. Typed' BY <1>1, <1>2 DEF Typed, Steps
  <2>2. Locked' BY <1>1, <1>2 DEF Locked, Under, Typed
  <2>3. Jobs' BY <1>1, <1>2 DEF Jobs, Writing, Under, Asking, Typed
  <2> QED BY <2>1, <2>2, <2>3 DEF Skeleton
<1>4. Repairs' BY <1>1, <1>2, NoRepair DEF Fixing
<1>5. Calm BY <1>1, <1>2 DEF Calm, Writing, Typed
<1> QED BY <1>3, <1>4, <1>5, CalmKeeps DEF PFInv

---------------------------------------------------------------------------
(* The ends of a command.                                                  *)

LEMMA AgreesWithMore ==
    ASSUME NEW doc, NEW pl, NEW T, NEW U, T \subseteq U, Agrees(doc, pl, T)
    PROVE  Agrees(doc, pl, U)
BY DEF Agrees

\* Documents without a difference are the same.
LEMMA NothingElsewhere ==
    ASSUME Typed, NEW doc \in Doc, NEW pl \in PlanDocs, Elsewhere(<<>>, doc, pl)
    PROVE  doc = phase /\ pl = plan
<1>1. \A path \in Paths : Has(doc, pl, path) = Now(path) BY NoChanges DEF Elsewhere
<1>2. pl = plan BY <1>1 DEF Paths, Has, Now
<1>3. \A i \in Phases : doc[i] = phase[i] BY <1>1, PlanFilesAssumption DEF Paths, Has, Now
<1> QED BY <1>2, <1>3 DEF Typed, Doc

\* What a writer leaves behind that comes to its end, or stops anywhere.
LEMMA WhatIsLeft ==
    ASSUME Skeleton, NEW p \in Procs, Writing(p), WriterOK(p)
    PROVE  /\ pc[p] = "write" /\ todo[p] = <<>> => Agrees(phase, plan, torn \ Mends(p))
           /\ undo[p] = <<>> => Agrees(phase, plan, torn)
           /\ Agrees(phase, plan, torn \cup Torn(p))
<1>0. Typed BY DEF Skeleton
<1>1. ASSUME pc[p] = "write", todo[p] = <<>> PROVE Agrees(phase, plan, torn \ Mends(p))
  <2>1. PICK doc \in Doc, pl \in PlanDocs :
            After(todo[p], doc, pl) /\ Agrees(doc, pl, torn \ Mends(p))
    BY <1>1 DEF WriterOK, CanGoOn
  <2>2. doc = phase /\ pl = plan BY <1>0, <1>1, <2>1, NothingElsewhere DEF After
  <2> QED BY <2>1, <2>2
<1>2. ASSUME undo[p] = <<>> PROVE Agrees(phase, plan, torn)
  <2>1. PICK doc \in Doc, pl \in PlanDocs : Before(undo[p], doc, pl) /\ Agrees(doc, pl, torn)
    BY DEF WriterOK, CanGoBack
  <2>2. doc = phase /\ pl = plan BY <1>0, <1>2, <2>1, NothingElsewhere DEF Before
  <2> QED BY <2>1, <2>2
<1>3. ASSUME Half(p) PROVE Agrees(phase, plan, torn \cup {job[p].id, PlanMd})
  <2>1. PICK doc \in Doc, pl \in PlanDocs : Before(undo[p], doc, pl) /\ Agrees(doc, pl, torn)
    BY DEF WriterOK, CanGoBack
  <2>2. job[p].cmd # "edit plan" BY <1>3 DEF Half, WriterOK, Laid
  <2> SUFFICES ASSUME NEW i \in Phases, i \notin torn, i # job[p].id
               PROVE  plan.list[i] = Checklist(phase)[i]
    BY DEF Agrees
  <2>3. pl.list[i] = Checklist(doc)[i] BY <2>1 DEF Agrees
  <2>4. doc[i] = phase[i]
    <3>1. \A c \in Elems(undo[p]) : c.path # i
      BY <2>2, PlanFilesAssumption DEF WriterOK, Laid, About
    <3> QED BY <3>1, <2>1, PlanFilesAssumption DEF Before, Elsewhere, Has, Now, Paths
  <2>5. pl.list[i] = plan.list[i]
    <3>1. CASE \E c \in Elems(undo[p]) : c.path = PlanMd
      <4>1. PICK c \in Elems(undo[p]) : c.path = PlanMd BY <3>1
      <4>2. pl = c.old /\ plan = c.new BY <4>1, <2>1 DEF Before, WriterOK, Laid, Has, Now
      <4>3. c.path = job[p].id \/ \A k \in Phases \ {job[p].id} : c.new.list[k] = c.old.list[k]
        BY <2>2 DEF WriterOK, Laid, About
      <4>4. CASE c.path = job[p].id
        <5>1. job[p].id \in Phases BY <2>2 DEF Skeleton, Jobs, Kept
        <5> QED BY <4>1, <4>4, <5>1, PlanFilesAssumption
      <4> QED BY <4>2, <4>3, <4>4
    <3>2. CASE \A c \in Elems(undo[p]) : c.path # PlanMd
      BY <3>2, <2>1 DEF Before, Elsewhere, Has, Now, Paths
    <3> QED BY <3>1, <3>2
  <2>6. Checklist(doc)[i] = Checklist(phase)[i] BY <2>4 DEF Checklist
  <2> QED BY <2>3, <2>5, <2>6
<1>4. Agrees(phase, plan, torn \cup Torn(p))
  <2>1. CASE Half(p) BY <1>3, <2>1 DEF Torn
  <2>2. CASE ~Half(p)
    <3>1. Agrees(phase, plan, torn)
      <4>1. CASE undo[p] = <<>> BY <1>2, <4>1
      <4>2. CASE undo[p] # <<>>
        <5>1. todo[p] = <<>> /\ pc[p] = "write" BY <2>2, <4>2 DEF Half, Writing
        <5>2. torn \ Mends(p) \subseteq torn OBVIOUS
        <5> QED BY <1>1, <5>1, <5>2, AgreesWithMore
      <4> QED BY <4>1, <4>2
    <3> QED BY <2>2, <3>1 DEF Torn
  <2> QED BY <2>1, <2>2
<1> QED BY <1>1, <1>2, <1>4

\* A process that leaves keeps types, locks and jobs, and ends no repair.
LEMMA LeaveKeepsRest ==
    ASSUME Skeleton, Repairs, NEW p \in Procs, Leave(p), pc[p] # "idle",
           phase' \in Doc, plan' \in PlanDocs,
           place' \in {"none", "plans", "archive"}, place = "none" \/ place' # "none",
           torn' \subseteq Paths, forced' = forced
    PROVE  Skeleton' /\ Repairs'
<1>1. Skeleton' BY LeaveKeeps DEF Paths, Skeleton, Typed
<1>2. \A q \in Procs : ~Fixing(q)'
  <2>1. \A q \in Procs \ {p} : ~Fixing(q) BY DEF Repairs, RepairOK
  <2> QED BY <2>1 DEF Fixing, Leave, Skeleton, Typed
<1> QED BY <1>1, <1>2 DEF Repairs

\* Who leaves without having written anything disturbs nobody.
LEMMA LeaveIsCalm ==
    ASSUME Skeleton, NEW p \in Procs, Leave(p), ~Writing(p), UNCHANGED <<phase, plan, torn, forced>>
    PROVE  Calm
<1>1. todo' = todo /\ undo' = undo BY DEF Skeleton, Jobs, Typed, Leave
<1>2. \A q \in Procs \ {p} : pc'[q] = pc[q] /\ job'[q] = job[q] /\ sheet'[q] = sheet[q]
  BY DEF Skeleton, Typed, Leave
<1>3. pc'[p] = "idle" BY DEF Skeleton, Typed, Leave
<1> QED BY <1>1, <1>2, <1>3 DEF Calm, Writing

\* A writer that leaves documents behind that agree.
LEMMA WriterLeaves ==
    ASSUME PFInv, NEW p \in Procs, Leave(p), Writing(p), UNCHANGED <<phase, plan, place, forced>>,
           torn' \subseteq Paths, Agrees(phase, plan, torn')
    PROVE  PFInv'
<1>1. Skeleton /\ Repairs /\ Typed BY DEF PFInv, Skeleton
<1>2. Skeleton' /\ Repairs'
  <2>1. place = "none" \/ place' # "none" OBVIOUS
  <2> QED BY <1>1, <2>1, LeaveKeepsRest DEF Typed, Writing
<1>3. Quiet' BY <1>1, OneWriter DEF Quiet, Writing, Under, Leave, Typed
<1>4. Agrees(phase, plan, torn)' BY DEF Agrees, Checklist, PlanStatus, AllDone, Present
<1>5. Sound(phase)' BY DEF PFInv, AboutFiles, SoundAround, Sound
<1>6. AboutFiles' BY <1>3, <1>4, <1>5, QuietIsEnough
<1> QED BY <1>2, <1>6 DEF PFInv

LEMMA FinishKeeps == ASSUME PFInv, NEW p \in Procs, Finish(p) PROVE PFInv'
<1>1. /\ Writing(p) /\ Leave(p) /\ UNCHANGED <<phase, plan, place, forced>>
  BY DEF Finish, Writing, docs
<1>2. Skeleton /\ WriterOK(p) /\ torn \subseteq Paths
  BY <1>1 DEF PFInv, AboutFiles, Writers, Skeleton, Typed, Paths
<1>3. CASE pc[p] = "write" /\ todo[p] = <<>>
  <2>1. Agrees(phase, plan, torn \ Mends(p)) BY <1>1, <1>2, <1>3, WhatIsLeft
  <2>2. torn' = torn \ Mends(p) BY <1>3 DEF Finish, Mends
  <2> QED BY <1>1, <1>2, <2>1, <2>2, WriterLeaves
<1>4. CASE pc[p] = "roll back" /\ undo[p] = <<>>
  <2>1. Agrees(phase, plan, torn) /\ torn' = torn BY <1>1, <1>2, <1>4, WhatIsLeft DEF Finish
  <2> QED BY <1>1, <1>2, <2>1, WriterLeaves
<1> QED BY <1>3, <1>4 DEF Finish

\* Who dies, at any step, or cannot put a document back.
LEMMA StopKeeps ==
    ASSUME PFInv, NEW p \in Procs, pc[p] # "idle", Leave(p), UNCHANGED <<phase, plan, place, forced>>,
           torn' = torn \cup Torn(p)
    PROVE  PFInv'
<1>1. Skeleton /\ Typed /\ Repairs /\ AboutFiles BY DEF PFInv, Skeleton
<1>2. CASE Writing(p)
  <2>1. WriterOK(p) BY <1>1, <1>2 DEF AboutFiles, Writers
  <2>2. Agrees(phase, plan, torn') BY <1>1, <1>2, <2>1, WhatIsLeft
  <2>3. torn' \subseteq Paths
    <3>1. Half(p) => job[p].id \in Phases
      <4>1. Half(p) => job[p].cmd # "edit plan" BY <1>2, <2>1 DEF Half, WriterOK, Laid
      <4> QED BY <1>1, <1>2, <4>1 DEF Skeleton, Jobs, Kept
    <3> QED BY <1>1, <3>1 DEF Torn, Typed, Paths
  <2> QED BY <1>2, <2>2, <2>3, WriterLeaves
<1>3. CASE ~Writing(p)
  <2>1. torn' = torn
    <3>1. ~Half(p) BY <1>1, <1>3 DEF Half, Skeleton, Jobs
    <3> QED BY <3>1 DEF Torn
  <2>2. Calm BY <1>1, <1>3, <2>1, LeaveIsCalm
  <2>3. Skeleton' /\ Repairs'
    <3>1. place = "none" \/ place' # "none" OBVIOUS
    <3> QED BY <1>1, <2>1, <3>1, LeaveKeepsRest DEF Typed, Paths
  <2> QED BY <1>1, <2>2, <2>3, CalmKeeps DEF PFInv
<1> QED BY <1>2, <1>3

LEMMA RollBackFailsKeeps == ASSUME PFInv, NEW p \in Procs, RollBackFails(p) PROVE PFInv'
BY StopKeeps DEF RollBackFails, docs

LEMMA CrashKeeps == ASSUME PFInv, NEW p \in Procs, Crash(p) PROVE PFInv'
BY StopKeeps DEF Crash, docs

LEMMA GiveUpKeeps == ASSUME PFInv, NEW p \in Procs, GiveUp(p) PROVE PFInv'
<1>1. Skeleton /\ Typed /\ Repairs /\ AboutFiles BY DEF PFInv, Skeleton
<1>2. Leave(p) /\ ~Writing(p) /\ pc[p] # "idle" /\ UNCHANGED <<phase, plan, place, torn, forced>>
  BY DEF GiveUp, Writing, docs
<1>3. Skeleton' /\ Repairs'
  <2>1. place = "none" \/ place' # "none" BY <1>2
  <2> QED BY <1>1, <1>2, <2>1, LeaveKeepsRest DEF Typed, Paths
<1> QED BY <1>1, <1>2, <1>3, LeaveIsCalm, CalmKeeps DEF PFInv

LEMMA ArchiveKeeps == ASSUME PFInv, NEW p \in Procs, Archive(p) PROVE PFInv'
<1>1. Skeleton /\ Typed /\ Repairs /\ AboutFiles BY DEF PFInv, Skeleton
<1>2. Leave(p) /\ ~Writing(p) /\ pc[p] # "idle" /\ UNCHANGED <<phase, plan, torn, forced>>
  BY DEF Archive, Reads, Writing
<1>3. Skeleton' /\ Repairs'
  <2>1. place' = "archive" BY DEF Archive
  <2> QED BY <1>1, <1>2, <2>1, LeaveKeepsRest DEF Typed, Paths
<1> QED BY <1>1, <1>2, <1>3, LeaveIsCalm, CalmKeeps DEF PFInv

---------------------------------------------------------------------------
(* Steps before a command reads.                                           *)

\* Moving on under a lock or towards it.
LEMMA MoveKeeps ==
    ASSUME PFInv, NEW p \in Procs, NEW to, to \in Steps \ {"write", "roll back", "look", "scan", "repair"},
           pc' = [pc EXCEPT ![p] = to], pc[p] # "idle", ~Writing(p), ~Fixing(p),
           UNCHANGED <<phase, plan, place, torn, forced, job, todo, undo, copy, sheet>>,
           at' = [q \in Procs |-> at'[q]], lock' \in Procs \cup {Nobody}, Locked', Jobs'
    PROVE  PFInv'
<1>1. Skeleton /\ Typed /\ Repairs /\ AboutFiles BY DEF PFInv, Skeleton
<1>2. Typed' BY <1>1 DEF Typed, Steps
<1>3. Repairs' BY <1>1, NoRepair DEF Typed
<1>4. Calm BY <1>1 DEF Calm, Writing, Typed
<1> QED BY <1>1, <1>2, <1>3, <1>4, CalmKeeps DEF PFInv, Skeleton

LEMMA LockDirectoryKeeps == ASSUME PFInv, NEW p \in Procs, LockDirectory(p) PROVE PFInv'
<1>1. Typed /\ Locked /\ Jobs BY DEF PFInv, Skeleton
<1>2. /\ pc[p] = "ask directory" /\ pc' = [pc EXCEPT ![p] = "find again"]
      /\ UNCHANGED <<phase, plan, place, lock, torn, forced, job, at, todo, undo, copy, sheet>>
  BY DEF LockDirectory, GoTo, docs, ofProcess
<1>3. Locked' BY <1>1, <1>2 DEF Locked, Under, Typed
<1>4. Jobs' BY <1>1, <1>2 DEF Jobs, Asking, Writing, Under, Typed
<1>5. "find again" \in Steps \ {"write", "roll back", "look", "scan", "repair"} BY DEF Steps
<1>6. at' = [q \in Procs |-> at'[q]] BY <1>1, <1>2 DEF Typed
<1>7. lock' \in Procs \cup {Nobody} BY <1>1, <1>2 DEF Typed
<1>8. ~Writing(p) /\ ~Fixing(p) /\ pc[p] # "idle" BY <1>2 DEF Writing, Fixing
<1> QED BY <1>2, <1>3, <1>4, <1>5, <1>6, <1>7, <1>8, MoveKeeps

LEMMA FindAgainKeeps == ASSUME PFInv, NEW p \in Procs, FindAgain(p) PROVE PFInv'
<1>1. Typed /\ Locked /\ Jobs BY DEF PFInv, Skeleton
<1>2. /\ pc[p] = "find again" /\ pc' = [pc EXCEPT ![p] = "open"]
      /\ job[p].cmd = "archive" /\ place = "plans" /\ at' = [at EXCEPT ![p] = place]
      /\ UNCHANGED <<phase, plan, place, lock, torn, forced, job, todo, undo, copy, sheet>>
  BY DEF FindAgain, GoTo, docs, locks, StillToArchive
<1>3. Locked' BY <1>1, <1>2 DEF Locked, Under, Typed
<1>4. Jobs' BY <1>1, <1>2 DEF Jobs, Asking, Writing, Under, Typed
<1>5. "open" \in Steps \ {"write", "roll back", "look", "scan", "repair"} BY DEF Steps
<1>6. at' = [q \in Procs |-> at'[q]] BY <1>1, <1>2 DEF Typed
<1>7. lock' \in Procs \cup {Nobody} BY <1>1, <1>2 DEF Typed
<1>8. ~Writing(p) /\ ~Fixing(p) /\ pc[p] # "idle" BY <1>2 DEF Writing, Fixing
<1> QED BY <1>2, <1>3, <1>4, <1>5, <1>6, <1>7, <1>8, MoveKeeps

LEMMA OpenKeeps == ASSUME PFInv, NEW p \in Procs, Open(p) PROVE PFInv'
<1>1. Typed /\ Locked /\ Jobs BY DEF PFInv, Skeleton
<1>2. /\ pc[p] = "open" /\ pc' = [pc EXCEPT ![p] = "wait"]
      /\ UNCHANGED <<phase, plan, place, lock, torn, forced, job, at, todo, undo, copy, sheet>>
  BY DEF Open, GoTo, docs, locks, ofProcess
<1>3. Locked' BY <1>1, <1>2 DEF Locked, Under, Typed
<1>4. Jobs' BY <1>1, <1>2 DEF Jobs, Asking, Writing, Under, Typed
<1>5. "wait" \in Steps \ {"write", "roll back", "look", "scan", "repair"} BY DEF Steps
<1>6. at' = [q \in Procs |-> at'[q]] BY <1>1, <1>2 DEF Typed
<1>7. lock' \in Procs \cup {Nobody} BY <1>1, <1>2 DEF Typed
<1>8. ~Writing(p) /\ ~Fixing(p) /\ pc[p] # "idle" BY <1>2 DEF Writing, Fixing
<1> QED BY <1>2, <1>3, <1>4, <1>5, <1>6, <1>7, <1>8, MoveKeeps

LEMMA LockPlanKeeps == ASSUME PFInv, NEW p \in Procs, LockPlan(p) PROVE PFInv'
<1>1. Typed /\ Locked /\ Jobs BY DEF PFInv, Skeleton
<1>2. /\ pc[p] = "wait" /\ pc' = [pc EXCEPT ![p] = "judge"] /\ lock = Nobody /\ lock' = p
      /\ UNCHANGED <<phase, plan, place, torn, forced, job, at, todo, undo, copy, sheet>>
  BY DEF LockPlan, GoTo, docs, ofProcess
<1>3. Locked' BY <1>1, <1>2, PlanFilesAssumption DEF Locked, Under, Typed
<1>4. Jobs' BY <1>1, <1>2 DEF Jobs, Asking, Writing, Under, Typed
<1>5. "judge" \in Steps \ {"write", "roll back", "look", "scan", "repair"} BY DEF Steps
<1>6. at' = [q \in Procs |-> at'[q]] BY <1>1, <1>2 DEF Typed
<1>7. lock' \in Procs \cup {Nobody} BY <1>1, <1>2 DEF Typed
<1>8. ~Writing(p) /\ ~Fixing(p) /\ pc[p] # "idle" BY <1>2 DEF Writing, Fixing
<1> QED BY <1>2, <1>3, <1>4, <1>5, <1>6, <1>7, <1>8, MoveKeeps

\* A command begins: what it asks for has the form of a command.
LEMMA StartKeeps ==
    ASSUME PFInv, NEW p \in Procs, NEW step, NEW c, Start(p, step, c),
           step \in {"ask directory", "open"}, c \in Asked,
           step = "open" => /\ place # "none" /\ c.cmd # "register"
                            /\ c.cmd = "edit phase" => sheet[p] \in PhaseSheets
                            /\ c.cmd = "edit plan" => sheet[p] \in PlanSheets,
           \A q \in Procs : ~Fixing(q),
           UNCHANGED <<phase, plan, place, lock, torn, forced, todo, undo, copy, sheet>>
    PROVE  PFInv'
<1>1. Skeleton /\ Typed /\ Locked /\ Jobs /\ Repairs /\ AboutFiles BY DEF PFInv, Skeleton
<1>2. /\ pc[p] = "idle" /\ pc' = [pc EXCEPT ![p] = step]
      /\ job' = [job EXCEPT ![p] = c] /\ at' = [at EXCEPT ![p] = place]
  BY DEF Start, GoTo
<1>3. Typed' BY <1>1, <1>2 DEF Typed, Steps
<1>4. Locked' BY <1>1, <1>2 DEF Locked, Under, Typed
<1>5. Jobs'
  <2> SUFFICES ASSUME NEW q \in Procs
               PROVE  /\ (Asking(q) => job[q] \in Asked)'
                      /\ (Writing(q) => job[q] \in Kept)'
                      /\ (~Writing(q) => todo[q] = <<>> /\ undo[q] = <<>>)'
                      /\ (Under(q) /\ job[q].cmd = "edit phase" => sheet[q] \in PhaseSheets)'
                      /\ (Under(q) /\ job[q].cmd = "edit plan" => sheet[q] \in PlanSheets)'
                      /\ (pc[q] \in {"open", "wait"} /\ job[q].cmd = "edit phase"
                            => sheet[q] \in PhaseSheets)'
                      /\ (pc[q] \in {"open", "wait"} /\ job[q].cmd = "edit plan"
                            => sheet[q] \in PlanSheets)'
                      /\ (Asking(q) /\ job[q].cmd = "register"
                            => pc[q] \in {"ask directory", "find again"})'
    BY DEF Jobs
  <2>1. CASE q = p BY <2>1, <1>1, <1>2 DEF Jobs, Asking, Writing, Under, Typed
  <2>2. CASE q # p
    <3>1. pc'[q] = pc[q] /\ job'[q] = job[q] BY <2>2, <1>1, <1>2 DEF Typed
    <3> QED BY <3>1, <1>1 DEF Jobs, Asking, Writing, Under
  <2> QED BY <2>1, <2>2
<1>6. Repairs' BY <1>1, <1>2 DEF Repairs, Fixing, Typed
<1>7. Calm
  <2>1. \A q \in Procs \ {p} : pc'[q] = pc[q] /\ job'[q] = job[q] BY <1>1, <1>2 DEF Typed
  <2>2. pc'[p] = step BY <1>1, <1>2 DEF Typed
  <2> QED BY <1>2, <2>1, <2>2 DEF Calm, Writing
<1> QED BY <1>1, <1>3, <1>4, <1>5, <1>6, <1>7, CalmKeeps DEF PFInv, Skeleton

LEMMA FindKeeps == ASSUME PFInv, ~FixBeside, NEW p \in Procs, Find(p) PROVE PFInv'
<1>1. PICK c \in Commands(p) :
        /\ place # "none" /\ HasSheet(p, c) /\ \A q \in Procs : ~Fixing(q)
        /\ Start(p, IF c.cmd = "archive" THEN "ask directory" ELSE "open", c)
        /\ UNCHANGED <<docs, locks, todo, undo, copy, sheet, forced, torn>>
  BY DEF Find, MayStartBesides
<1>2. c \in Asked /\ c.cmd # "register" BY CommandsAsked
<1>3. sheet[p] \in PhaseSheets \cup PlanSheets \cup {Absent} BY DEF PFInv, Skeleton, Typed
<1>4. c.cmd = "edit phase" => sheet[p] \in PhaseSheets BY <1>1, <1>3 DEF HasSheet, PlanSheets
<1>5. c.cmd = "edit plan" => sheet[p] \in PlanSheets
  BY <1>1, <1>3, PlanFilesAssumption DEF HasSheet, PhaseSheets
<1>6. UNCHANGED <<phase, plan, place, lock, torn, forced, todo, undo, copy, sheet>>
  BY <1>1 DEF docs, locks
<1> DEFINE step == IF c.cmd = "archive" THEN "ask directory" ELSE "open"
<1>7. Start(p, step, c) /\ step \in {"ask directory", "open"} BY <1>1
<1> HIDE DEF step
<1> QED BY <1>1, <1>2, <1>4, <1>5, <1>6, <1>7, StartKeeps

LEMMA RegisterKeeps == ASSUME PFInv, NEW p \in Procs, Register(p) PROVE PFInv'
<1>1. [cmd |-> "register"] \in Asked
  <2>1. [cmd |-> "register"] \in [cmd : {"edit plan", "archive", "register"}] OBVIOUS
  <2> QED BY <2>1 DEF Asked
<1>2. \A q \in Procs : ~Fixing(q) BY DEF Register, PFInv, Skeleton, Locked, Fixing
<1>3. UNCHANGED <<phase, plan, place, lock, torn, forced, todo, undo, copy, sheet>>
  BY DEF Register, docs, locks
<1>4. Start(p, "ask directory", [cmd |-> "register"]) BY DEF Register
<1> QED BY <1>1, <1>2, <1>3, <1>4, StartKeeps

LEMMA CheckoutKeeps == ASSUME PFInv, NEW p \in Procs, Checkout(p) PROVE PFInv'
<1>1. Skeleton /\ Typed /\ Locked /\ Jobs /\ Repairs /\ AboutFiles BY DEF PFInv, Skeleton
<1>2. PICK path \in Phases \cup {PlanMd} :
        /\ pc[p] = "idle"
        /\ path # PlanMd => phase[path] # Absent
        /\ sheet' = [sheet EXCEPT ![p] =
                [path |-> path, base |-> IF path = PlanMd THEN plan ELSE phase[path]]]
  BY DEF Checkout
<1>3. UNCHANGED <<phase, plan, place, lock, pc, job, at, todo, undo, copy, torn, forced>>
  BY DEF Checkout, docs, locks, ofProcess
<1>4. Typed'
  <2>1. [path |-> path, base |-> IF path = PlanMd THEN plan ELSE phase[path]]
            \in PhaseSheets \cup PlanSheets
    BY <1>1, <1>2 DEF Typed, Doc, PhaseSheets, PlanSheets
  <2>2. sheet' \in [Procs -> PhaseSheets \cup PlanSheets \cup {Absent}] BY <1>1, <1>2, <2>1 DEF Typed
  <2> QED BY <1>1, <1>3, <2>2 DEF Typed
<1>5. \A q \in Procs : pc[q] # "idle" => sheet'[q] = sheet[q] BY <1>1, <1>2 DEF Typed
<1>6. Locked' BY <1>1, <1>3 DEF Locked, Under
<1>7. Jobs' BY <1>1, <1>3, <1>5 DEF Jobs, Asking, Writing, Under
<1>8. Repairs' BY <1>1, <1>3 DEF Repairs, Fixing, RepairOK, Reading, Unread
<1>9. Calm BY <1>3, <1>5 DEF Calm, Writing
<1> QED BY <1>1, <1>4, <1>6, <1>7, <1>8, <1>9, CalmKeeps DEF PFInv, Skeleton

---------------------------------------------------------------------------
(* The repair.                                                             *)

\* A step of the repair but its last one.
LEMMA LookKeeps ==
    ASSUME PFInv, NEW p \in Procs, NEW to \in {"look", "scan", "repair"}, ~Writing(p), ~Under(p),
           pc' = [pc EXCEPT ![p] = to], place # "none",
           \A q \in Procs \ {p} : pc[q] = "idle",
           job' = [q \in Procs |-> job'[q]], at' = [q \in Procs |-> at'[q]],
           copy' = [q \in Procs |-> copy'[q]],
           \A q \in Procs \ {p} : job'[q] = job[q],
           UNCHANGED <<phase, plan, place, lock, torn, forced, todo, undo, sheet>>, RepairOK(p)'
    PROVE  PFInv'
<1>1. Skeleton /\ Typed /\ Locked /\ Jobs /\ Repairs /\ AboutFiles BY DEF PFInv, Skeleton
<1>2. pc'[p] = to /\ \A q \in Procs \ {p} : pc'[q] = "idle" BY <1>1 DEF Typed
<1>3. Typed' BY <1>1 DEF Typed, Steps
<1>4. Locked' BY <1>1, <1>2 DEF Locked, Under
<1>5. Jobs' BY <1>1, <1>2 DEF Jobs, Asking, Writing, Under
<1>6. Repairs' BY <1>2 DEF Repairs, Fixing
<1>7. Calm BY <1>2 DEF Calm, Writing
<1> QED BY <1>1, <1>3, <1>4, <1>5, <1>6, <1>7, CalmKeeps DEF PFInv, Skeleton

LEMMA FixReadKeeps == ASSUME PFInv, ~FixBeside, NEW p \in Procs, FixRead(p) PROVE PFInv'
<1>1. Typed BY DEF PFInv, Skeleton
<1>2. /\ \A q \in Procs : pc[q] = "idle"
      /\ place # "none"
      /\ pc' = [pc EXCEPT ![p] = "look"] /\ job' = [job EXCEPT ![p] = [cmd |-> "fix"]]
      /\ at' = [at EXCEPT ![p] = place] /\ copy' = [copy EXCEPT ![p] = [plan |-> plan]]
      /\ UNCHANGED <<phase, plan, place, lock, torn, forced, todo, undo, sheet>>
  BY DEF FixRead, Start, GoTo, docs, locks
<1>3. RepairOK(p)'
  <2>1. copy'[p] = [plan |-> plan] /\ pc'[p] = "look" /\ \A q \in Procs \ {p} : pc'[q] = "idle"
    BY <1>1, <1>2 DEF Typed
  <2>2. [plan |-> plan] \in [plan : PlanDocs] BY <1>1 DEF Typed
  <2> QED BY <1>2, <2>1, <2>2 DEF RepairOK, Reading
<1>4. /\ job' = [q \in Procs |-> job'[q]] /\ at' = [q \in Procs |-> at'[q]]
      /\ copy' = [q \in Procs |-> copy'[q]] /\ \A q \in Procs \ {p} : job'[q] = job[q]
  BY <1>1, <1>2 DEF Typed
<1>5. ~Writing(p) /\ ~Under(p) BY <1>2 DEF Writing, Under
<1> QED BY <1>2, <1>3, <1>4, <1>5, LookKeeps

LEMMA FixListKeeps == ASSUME PFInv, NEW p \in Procs, FixList(p) PROVE PFInv'
<1>1. Typed BY DEF PFInv, Skeleton
<1> DEFINE new == [plan |-> copy[p].plan, ids |-> Present(phase), doc |-> [i \in Phases |-> Absent]]
<1>2. /\ pc[p] = "look" /\ pc' = [pc EXCEPT ![p] = "scan"] /\ copy' = [copy EXCEPT ![p] = new]
      /\ UNCHANGED <<phase, plan, place, lock, torn, forced, job, at, todo, undo, sheet>>
  BY DEF FixList, GoTo, docs, locks
<1>3. RepairOK(p) BY <1>2 DEF PFInv, Repairs, Fixing
<1>4. RepairOK(p)'
  <2>1. copy'[p] = new /\ pc'[p] = "scan" /\ \A q \in Procs \ {p} : pc'[q] = pc[q]
    BY <1>1, <1>2 DEF Typed
  <2>2. copy[p].plan \in PlanDocs BY <1>1, <1>3 DEF RepairOK, Typed
  <2>3. new \in [plan : PlanDocs, ids : SUBSET Phases, doc : Doc]
    BY <2>2 DEF Present, Doc
  <2> QED BY <1>2, <1>3, <2>1, <2>3 DEF RepairOK, Reading
<1>5. /\ job' = [q \in Procs |-> job'[q]] /\ at' = [q \in Procs |-> at'[q]]
      /\ copy' = [q \in Procs |-> copy'[q]]
  BY <1>1, <1>2 DEF Typed
<1>6. ~Writing(p) /\ ~Under(p) BY <1>2 DEF Writing, Under
<1>7. place # "none" /\ \A q \in Procs \ {p} : pc[q] = "idle" BY <1>3 DEF RepairOK
<1> QED BY <1>2, <1>4, <1>5, <1>6, <1>7, LookKeeps

LEMMA FixPhaseKeeps == ASSUME PFInv, NEW p \in Procs, FixPhase(p) PROVE PFInv'
<1>1. Typed BY DEF PFInv, Skeleton
<1>2. PICK i \in Unread(p) :
        /\ pc[p] = "scan" /\ phase[i] # Absent
        /\ copy' = [copy EXCEPT ![p].doc[i] = phase[i]]
        /\ pc' = [pc EXCEPT ![p] = IF Unread(p) = {i} THEN "repair" ELSE "scan"]
        /\ UNCHANGED <<phase, plan, place, lock, torn, forced, job, at, todo, undo, sheet>>
  BY DEF FixPhase, docs, locks
<1>3. RepairOK(p) /\ Reading(p) BY <1>2 DEF PFInv, Repairs, Fixing, Reading
<1>4. /\ copy[p] \in [plan : PlanDocs, ids : SUBSET Phases, doc : Doc]
      /\ copy[p].ids = Present(phase) /\ copy[p].plan = plan
      /\ \A k \in Phases : copy[p].doc[k] \in {Absent, phase[k]}
      /\ place # "none" /\ \A q \in Procs \ {p} : pc[q] = "idle"
  BY <1>3 DEF RepairOK
<1>5. i \in Phases BY <1>4 DEF Unread
<1> DEFINE new == [copy[p] EXCEPT !.doc[i] = phase[i]]
<1>6. copy'[p] = new /\ \A q \in Procs \ {p} : pc'[q] = pc[q] BY <1>1, <1>2 DEF Typed
<1>7. new.plan = plan /\ new.ids = Present(phase) /\ new.doc = [copy[p].doc EXCEPT ![i] = phase[i]]
  BY <1>4
<1>8. new \in [plan : PlanDocs, ids : SUBSET Phases, doc : Doc]
  <2>1. new.doc \in Doc BY <1>1, <1>4, <1>7, <1>5 DEF Typed, Doc
  <2> QED BY <1>4, <1>7, <2>1
<1> HIDE DEF new
<1>9. \A k \in Phases : new.doc[k] \in {Absent, phase[k]} BY <1>4, <1>7 DEF Doc
<1>10. pc'[p] = "repair" => Unread(p)' = {}
  <2>1. ASSUME Unread(p) = {i}, NEW k \in Unread(p)' PROVE FALSE
    <3>1. k \in Present(phase) /\ new.doc[k] = Absent BY <1>6, <1>7 DEF Unread
    <3>2. k \in Phases BY <3>1 DEF Present
    <3>3. k # i BY <3>1, <3>2, <1>2, <1>4, <1>7 DEF Doc
    <3>4. k \in Unread(p) BY <3>1, <3>2, <3>3, <1>4, <1>7 DEF Unread, Doc
    <3> QED BY <2>1, <3>3, <3>4
  <2>2. pc'[p] = "repair" => Unread(p) = {i} BY <1>1, <1>2 DEF Typed
  <2> QED BY <2>1, <2>2
<1>11. pc'[p] \in {"scan", "repair"} BY <1>1, <1>2 DEF Typed
<1>12. RepairOK(p)'
  BY <1>2, <1>4, <1>6, <1>7, <1>8, <1>9, <1>10, <1>11 DEF RepairOK, Reading
<1>13. /\ job' = [q \in Procs |-> job'[q]] /\ at' = [q \in Procs |-> at'[q]]
       /\ copy' = [q \in Procs |-> copy'[q]]
  BY <1>1, <1>2 DEF Typed
<1>14. ~Writing(p) /\ ~Under(p) BY <1>2 DEF Writing, Under
<1> DEFINE to == IF Unread(p) = {i} THEN "repair" ELSE "scan"
<1>15. to \in {"look", "scan", "repair"} /\ pc' = [pc EXCEPT ![p] = to] BY <1>2
<1> HIDE DEF to
<1> QED BY <1>2, <1>4, <1>12, <1>13, <1>14, <1>15, LookKeeps

\* What the repair writes is the checklist of the phases that are there.
LEMMA FixWriteKeeps == ASSUME PFInv, NEW p \in Procs, FixWrite(p) PROVE PFInv'
<1>1. Skeleton /\ Typed /\ Repairs /\ AboutFiles BY DEF PFInv, Skeleton
<1>2. /\ pc[p] = "repair" /\ plan' = Repaired(p) /\ torn' = torn \cap {PlanMd}
      /\ Leave(p) /\ UNCHANGED <<phase, place, forced>>
  BY DEF FixWrite
<1>3. RepairOK(p) /\ Reading(p) BY <1>1, <1>2 DEF Repairs, Fixing, Reading
<1>4. /\ copy[p] \in [plan : PlanDocs, ids : SUBSET Phases, doc : Doc]
      /\ copy[p].ids = Present(phase) /\ copy[p].plan = plan /\ Unread(p) = {}
      /\ \A k \in Phases : copy[p].doc[k] \in {Absent, phase[k]}
      /\ \A q \in Procs \ {p} : pc[q] = "idle"
  BY <1>2, <1>3 DEF RepairOK
<1>5. copy[p].doc = phase
  <2>1. ASSUME NEW k \in Phases PROVE copy[p].doc[k] = phase[k]
    <3>1. CASE k \in Present(phase) BY <3>1, <1>4 DEF Unread
    <3>2. CASE k \notin Present(phase) BY <3>2, <1>4 DEF Present
    <3> QED BY <3>1, <3>2
  <2>2. copy[p].doc \in Doc BY <1>4
  <2> QED BY <2>1, <2>2, <1>1 DEF Typed, Doc
<1>6. plan' = [plan EXCEPT !.list = Checklist(phase)] BY <1>2, <1>4, <1>5 DEF Repaired
<1>7. Checklist(phase) \in [Phases -> Entries \cup {Absent}]
  BY <1>1 DEF Checklist, Entry, Entries, Typed, Doc, PhaseDocs
<1>8. plan' \in PlanDocs /\ plan'.list = Checklist(phase) /\ plan'.status = plan.status
  BY <1>1, <1>6, <1>7 DEF Typed, PlanDocs
<1>9. Skeleton' /\ Repairs'
  <2>1. pc[p] # "idle" /\ (place = "none" \/ place' # "none") BY <1>2
  <2>2. phase' \in Doc /\ place' \in {"none", "plans", "archive"} /\ torn' \subseteq Paths
    BY <1>1, <1>2 DEF Typed, Paths
  <2> QED BY <1>1, <1>2, <1>8, <2>1, <2>2, LeaveKeepsRest
<1>10. Quiet /\ Quiet' BY <1>1, <1>2, <1>4 DEF Quiet, Writing, Leave, Typed
<1>11. Agrees(phase, plan, torn)'
  <2>1. Agrees(phase, plan, torn) BY <1>1, <1>10 DEF AboutFiles, AgreeAtRest
  <2>2. \A k \in Phases : plan'.list[k] = Checklist(phase')[k] BY <1>2, <1>8
  <2>3. PlanMd \notin torn' => plan'.status = PlanStatus(phase') BY <1>2, <1>8, <2>1 DEF Agrees
  <2> QED BY <2>2, <2>3 DEF Agrees
<1>12. Sound(phase)' BY <1>1, <1>2 DEF AboutFiles, SoundAround, Sound
<1> QED BY <1>9, <1>10, <1>11, <1>12, QuietIsEnough DEF PFInv

\* A plan is registered with phases that are planned and sound.
LEMMA RegisteredKeeps == ASSUME PFInv, NEW p \in Procs, Registered(p) PROVE PFInv'
<1>1. Skeleton /\ Typed /\ Locked /\ Repairs BY DEF PFInv, Skeleton
<1>2. /\ pc[p] = "find again" /\ place = "none" /\ phase' \in Drafts
      /\ plan' = [status |-> "in-progress", list |-> Checklist(phase'), prose |-> "as registered"]
      /\ place' = "plans" /\ Leave(p) /\ UNCHANGED <<forced, torn>>
  BY DEF Registered
<1>3. /\ phase' \in Doc /\ Defined(phase') /\ Cyclefree(phase')
      /\ \A i \in Present(phase') : phase'[i].status = "planned"
  BY <1>2, DraftsAssumption DEF ValidDependencies, Doc
<1>4. Checklist(phase') \in [Phases -> Entries \cup {Absent}]
  BY <1>3 DEF Checklist, Entry, Entries, Doc, PhaseDocs
<1>5. plan' \in PlanDocs /\ plan'.list = Checklist(phase') /\ plan'.status = "in-progress"
  BY <1>2, <1>4 DEF PlanDocs
<1>6. Skeleton' /\ Repairs'
  <2>1. pc[p] # "idle" /\ (place = "none" \/ place' # "none") /\ forced' = forced BY <1>2
  <2>2. place' \in {"none", "plans", "archive"} /\ torn' \subseteq Paths
    BY <1>1, <1>2 DEF Typed, Paths
  <2> QED BY <1>1, <1>2, <1>3, <1>5, <2>1, <2>2, LeaveKeepsRest
<1>7. Quiet' BY <1>1, <1>2 DEF Quiet, Writing, Leave, Typed, Locked
<1>8. Agrees(phase, plan, torn)'
  <2>1. PlanStatus(phase') = "in-progress" BY <1>3 DEF PlanStatus, AllDone
  <2> QED BY <1>5, <2>1 DEF Agrees
<1>9. Sound(phase)' BY <1>3 DEF Sound
<1> QED BY <1>6, <1>7, <1>8, <1>9, QuietIsEnough DEF PFInv

---------------------------------------------------------------------------
(* The number of a new phase.                                              *)

LEMMA Least == ASSUME NEW T, T \subseteq Nat, T # {} PROVE \E n \in T : \A k \in T : n <= k
<1>1. \E n \in T : \A k \in T : <<k, n>> \notin OpToRel(<, Nat)
  BY NatLessThanWellFounded, WFMin, Zenon
<1>2. PICK n \in T : \A k \in T : <<k, n>> \notin OpToRel(<, Nat) BY <1>1
<1>3. ASSUME NEW k \in T, k < n PROVE FALSE
  <2>1. <<k, n>> \in Nat \X Nat BY <1>2
  <2>2. <<k, n>> \in OpToRel(<, Nat) BY <2>1, <1>3 DEF OpToRel
  <2> QED BY <2>2, <1>2
<1>4. ASSUME NEW k \in T PROVE n <= k
  <2>1. k \in Nat /\ n \in Nat /\ ~(k < n) BY <1>3
  <2> QED BY <2>1
<1> QED BY <1>4

\* The next number is free: it is above every phase that is there.
LEMMA NextIsFree ==
    ASSUME NEW doc, NextPhaseID(doc) \in Phases PROVE doc[NextPhaseID(doc)] = Absent
<1> DEFINE N == Cardinality(Phases)
           T == {n \in 0..N : \A i \in Present(doc) : i < n}
           Fits(n) == (\A i \in Present(doc) : i < n) /\ (n = 0 \/ n - 1 \in Present(doc))
<1>1. N \in Nat /\ Phases = 0..N - 1 BY PlanFilesAssumption, FS_CardinalityType
<1>2. Present(doc) \subseteq Phases BY DEF Present
<1>3. N \in T BY <1>1, <1>2
<1>4. PICK n \in T : \A k \in T : n <= k
  <2>1. T \subseteq Nat /\ T # {} BY <1>1, <1>3
  <2> HIDE DEF T
  <2> QED BY <2>1, Least
<1>5. Fits(n)
  <2>1. n = 0 \/ n - 1 \in Present(doc)
    <3> SUFFICES ASSUME n # 0, n - 1 \notin Present(doc) PROVE FALSE OBVIOUS
    <3>1. n - 1 \in 0..N BY <1>1
    <3>2. \A i \in Present(doc) : i < n - 1 BY <1>1, <1>2
    <3> QED BY <3>1, <3>2, <1>1, <1>4
  <2> QED BY <2>1
<1>6. \E m \in 0..N : Fits(m) BY <1>5
<1>7. NextPhaseID(doc) = CHOOSE m \in 0..N : Fits(m) BY DEF NextPhaseID
<1>8. Fits(NextPhaseID(doc)) BY <1>6, <1>7
<1>9. NextPhaseID(doc) \notin Present(doc) BY <1>1, <1>2, <1>8
<1> QED BY <1>9 DEF Present

---------------------------------------------------------------------------
(* Laying out the changes of a command.                                    *)

\* What is laid out replaces what is there, by documents that agree.
LEMMA PlansKeeps ==
    ASSUME PFInv, NEW p \in Procs, NEW s \in Seq(Changes), Plans(p, s),
           pc[p] = "judge", job' = [q \in Procs |-> job'[q]], job'[p] \in Kept,
           job'[p].cmd = job[p].cmd, \A q \in Procs \ {p} : job'[q] = job[q],
           forced' \in BOOLEAN, forced => forced', OneEach(s),
           \A c \in Elems(s) : c.old = Now(c.path) /\ About(p, c)',
           \A c \in Elems(s) : c.path \in Phases => (Sound(With(c.path, c.new)))',
           job'[p].cmd = "edit plan" => Tail(s) = <<>>,
           NEW doc \in Doc, NEW pl \in PlanDocs,
           After(s, doc, pl), Agrees(doc, pl, torn \ (Mends(p))'),
           job'[p].cmd = "edit phase" => phase[job'[p].id] = sheet[p].base,
           job'[p].cmd = "edit plan" => plan = sheet[p].base,
           job'[p].cmd = "set" =>
              \/ job'[p].force \/ job'[p].to = "planned"
              \/ \A d \in phase[job'[p].id].deps : phase[d] # Absent /\ phase[d].status = "done"
    PROVE  PFInv'
<1>1. Skeleton /\ Typed /\ Locked /\ Jobs /\ Repairs /\ AboutFiles BY DEF PFInv, Skeleton
<1>2. /\ pc' = [pc EXCEPT ![p] = "write"] /\ todo' = [todo EXCEPT ![p] = s]
      /\ UNCHANGED <<phase, plan, place, lock, at, undo, copy, sheet, torn>>
  BY DEF Plans, GoTo, docs, locks
<1>3. /\ pc'[p] = "write" /\ todo'[p] = s
      /\ \A q \in Procs \ {p} : pc'[q] = pc[q] /\ todo'[q] = todo[q]
  BY <1>1, <1>2 DEF Typed
<1>4. ~Writing(p) /\ Under(p) /\ ~Fixing(p) BY DEF Writing, Under, Fixing
<1>5. undo[p] = <<>> BY <1>1, <1>4 DEF Jobs
<1>6. Skeleton'
  <2>1. Typed' BY <1>1, <1>2 DEF Typed, Steps
  <2>2. Locked' BY <1>1, <1>2, <1>3, <1>4 DEF Locked, Under
  <2>3. Jobs'
    <3> SUFFICES ASSUME NEW q \in Procs
                 PROVE  /\ (Asking(q) => job[q] \in Asked)'
                        /\ (Writing(q) => job[q] \in Kept)'
                        /\ (~Writing(q) => todo[q] = <<>> /\ undo[q] = <<>>)'
                        /\ (Under(q) /\ job[q].cmd = "edit phase" => sheet[q] \in PhaseSheets)'
                        /\ (Under(q) /\ job[q].cmd = "edit plan" => sheet[q] \in PlanSheets)'
                        /\ (pc[q] \in {"open", "wait"} /\ job[q].cmd = "edit phase"
                              => sheet[q] \in PhaseSheets)'
                        /\ (pc[q] \in {"open", "wait"} /\ job[q].cmd = "edit plan"
                              => sheet[q] \in PlanSheets)'
                        /\ (Asking(q) /\ job[q].cmd = "register"
                              => pc[q] \in {"ask directory", "find again"})'
      BY DEF Jobs
    <3>1. CASE q = p BY <3>1, <1>1, <1>2, <1>3, <1>4 DEF Jobs, Asking, Writing, Under
    <3>2. CASE q # p BY <3>2, <1>1, <1>2, <1>3 DEF Jobs, Asking, Writing, Under
    <3> QED BY <3>1, <3>2
  <2> QED BY <2>1, <2>2, <2>3 DEF Skeleton
<1>7. Repairs' BY <1>1, <1>2, <1>4, NoRepair
<1>8. \A q \in Procs : Writing(q)' => q = p BY <1>1, <1>3, <1>4, OneWriter DEF Writing
<1>9. \A path : Now(path)' = Now(path) BY <1>2 DEF Now, Has
<1>10. Quiet BY <1>1, <1>4, OneWriter DEF Quiet
<1>11. WriterOK(p)'
  <2>1. Laid(p)' BY <1>2, <1>3, <1>5, <1>9, NoChanges DEF Laid
  <2>2. CanGoBack(p)'
    <3>1. Agrees(phase, plan, torn) BY <1>1, <1>10 DEF AboutFiles, AgreeAtRest
    <3>2. Before(<<>>, phase, plan) BY NoChanges DEF Before, Elsewhere, Now
    <3>3. Before(undo[p], phase, plan)' BY <1>2, <1>5, <1>9, <3>2 DEF Before, Elsewhere, Now
    <3>4. phase \in Doc /\ plan \in PlanDocs BY <1>1 DEF Typed
    <3>5. Agrees(phase, plan, torn)' BY <3>1, <1>2 DEF Agrees, Checklist, PlanStatus, AllDone, Present
    <3> QED BY <3>3, <3>4, <3>5, <1>2 DEF CanGoBack
  <2>3. CanGoOn(p)'
    <3>1. After(todo[p], doc, pl)' BY <1>3, <1>9 DEF After, Elsewhere
    <3> QED BY <3>1, <1>2 DEF CanGoOn
  <2> QED BY <2>1, <2>2, <2>3, <1>3 DEF WriterOK
<1>12. AboutFiles'
  <2>1. Writers' BY <1>8, <1>11 DEF Writers
  <2>2. AgreeAtRest' BY <1>3 DEF AgreeAtRest, Quiet, Writing
  <2>3. SoundAround'
    <3>1. Sound(phase)' BY <1>1, <1>2 DEF AboutFiles, SoundAround, Sound
    <3>2. SoundBy(p)' BY <1>2, <1>3, <1>5, NoChanges DEF SoundBy
    <3> QED BY <3>1, <3>2, <1>8 DEF SoundAround
  <2>4. EditsOnBase' BY <1>2, <1>8 DEF EditsOnBase, Writing
  <2>5. DependenciesBefore' BY <1>2, <1>8 DEF DependenciesBefore, Writing
  <2> QED BY <2>1, <2>2, <2>3, <2>4, <2>5 DEF AboutFiles
<1> QED BY <1>6, <1>7, <1>12 DEF PFInv

LEMMA OneChange ==
    ASSUME NEW a \in Changes
    PROVE  <<a>> \in Seq(Changes) /\ Elems(<<a>>) = {a} /\ OneEach(<<a>>) /\ Tail(<<a>>) = <<>>
<1>1. <<a>> \in Seq(Changes) /\ Len(<<a>>) = 1 /\ <<a>>[1] = a /\ Tail(<<a>>) = <<>> OBVIOUS
<1>2. 1..1 = {1} OBVIOUS
<1> QED BY <1>1, <1>2 DEF Elems, OneEach

LEMMA TwoChanges ==
    ASSUME NEW a \in Changes, NEW b \in Changes
    PROVE  /\ <<a, b>> \in Seq(Changes) /\ Elems(<<a, b>>) = {a, b}
           /\ a.path # b.path => OneEach(<<a, b>>)
<1>1. <<a, b>> \in Seq(Changes) /\ Len(<<a, b>>) = 2 /\ <<a, b>>[1] = a /\ <<a, b>>[2] = b OBVIOUS
<1>2. 1..2 = {1, 2} OBVIOUS
<1> QED BY <1>1, <1>2 DEF Elems, OneEach

\* When a phase and its entry go together, what agreed goes on agreeing.
LEMMA AgreesWith ==
    ASSUME Typed, NEW T, Agrees(phase, plan, torn), torn \ T \subseteq Paths,
           NEW i \in Phases, NEW d \in PhaseDocs \cup {Absent}, NEW pl \in PlanDocs,
           \A k \in Phases \ {i} : pl.list[k] = plan.list[k],
           \A k \in torn \ T : k \in {i, PlanMd},
           i \notin T => pl.list[i] = IF d = Absent THEN Absent ELSE Entry(d),
           PlanMd \notin T => pl.status = PlanStatus(With(i, d))
    PROVE  Agrees(With(i, d), pl, T)
<1> SUFFICES ASSUME NEW k \in Phases \ T PROVE pl.list[k] = Checklist(With(i, d))[k]
  BY DEF Agrees
<1>1. CASE k = i BY <1>1 DEF Checklist, With, Typed, Doc
<1>2. CASE k # i
  <2>1. k \notin torn BY <1>2, PlanFilesAssumption
  <2>2. plan.list[k] = Checklist(phase)[k] BY <2>1 DEF Agrees
  <2>3. With(i, d)[k] = phase[k] BY <1>2 DEF With, Typed, Doc
  <2> QED BY <1>2, <2>2, <2>3 DEF Checklist
<1> QED BY <1>1, <1>2

\* Dependencies are as sound as they were where none is changed.
LEMMA SameDependencies ==
    ASSUME NEW doc, NEW new, Present(new) = Present(doc), \A i \in Present(doc) : new[i].deps = doc[i].deps
    PROVE  (Cyclefree(doc) => Cyclefree(new)) /\ (Defined(doc) => Defined(new))
<1>1. Defined(doc) => Defined(new) BY DEF Defined
<1>2. ASSUME Cyclefree(doc), NEW S \in (SUBSET Present(new)) \ {{}},
             \A i \in S : new[i].deps \cap S # {}
      PROVE  FALSE
  <2>1. S \in (SUBSET Present(doc)) \ {{}} OBVIOUS
  <2>2. \A i \in S : doc[i].deps = new[i].deps BY <2>1
  <2>3. \A i \in S : doc[i].deps \cap S # {} BY <1>2, <2>2
  <2> QED BY <1>2, <2>1, <2>3 DEF Cyclefree
<1> QED BY <1>1, <1>2 DEF Cyclefree

\* Who reads under the lock finds documents that agree and phases that are
\* sound.
LEMMA WhatIsRead ==
    ASSUME PFInv, NEW p \in Procs, pc[p] = "judge"
    PROVE  /\ Typed /\ Agrees(phase, plan, torn) /\ Sound(phase)
           /\ job[p] \in Asked /\ job = [q \in Procs |-> job[q]]
           /\ job[p].cmd = "edit phase" => sheet[p] \in PhaseSheets
           /\ job[p].cmd = "edit plan" => sheet[p] \in PlanSheets
<1>1. Skeleton /\ Typed /\ Jobs /\ AboutFiles BY DEF PFInv, Skeleton
<1>2. Under(p) /\ ~Writing(p) /\ Asking(p) BY DEF Under, Writing, Asking
<1>3. Quiet BY <1>1, <1>2, OneWriter DEF Quiet
<1> QED BY <1>1, <1>2, <1>3 DEF AboutFiles, AgreeAtRest, SoundAround, Jobs, Typed

\* A command that replaces a phase by d and PLAN.md by pl.
LEMMA PlansBoth ==
    ASSUME PFInv, NEW p \in Procs, pc[p] = "judge",
           NEW i \in Phases, NEW d \in PhaseDocs \cup {Absent}, NEW pl \in PlanDocs,
           NEW x, x = Replace(i, phase[i], d), NEW y, y = Replace(PlanMd, plan, pl),
           NEW s \in {<<x, y>>, <<y, x>>}, Plans(p, s),
           job' = [q \in Procs |-> job'[q]], job'[p] \in Kept,
           job'[p].cmd = job[p].cmd, \A q \in Procs \ {p} : job'[q] = job[q],
           job'[p].cmd # "edit plan", job'[p].id = i,
           forced' \in BOOLEAN, forced => forced', Sound(With(i, d))',
           \A k \in Phases \ {i} : pl.list[k] = plan.list[k],
           i \notin torn \ (Mends(p))' => pl.list[i] = IF d = Absent THEN Absent ELSE Entry(d),
           PlanMd \notin torn \ (Mends(p))' => pl.status = PlanStatus(With(i, d)),
           job'[p].cmd = "edit phase" => phase[job'[p].id] = sheet[p].base,
           job'[p].cmd = "set" =>
              \/ job'[p].force \/ job'[p].to = "planned"
              \/ \A k \in phase[job'[p].id].deps : phase[k] # Absent /\ phase[k].status = "done"
    PROVE  PFInv'
<1>1. Typed /\ Agrees(phase, plan, torn) BY WhatIsRead
<1>2. i # PlanMd BY PlanFilesAssumption
<1>3. /\ x.path = i /\ x.new = d /\ x.old = phase[i]
      /\ y.path = PlanMd /\ y.new = pl /\ y.old = plan
  BY DEF Replace
<1>4. s \in Seq(Changes) /\ OneEach(s) /\ Elems(s) = {x, y}
  <2>1. x \in PhaseChanges /\ y \in PlanChanges
    BY <1>1 DEF Typed, Doc, Replace, PhaseChanges, PlanChanges
  <2>2. x \in Changes /\ y \in Changes /\ x.path # y.path /\ y.path # x.path
    BY <1>2, <1>3, <2>1 DEF Changes
  <2>3. CASE s = <<x, y>> BY <2>2, <2>3, TwoChanges
  <2>4. CASE s = <<y, x>>
    <3>1. s \in Seq(Changes) /\ OneEach(s) /\ Elems(s) = {y, x} BY <2>2, <2>4, TwoChanges
    <3>2. {y, x} = {x, y} OBVIOUS
    <3> QED BY <3>1, <3>2, Zenon
  <2> QED BY <2>3, <2>4
<1>5. \A c \in Elems(s) : c.old = Now(c.path) BY <1>2, <1>3, <1>4 DEF Now, Has
<1>6. With(i, d) \in Doc /\ With(i, d)[i] = d /\ \A k \in Phases \ {i} : With(i, d)[k] = phase[k]
  BY <1>1 DEF With, Typed, Doc
<1>7. After(s, With(i, d), pl)
  <2>1. \A c \in Elems(s) : Has(With(i, d), pl, c.path) = c.new BY ZenonT(60), <1>2, <1>3, <1>4, <1>6 DEF Has
  <2>2. ASSUME NEW path \in Paths, \A c \in Elems(s) : c.path # path
        PROVE  Has(With(i, d), pl, path) = Now(path)
    <3>1. path # i /\ path # PlanMd BY <2>2, <1>3, <1>4
    <3> QED BY <3>1, <1>6 DEF Has, Now, Paths
  <2> QED BY <2>1, <2>2 DEF After, Elsewhere
<1>8. \A c \in Elems(s) : About(p, c)'
  <2>1. About(p, x)' BY <1>3 DEF About
  <2>2. About(p, y)' BY <1>3 DEF About
  <2> QED BY <1>4, <2>1, <2>2
<1>9. \A c \in Elems(s) : c.path \in Phases => (Sound(With(c.path, c.new)))'
  BY ZenonT(60), <1>3, <1>4, PlanFilesAssumption
<1>10. Mends(p)' \subseteq {i, PlanMd} BY DEF Mends
<1>11. PICK T : T = torn \ (Mends(p))' OBVIOUS
<1>12. Agrees(With(i, d), pl, T)
  <2>1. torn \ T \subseteq Paths /\ \A k \in torn \ T : k \in {i, PlanMd} BY <1>10, <1>11 DEF Paths
  <2> QED BY <1>1, <1>11, <2>1, AgreesWith
<1> QED BY <1>4, <1>5, <1>6, <1>7, <1>8, <1>9, <1>11, <1>12, PlansKeeps

LEMMA SetStatusKeeps == ASSUME PFInv, NEW p \in Procs, SetStatus(p) PROVE PFInv'
<1>1. pc[p] = "judge" /\ job[p].cmd = "set" /\ UNCHANGED <<job, forced>>
  BY DEF SetStatus, Reads
<1>2. /\ Typed /\ Agrees(phase, plan, torn) /\ Sound(phase)
      /\ job[p] \in Asked /\ job = [q \in Procs |-> job[q]]
  BY <1>1, WhatIsRead
<1>3. job[p] \in [cmd : {"set"}, id : Phases, to : Statuses, force : BOOLEAN]
  BY <1>1, <1>2 DEF Asked
<1>4. PICK i \in Phases, to \in Statuses : i = job[p].id /\ to = job[p].to BY <1>3
<1>5. phase[i] # Absent /\ plan.list[i] # Absent BY <1>4 DEF SetStatus
<1>6. phase \in Doc /\ plan \in PlanDocs /\ phase[i] \in PhaseDocs /\ plan.list[i] \in Entries
  BY <1>2, <1>4, <1>5 DEF Typed, Doc, PlanDocs
<1>7. PICK d : d = [phase[i] EXCEPT !.status = to] OBVIOUS
<1>8. /\ d \in PhaseDocs /\ d # Absent /\ d.deps = phase[i].deps /\ d.status = to
      /\ d.title = phase[i].title
  BY <1>6, <1>7, DraftsAssumption DEF PhaseDocs
<1>9. PICK after : after = [phase EXCEPT ![i].status = to] OBVIOUS
<1>10. after = With(i, d) /\ after[i] = d /\ \A k \in Phases \ {i} : after[k] = phase[k]
  BY <1>6, <1>7, <1>9 DEF With, Doc
<1>11. PICK pl : pl = [WithList(plan, i, [plan.list[i] EXCEPT !.checked = to = "done"])
                          EXCEPT !.status = PlanStatus(after)]
  OBVIOUS
<1>12. /\ pl \in PlanDocs /\ pl.status = PlanStatus(after)
       /\ pl.list[i] = [plan.list[i] EXCEPT !.checked = to = "done"]
       /\ \A k \in Phases \ {i} : pl.list[k] = plan.list[k]
  <2>1. [plan.list[i] EXCEPT !.checked = to = "done"] \in Entries BY <1>6 DEF Entries
  <2>2. PlanStatus(after) \in {"in-progress", "done"} BY DEF PlanStatus
  <2> QED BY <1>6, <1>11, <2>1, <2>2 DEF PlanDocs, WithList
<1>13. /\ Plans(p, <<Replace(i, phase[i], d), Replace(PlanMd, plan, pl)>>)
       /\ job[p].force \/ to = "planned" \/ DependenciesMet(phase, i)
  BY <1>4, <1>9, <1>10, <1>11 DEF SetStatus
<1>14. Sound(after)
  <2>1. Present(after) = Present(phase) BY <1>5, <1>8, <1>10 DEF Present
  <2>2. \A k \in Present(phase) : after[k].deps = phase[k].deps BY <1>8, <1>10 DEF Present
  <2> QED BY <1>2, <2>1, <2>2, SameDependencies DEF Sound
<1>15. Sound(With(i, d))'
  <2>1. UNCHANGED <<phase, forced>> BY <1>1, <1>13 DEF Plans, docs
  <2> QED BY <2>1, <1>10, <1>14 DEF With, Sound
<1>16. Mends(p)' = {PlanMd} BY <1>1 DEF Mends
<1>17. i \notin torn \ (Mends(p))' => pl.list[i] = IF d = Absent THEN Absent ELSE Entry(d)
  <2> SUFFICES ASSUME i \notin torn PROVE pl.list[i] = Entry(d)
    BY <1>8, <1>16, PlanFilesAssumption
  <2>1. plan.list[i] = Entry(phase[i]) BY <1>2, <1>5 DEF Agrees, Checklist
  <2> QED BY <2>1, <1>8, <1>12 DEF Entry
<1>18. job'[p].cmd = "set" =>
          \/ job'[p].force \/ job'[p].to = "planned"
          \/ \A k \in phase[job'[p].id].deps : phase[k] # Absent /\ phase[k].status = "done"
  BY <1>1, <1>4, <1>13 DEF DependenciesMet, Present
<1>19. job'[p] \in Kept /\ job' = [q \in Procs |-> job'[q]] BY <1>1, <1>2, <1>3 DEF Kept
<1>20. forced' \in BOOLEAN BY <1>1, <1>2 DEF Typed
<1>21. PICK x : x = Replace(i, phase[i], d) OBVIOUS
<1>22. PICK y : y = Replace(PlanMd, plan, pl) OBVIOUS
<1>23. Plans(p, <<x, y>>) BY <1>13, <1>21, <1>22
<1> QED
  BY <1>1, <1>4, <1>8, <1>10, <1>12, <1>15, <1>17, <1>18, <1>19, <1>20, <1>21, <1>22, <1>23, PlansBoth

LEMMA RemovalKeeps == ASSUME PFInv, NEW p \in Procs, RemovePhase(p) PROVE PFInv'
<1>1. pc[p] = "judge" /\ job[p].cmd = "rm" /\ job' = job
  <2>1. Reads(p, "rm") /\ UNCHANGED job BY DEF RemovePhase
  <2> QED BY <2>1 DEF Reads
<1>2. /\ Typed /\ Agrees(phase, plan, torn) /\ Sound(phase)
      /\ job[p] \in Asked /\ job = [q \in Procs |-> job[q]]
  BY <1>1, WhatIsRead
<1>3. job[p] \in [cmd : {"rm"}, id : Phases, force : BOOLEAN] BY <1>1, <1>2 DEF Asked
<1>4. PICK i \in Phases : i = job[p].id BY <1>3
<1>5. phase \in Doc /\ plan \in PlanDocs /\ phase[i] # Absent
  BY <1>2, <1>4 DEF Typed, RemovePhase
<1>6. PICK after : after = [phase EXCEPT ![i] = Absent] OBVIOUS
<1>7. after = With(i, Absent) /\ after[i] = Absent /\ \A k \in Phases \ {i} : after[k] = phase[k]
  BY <1>5, <1>6 DEF With, Doc
<1>8. PICK pl : pl = [WithList(plan, i, Absent) EXCEPT !.status = PlanStatus(after)] OBVIOUS
<1>9. /\ pl \in PlanDocs /\ pl.status = PlanStatus(after) /\ pl.list[i] = Absent
      /\ \A k \in Phases \ {i} : pl.list[k] = plan.list[k]
  <2>1. PlanStatus(after) \in {"in-progress", "done"} BY DEF PlanStatus
  <2> QED BY <1>5, <1>8, <2>1 DEF PlanDocs, WithList
<1>10. /\ Plans(p, <<Replace(PlanMd, plan, pl), Replace(i, phase[i], Absent)>>)
       /\ forced' = (forced \/ Dependents(phase, i) # {})
  BY <1>4, <1>6, <1>8 DEF RemovePhase
<1>11. Cyclefree(after) /\ (forced' \/ Defined(after))
  <2>1. Present(after) = Present(phase) \ {i} BY <1>7 DEF Present
  <2>2. ASSUME NEW S \in (SUBSET Present(after)) \ {{}}, \A k \in S : after[k].deps \cap S # {}
        PROVE  FALSE
    <3>1. S \in (SUBSET Present(phase)) \ {{}} BY <2>1
    <3>2. \A k \in S : after[k] = phase[k] BY <1>7, <2>1 DEF Present
    <3>3. \A k \in S : phase[k].deps \cap S # {} BY <2>2, <3>2
    <3> QED BY <1>2, <3>1, <3>3 DEF Sound, Cyclefree
  <2>3. Cyclefree(after) BY <2>2 DEF Cyclefree
  <2>4. ASSUME ~forced' PROVE Defined(after)
    <3>1. Defined(phase) /\ Dependents(phase, i) = {} BY <1>2, <1>10, <2>4 DEF Sound
    <3>2. \A k \in Present(after) : i \notin phase[k].deps BY <2>1, <3>1 DEF Dependents
    <3>3. \A k \in Present(after) : after[k] = phase[k] BY <1>7, <2>1 DEF Present
    <3> QED BY <2>1, <3>1, <3>2, <3>3 DEF Defined
  <2> QED BY <2>3, <2>4
<1>12. PICK d \in PhaseDocs \cup {Absent} : d = Absent OBVIOUS
<1>13. Sound(With(i, d))'
  <2>1. UNCHANGED phase BY <1>10 DEF Plans, docs
  <2>2. With(i, d)' = after BY <2>1, <1>7, <1>12 DEF With
  <2> QED BY <2>2, <1>11 DEF Sound
<1>14. forced' \in BOOLEAN /\ (forced => forced') BY <1>2, <1>10 DEF Typed
<1>15. job'[p] \in Kept /\ job' = [q \in Procs |-> job'[q]] BY <1>1, <1>2, <1>3 DEF Kept
<1>16. PICK x : x = Replace(i, phase[i], d) OBVIOUS
<1>17. PICK y : y = Replace(PlanMd, plan, pl) OBVIOUS
<1>18. Plans(p, <<y, x>>) BY <1>10, <1>12, <1>16, <1>17
<1>20. /\ \A k \in Phases \ {i} : pl.list[k] = plan.list[k]
       /\ i \notin torn \ (Mends(p))' => pl.list[i] = IF d = Absent THEN Absent ELSE Entry(d)
       /\ PlanMd \notin torn \ (Mends(p))' => pl.status = PlanStatus(With(i, d))
  BY <1>7, <1>9, <1>12
<1>21. /\ job'[p].cmd = job[p].cmd /\ \A q \in Procs \ {p} : job'[q] = job[q]
       /\ job'[p].cmd # "edit plan" /\ job'[p].id = i
       /\ job'[p].cmd # "edit phase" /\ job'[p].cmd # "set"
  BY <1>1, <1>4
<1>22. forced \in BOOLEAN BY <1>2 DEF Typed
<1> QED
  BY ZenonT(60), <1>1, <1>9, <1>13, <1>14, <1>15, <1>16, <1>17, <1>18, <1>20, <1>21, <1>22, PlansBoth

LEMMA AddingKeeps == ASSUME PFInv, NEW p \in Procs, AddPhase(p) PROVE PFInv'
<1>1. PICK i : i = NextPhaseID(phase) OBVIOUS
<1>2. PICK d : d = [status |-> "planned", title |-> "title", deps |-> job[p].deps] OBVIOUS
<1>3. PICK pl : pl = [WithList(plan, i, Entry(d)) EXCEPT !.status = "in-progress"] OBVIOUS
<1>4. /\ Reads(p, "add") /\ i \in Phases /\ ValidDependencies([phase EXCEPT ![i] = d])
      /\ Plans(p, <<Replace(i, Absent, d), Replace(PlanMd, plan, pl)>>)
      /\ job' = [job EXCEPT ![p] = [cmd |-> "add", id |-> i]] /\ forced' = forced
  BY <1>1, <1>2, <1>3, Zenon DEF AddPhase
<1>5. pc[p] = "judge" /\ job[p].cmd = "add" BY <1>4 DEF Reads
<1>6. /\ Typed /\ Agrees(phase, plan, torn) /\ Sound(phase)
      /\ job[p] \in Asked /\ job = [q \in Procs |-> job[q]]
  BY <1>5, WhatIsRead
<1>7. job[p] \in [cmd : {"add"}, deps : SUBSET Phases] BY <1>5, <1>6 DEF Asked
<1>8. phase[i] = Absent BY <1>1, <1>4, NextIsFree
<1>9. /\ d \in PhaseDocs /\ d # Absent /\ d.status = "planned"
  <2>1. d \in PhaseDocs BY <1>2, <1>7 DEF PhaseDocs, Statuses, Titles
  <2> QED BY <2>1, <1>2, DraftsAssumption
<1>10. phase \in Doc /\ plan \in PlanDocs BY <1>6 DEF Typed
<1>11. With(i, d) = [phase EXCEPT ![i] = d] /\ With(i, d)[i] = d BY <1>4, <1>10 DEF With, Doc
<1>12. /\ pl \in PlanDocs /\ pl.status = "in-progress" /\ pl.list[i] = Entry(d)
       /\ \A k \in Phases \ {i} : pl.list[k] = plan.list[k]
  <2>1. Entry(d) \in Entries BY <1>9 DEF Entry, Entries, PhaseDocs
  <2> QED BY <1>3, <1>4, <1>10, <2>1 DEF PlanDocs, WithList
<1>13. PlanStatus(With(i, d)) = "in-progress"
  <2>1. i \in Present(With(i, d)) BY <1>4, <1>9, <1>11 DEF Present
  <2> QED BY <2>1, <1>9, <1>11 DEF PlanStatus, AllDone
<1>14. Sound(With(i, d))'
  <2>1. UNCHANGED <<phase, forced>> BY <1>4 DEF Plans, docs
  <2> QED BY <2>1, <1>4, <1>11 DEF With, Sound, ValidDependencies
<1>15. PICK x : x = Replace(i, phase[i], d) OBVIOUS
<1>16. PICK y : y = Replace(PlanMd, plan, pl) OBVIOUS
<1>17. Plans(p, <<x, y>>) BY <1>4, <1>8, <1>15, <1>16
<1>18. job'[p] = [cmd |-> "add", id |-> i] /\ job' = [q \in Procs |-> job'[q]]
       /\ \A q \in Procs \ {p} : job'[q] = job[q]
  BY <1>4, <1>6
<1>19. job'[p] \in Kept
  <2>1. job'[p] \in [cmd : {"add", "edit phase"}, id : Phases] BY <1>4, <1>18
  <2> QED BY <2>1 DEF Kept
<1>20. /\ job'[p].cmd = job[p].cmd /\ job'[p].id = i
       /\ job'[p].cmd # "edit plan" /\ job'[p].cmd # "edit phase" /\ job'[p].cmd # "set"
  BY <1>5, <1>18
<1>21. /\ i \notin torn \ (Mends(p))' => pl.list[i] = IF d = Absent THEN Absent ELSE Entry(d)
       /\ PlanMd \notin torn \ (Mends(p))' => pl.status = PlanStatus(With(i, d))
  BY <1>9, <1>12, <1>13
<1>22. forced' \in BOOLEAN /\ (forced => forced') BY <1>4, <1>6 DEF Typed
<1> QED
  BY <1>4, <1>5, <1>9, <1>12, <1>14, <1>15, <1>16, <1>17, <1>18, <1>19, <1>20, <1>21, <1>22,
     PlansBoth

LEMMA Joined == ASSUME NEW a, NEW b PROVE <<a>> \o <<b>> = <<a, b>> /\ <<a>> \o <<>> = <<a>>
<1>1. <<a>> \in Seq({a, b}) /\ <<b>> \in Seq({a, b}) /\ <<a, b>> \in Seq({a, b}) OBVIOUS
<1>2. <<a>> \o <<b>> = <<a, b>>
  <2>1. /\ <<a>> \o <<b>> \in Seq({a, b}) /\ Len(<<a>> \o <<b>>) = 2
        /\ \A k \in 1..2 : (<<a>> \o <<b>>)[k] = <<a, b>>[k]
    OBVIOUS
  <2> QED BY <1>1, <2>1, SeqEqual
<1>3. <<a>> \o <<>> = <<a>> BY <1>1, ConcatEmptySeq
<1> QED BY <1>2, <1>3

LEMMA EditPhaseKeeps == ASSUME PFInv, NEW p \in Procs, EditPhase(p) PROVE PFInv'
<1>1. PICK i : i = sheet[p].path OBVIOUS
<1>2. PICK d : d = [sheet[p].base EXCEPT !.title = job[p].title, !.deps = job[p].deps] OBVIOUS
<1>3. PICK x : x = Replace(i, phase[i], d) OBVIOUS
<1>4. PICK pl : pl = WithList(plan, i, Entry(d)) OBVIOUS
<1>5. PICK y : y = Replace(PlanMd, plan, pl) OBVIOUS
<1>6. /\ Reads(p, "edit phase") /\ phase[i] # Absent /\ sheet[p].base = phase[i]
      /\ ValidDependencies([phase EXCEPT ![i] = d])
      /\ Plans(p, <<x>> \o (IF d.title # phase[i].title THEN <<y>> ELSE <<>>))
      /\ job' = [job EXCEPT ![p] = [cmd |-> "edit phase", id |-> i]] /\ forced' = forced
  BY <1>1, <1>2, <1>3, <1>4, <1>5, Zenon DEF EditPhase, Seen
<1>7. pc[p] = "judge" /\ job[p].cmd = "edit phase" BY <1>6 DEF Reads
<1>8. /\ Typed /\ Agrees(phase, plan, torn) /\ Sound(phase)
      /\ job[p] \in Asked /\ job = [q \in Procs |-> job[q]] /\ sheet[p] \in PhaseSheets
  BY <1>7, WhatIsRead
<1>9. job[p] \in [cmd : {"edit phase"}, title : Titles, deps : SUBSET Phases]
  BY <1>7, <1>8 DEF Asked
<1>10. i \in Phases /\ phase[i] \in PhaseDocs BY <1>1, <1>6, <1>8 DEF PhaseSheets
<1>11. /\ d \in PhaseDocs /\ d # Absent /\ d.status = phase[i].status
  <2>1. d \in PhaseDocs /\ d.status = phase[i].status BY <1>2, <1>6, <1>9, <1>10 DEF PhaseDocs
  <2> QED BY <2>1, DraftsAssumption
<1>12. phase \in Doc /\ plan \in PlanDocs BY <1>8 DEF Typed
<1>13. /\ With(i, d) = [phase EXCEPT ![i] = d] /\ With(i, d)[i] = d
       /\ \A k \in Phases \ {i} : With(i, d)[k] = phase[k]
  BY <1>10, <1>12 DEF With, Doc
<1>14. PlanStatus(With(i, d)) = PlanStatus(phase)
  <2>1. Present(With(i, d)) = Present(phase) BY <1>6, <1>11, <1>13 DEF Present
  <2>2. \A k \in Phases : With(i, d)[k].status = phase[k].status BY <1>11, <1>13
  <2>3. AllDone(With(i, d)) <=> AllDone(phase) BY <2>1, <2>2 DEF AllDone, Present
  <2> QED BY <2>3 DEF PlanStatus
<1>15. Sound(With(i, d))'
  <2>1. UNCHANGED <<phase, forced>> BY <1>6 DEF Plans, docs
  <2> QED BY <2>1, <1>6, <1>13 DEF With, Sound, ValidDependencies
<1>16. /\ job'[p] = [cmd |-> "edit phase", id |-> i] /\ job' = [q \in Procs |-> job'[q]]
       /\ \A q \in Procs \ {p} : job'[q] = job[q]
  BY <1>6, <1>8
<1>17. job'[p] \in Kept
  <2>1. [cmd |-> "edit phase", id |-> i] \in [cmd : {"add", "edit phase"}, id : Phases] BY <1>10
  <2> QED BY <1>16, <2>1 DEF Kept
<1>18. /\ job'[p].cmd = job[p].cmd /\ job'[p].id = i
       /\ job'[p].cmd # "edit plan" /\ job'[p].cmd # "set"
       /\ phase[job'[p].id] = sheet[p].base
  BY <1>6, <1>7, <1>16
<1>19. forced' \in BOOLEAN /\ (forced => forced') BY <1>6, <1>8 DEF Typed
<1>20. Mends(p)' = {} BY <1>7, <1>18 DEF Mends
<1>21. CASE d.title # phase[i].title
  <2>1. /\ pl \in PlanDocs /\ pl.status = plan.status /\ pl.list[i] = Entry(d)
        /\ \A k \in Phases \ {i} : pl.list[k] = plan.list[k]
    <3>1. Entry(d) \in Entries BY <1>11 DEF Entry, Entries, PhaseDocs
    <3> QED BY <1>4, <1>10, <1>12, <3>1 DEF PlanDocs, WithList
  <2>2. Plans(p, <<x, y>>)
    <3>1. <<x>> \o <<y>> = <<x, y>> BY Joined
    <3> QED BY <1>6, <1>21, <3>1
  <2>3. /\ i \notin torn \ (Mends(p))' => pl.list[i] = IF d = Absent THEN Absent ELSE Entry(d)
        /\ PlanMd \notin torn \ (Mends(p))' => pl.status = PlanStatus(With(i, d))
    BY <2>1, <1>8, <1>11, <1>14, <1>20 DEF Agrees
  <2> QED
    BY <1>3, <1>5, <1>7, <1>10, <1>11, <1>15, <1>16, <1>17, <1>18, <1>19, <2>1, <2>2, <2>3,
       PlansBoth
<1>22. CASE d.title = phase[i].title
  <2>1. i # PlanMd BY <1>10, PlanFilesAssumption
  <2>2. x.path = i /\ x.new = d /\ x.old = phase[i] BY <1>3 DEF Replace
  <2>3. x \in Changes BY <1>3, <1>10, <1>11 DEF Replace, Changes, PhaseChanges
  <2>4. PICK s : s = <<x>> OBVIOUS
  <2>5. s \in Seq(Changes) /\ Elems(s) = {x} /\ OneEach(s) BY <2>3, <2>4, OneChange
  <2>6. Plans(p, s)
    <3>1. <<x>> \o <<>> = <<x>> BY Joined
    <3> QED BY <1>6, <1>22, <2>4, <3>1
  <2>7. \A c \in Elems(s) : c.old = Now(c.path) /\ About(p, c)'
    <3>1. x.old = Now(x.path) BY <2>1, <2>2 DEF Now, Has
    <3>2. About(p, x)' BY <1>18, <2>2 DEF About
    <3> QED BY <2>5, <3>1, <3>2
  <2>8. \A c \in Elems(s) : c.path \in Phases => (Sound(With(c.path, c.new)))'
    BY <1>15, <2>2, <2>5
  <2>9. With(i, d) \in Doc BY <1>10, <1>11, <1>12 DEF With, Doc
  <2>10. After(s, With(i, d), plan)
    <3>1. \A c \in Elems(s) : Has(With(i, d), plan, c.path) = c.new
      BY <1>13, <2>1, <2>2, <2>5 DEF Has
    <3>2. ASSUME NEW path \in Paths, \A c \in Elems(s) : c.path # path
          PROVE  Has(With(i, d), plan, path) = Now(path)
      <4>1. path # i BY <3>2, <2>2, <2>5
      <4> QED BY <4>1, <1>13 DEF Has, Now, Paths
    <3> QED BY <3>1, <3>2 DEF After, Elsewhere
  <2>11. Agrees(With(i, d), plan, torn)
    <3>1. i \notin torn => plan.list[i] = IF d = Absent THEN Absent ELSE Entry(d)
      <4>1. i \notin torn => plan.list[i] = Entry(phase[i]) BY <1>6, <1>8, <1>10 DEF Agrees, Checklist
      <4> QED BY <4>1, <1>11, <1>22 DEF Entry
    <3>2. PlanMd \notin torn => plan.status = PlanStatus(With(i, d)) BY <1>8, <1>14 DEF Agrees
    <3>3. torn \ torn = {} OBVIOUS
    <3> QED BY <1>8, <1>10, <1>11, <1>12, <3>1, <3>2, <3>3, AgreesWith
  <2>12. Agrees(With(i, d), plan, torn \ (Mends(p))')
    <3>1. torn \ (Mends(p))' = torn BY <1>20
    <3> QED BY <2>11, <3>1
  <2> QED
    BY <1>7, <1>12, <1>16, <1>17, <1>18, <1>19, <2>5, <2>6, <2>7, <2>8, <2>9, <2>10, <2>12, PlansKeeps
<1> QED BY <1>21, <1>22

LEMMA EditPlanKeeps == ASSUME PFInv, NEW p \in Procs, EditPlan(p) PROVE PFInv'
<1>1. PICK pl : pl = [plan EXCEPT !.prose = "edited"] OBVIOUS
<1>2. PICK y : y = Replace(PlanMd, plan, pl) OBVIOUS
<1>3. /\ Reads(p, "edit plan") /\ sheet[p].base = plan /\ Plans(p, <<y>>)
      /\ job' = job /\ forced' = forced
  BY <1>1, <1>2 DEF EditPlan, Seen
<1>4. pc[p] = "judge" /\ job[p].cmd = "edit plan" BY <1>3 DEF Reads
<1>5. /\ Typed /\ Agrees(phase, plan, torn) /\ job[p] \in Asked /\ job = [q \in Procs |-> job[q]]
  BY <1>4, WhatIsRead
<1>6. /\ pl \in PlanDocs /\ pl.list = plan.list /\ pl.status = plan.status
      /\ phase \in Doc
  BY <1>1, <1>5 DEF Typed, PlanDocs
<1>7. y.path = PlanMd /\ y.old = plan /\ y.new = pl BY <1>2 DEF Replace
<1>8. y \in Changes BY <1>2, <1>5, <1>6 DEF Replace, Changes, PlanChanges, Typed
<1>9. PICK s : s = <<y>> OBVIOUS
<1>10. s \in Seq(Changes) /\ Elems(s) = {y} /\ OneEach(s) /\ Tail(s) = <<>>
  BY <1>8, <1>9, OneChange
<1>11. Plans(p, s) BY <1>3, <1>9
<1>12. \A c \in Elems(s) : c.old = Now(c.path) /\ About(p, c)'
  <2>1. y.old = Now(y.path) BY <1>7 DEF Now, Has
  <2>2. About(p, y)' BY <1>3, <1>4, <1>7 DEF About
  <2> QED BY <1>10, <2>1, <2>2
<1>13. \A c \in Elems(s) : c.path \in Phases => (Sound(With(c.path, c.new)))'
  BY <1>7, <1>10, PlanFilesAssumption
<1>14. After(s, phase, pl)
  <2>1. \A c \in Elems(s) : Has(phase, pl, c.path) = c.new BY <1>7, <1>10 DEF Has
  <2>2. ASSUME NEW path \in Paths, \A c \in Elems(s) : c.path # path
        PROVE  Has(phase, pl, path) = Now(path)
    BY <2>2, <1>7, <1>10 DEF Has, Now
  <2> QED BY <2>1, <2>2 DEF After, Elsewhere
<1>15. Agrees(phase, pl, torn \ (Mends(p))')
  <2>1. Mends(p)' = {} BY <1>3, <1>4 DEF Mends
  <2>2. torn \ (Mends(p))' = torn BY <2>1
  <2>3. Agrees(phase, pl, torn) BY <1>5, <1>6 DEF Agrees
  <2> QED BY <2>2, <2>3
<1>16. job'[p] \in Kept
  <2>1. job[p] \in [cmd : {"edit plan", "archive", "register"}] BY <1>4, <1>5 DEF Asked
  <2>2. job[p] \in [cmd : {"edit plan"}] BY <1>4, <2>1
  <2> QED BY <1>3, <2>2 DEF Kept
<1>17. forced' \in BOOLEAN /\ (forced => forced') BY <1>3, <1>5 DEF Typed
<1>18. /\ job' = [q \in Procs |-> job'[q]] /\ job'[p].cmd = job[p].cmd
       /\ \A q \in Procs \ {p} : job'[q] = job[q]
       /\ job'[p].cmd # "edit phase" /\ job'[p].cmd # "set"
  BY <1>3, <1>4, <1>5
<1> QED
  BY <1>3, <1>4, <1>6, <1>10, <1>11, <1>12, <1>13, <1>14, <1>15, <1>16, <1>17, <1>18, PlansKeeps

---------------------------------------------------------------------------
(* The theorems.                                                           *)

LEMMA StepKeeps == ASSUME ~FixBeside, PFInv, [PlanFilesNext]_planVars PROVE PFInv'
<1>1. CASE PlanFilesNext
  <2> PICK p \in Procs :
        \/ Register(p) \/ LockDirectory(p) \/ Registered(p)
        \/ Find(p) \/ Checkout(p) \/ FindAgain(p) \/ Open(p) \/ LockPlan(p) \/ GiveUp(p)
        \/ SetStatus(p) \/ RemovePhase(p) \/ AddPhase(p) \/ EditPhase(p) \/ EditPlan(p)
        \/ Archive(p)
        \/ Write(p) \/ WriteFails(p) \/ RollBack(p) \/ RollBackFails(p) \/ Finish(p)
        \/ Crash(p)
        \/ FixRead(p) \/ FixList(p) \/ FixPhase(p) \/ FixWrite(p)
    BY <1>1 DEF PlanFilesNext
  <2>1. CASE Register(p) \/ LockDirectory(p) \/ Registered(p) \/ Find(p) \/ Checkout(p)
    BY <2>1, RegisterKeeps, LockDirectoryKeeps, RegisteredKeeps, FindKeeps, CheckoutKeeps
  <2>2. CASE FindAgain(p) \/ Open(p) \/ LockPlan(p) \/ GiveUp(p) \/ Archive(p)
    BY <2>2, FindAgainKeeps, OpenKeeps, LockPlanKeeps, GiveUpKeeps, ArchiveKeeps
  <2>3. CASE SetStatus(p) \/ RemovePhase(p) \/ AddPhase(p) \/ EditPhase(p) \/ EditPlan(p)
    BY <2>3, SetStatusKeeps, RemovalKeeps, AddingKeeps, EditPhaseKeeps, EditPlanKeeps
  <2>4. CASE Write(p) \/ WriteFails(p) \/ RollBack(p) \/ RollBackFails(p) \/ Finish(p) \/ Crash(p)
    BY <2>4, WriteKeeps, WriteFailsKeeps, RollBackKeeps, RollBackFailsKeeps, FinishKeeps, CrashKeeps
  <2>5. CASE FixRead(p) \/ FixList(p) \/ FixPhase(p) \/ FixWrite(p)
    BY <2>5, FixReadKeeps, FixListKeeps, FixPhaseKeeps, FixWriteKeeps
  <2> QED BY <2>1, <2>2, <2>3, <2>4, <2>5
<1>2. CASE UNCHANGED planVars
  <2>1. UNCHANGED <<phase, plan, place, lock, pc, job, at, todo, undo, copy, sheet, forced, torn>>
    BY <1>2 DEF planVars, docs, locks, ofProcess
  <2>2. Skeleton' BY <2>1 DEF PFInv, Skeleton, Typed, Locked, Jobs, Under, Writing, Asking
  <2>3. Repairs' BY <2>1 DEF PFInv, Repairs, Fixing, RepairOK, Reading, Unread
  <2>4. Calm BY <2>1 DEF Calm, Writing
  <2> QED BY <2>2, <2>3, <2>4, CalmKeeps DEF PFInv
<1> QED BY <1>1, <1>2

\* The strengthened invariant: one writer at a time, with documents to go
\* back to and documents to go on to.
THEOREM WritersAreSafe == ASSUME ~FixBeside PROVE PlanFilesSpec => []PFInv
<1>1. PlanFilesInit => PFInv BY Begins
<1>2. PFInv /\ [PlanFilesNext]_planVars => PFInv' BY StepKeeps
<1> QED BY <1>1, <1>2, PTL DEF PlanFilesSpec

\* PLAN.md and the phase documents say the same whenever nobody writes, but
\* for what a crash or a failed rollback has left (transaction.go Apply,
\* phase.go UpdatePhaseStatusLocked), as long as doctor --fix runs alone.
THEOREM DocumentsAgree == ASSUME ~FixBeside PROVE PlanFilesSpec => []FilesAgree
<1>1. PFInv => FilesAgree
  <2> SUFFICES ASSUME PFInv, lock = Nobody
               PROVE  /\ \A i \in Phases \ torn : plan.list[i] = Checklist(phase)[i]
                      /\ PlanMd \notin torn => plan.status = PlanStatus(phase)
    BY DEF FilesAgree
  <2>1. Quiet
    BY PlanFilesAssumption DEF PFInv, Skeleton, Locked, Under, Quiet, Writing
  <2> QED BY <2>1 DEF PFInv, AboutFiles, AgreeAtRest, Agrees
<1>2. PlanFilesSpec => []PFInv BY WritersAreSafe
<1> QED BY <1>1, <1>2, PTL

\* An edit replaces the very document its author has seen (edit.go Edit).
THEOREM EditsKeepWhatTheySaw == ASSUME ~FixBeside PROVE PlanFilesSpec => []EditsOnBase
<1>1. PFInv => EditsOnBase BY DEF PFInv, AboutFiles
<1>2. PlanFilesSpec => []PFInv BY WritersAreSafe
<1> QED BY <1>1, <1>2, PTL

\* No phase is started or finished before what it depends on, without
\* --force (phase.go EnsureDependenciesMet).
THEOREM DependenciesHold == ASSUME ~FixBeside PROVE PlanFilesSpec => []DependenciesBefore
<1>1. PFInv => DependenciesBefore BY DEF PFInv, AboutFiles
<1>2. PlanFilesSpec => []PFInv BY WritersAreSafe
<1> QED BY <1>1, <1>2, PTL

\* No cycle of phases, and no missing phase without --force, after any
\* sequence of additions, edits and removals (phase.go, graph.go).
THEOREM GraphStaysSound == ASSUME ~FixBeside PROVE PlanFilesSpec => []GraphSound
<1>1. PFInv => GraphSound BY DEF PFInv, AboutFiles, SoundAround, Sound, GraphSound
<1>2. PlanFilesSpec => []PFInv BY WritersAreSafe
<1> QED BY <1>1, <1>2, PTL

\* A plan goes to the archive with all its phases done, and while nobody is
\* writing in its directory (archive.go runArchive).
THEOREM ArchivesWhole == ASSUME ~FixBeside PROVE PlanFilesSpec => ArchivedWhole
<1>1. ASSUME PFInv, [PlanFilesNext]_planVars, place = "plans", place' = "archive"
      PROVE  /\ PlanMd \notin torn => AllDone(phase)
             /\ \A q \in Procs : pc[q] \notin {"write", "roll back"}
  <2>1. PICK p \in Procs : Archive(p)
    BY <1>1 DEF PlanFilesNext, planVars, docs, Register, LockDirectory, Registered, Find, Checkout,
        FindAgain, Open, LockPlan, GiveUp, SetStatus, RemovePhase, AddPhase, EditPhase, EditPlan,
        Plans, Write, WriteFails, RollBack, RollBackFails, Finish, Crash, FixRead, FixList, FixPhase,
        FixWrite
  <2>2. pc[p] = "judge" /\ plan.status = "done" BY <2>1 DEF Archive, Reads, DoneUnderLock
  <2>3. Agrees(phase, plan, torn) BY <1>1, <2>2, WhatIsRead
  <2>4. PlanMd \notin torn => AllDone(phase) BY <2>2, <2>3 DEF Agrees, PlanStatus
  <2>5. Under(p) /\ ~Writing(p) BY <2>2 DEF Under, Writing
  <2>6. \A q \in Procs : ~Writing(q) BY <1>1, <2>5, OneWriter DEF PFInv
  <2> QED BY <2>4, <2>6 DEF Writing
<1>2. PFInv /\ [PlanFilesNext]_planVars =>
        [(place = "plans" /\ place' = "archive") =>
            /\ PlanMd \notin torn => AllDone(phase)
            /\ \A q \in Procs : pc[q] \notin {"write", "roll back"}]_planVars
  BY <1>1
<1>3. PlanFilesSpec => []PFInv BY WritersAreSafe
<1> QED BY <1>2, <1>3, PTL DEF PlanFilesSpec, ArchivedWhole

===========================================================================
