------------------------------ MODULE Numbering ---------------------------
(***************************************************************************)
(* How issues, plans and decisions get their numbers.  There is no         *)
(* counter: a process lists the refs of the kind, takes the largest number *)
(* plus one, and tries to create the ref; when another process was faster  *)
(* it tries the next number.                                               *)
(*                                                                         *)
(* Plans and decisions stay where they are created.  An issue is moved to  *)
(* archive/ when it is finished, so its numbers are listed from two places *)
(* while the ref is created in one of them.  A decision may name an older  *)
(* decision that it supersedes.                                            *)
(***************************************************************************)
EXTENDS Naturals, FiniteSets

CONSTANTS Adders,    \* processes that add documents
          Kinds,     \* the kinds of documents considered
          MaxTries,  \* maxIDAttempts
          MaxDocs    \* bound: documents created in a behaviour

ASSUME NumberingAssumption ==
    /\ Kinds \subseteq {"issue", "plan", "decision"}
    /\ MaxTries \in Nat \ {0} /\ MaxDocs \in Nat

VARIABLES
    kind,      \* the kind of the documents of this behaviour
    live,      \* the refs of the kind (issues/, plans/, decisions/)
    archive,   \* the refs of archive/
    made,      \* documents created so far
    step,      \* the next step of each process
    link,      \* the number its document will supersede, 0 for none
    high,      \* the largest number it has listed
    num,       \* the number it tries
    tries,     \* numbers it has tried in vain
    before     \* not part of the program: numbers in use when it began

locals  == <<step, link, high, num, tries, before>>
docVars == <<kind, live, archive, made, locals>>

Moves == kind = "issue"      \* finished issues are moved to archive/
Links == kind = "decision"   \* a decision may supersede another

\* A ref: its number, the document it points to and what that supersedes.
Refs == [num : Nat \ {0}, doc : 1..MaxDocs, link : Nat]

Numbers(R) == {r.num : r \in R}

---------------------------------------------------------------------------
NumberingInit ==
    /\ kind \in Kinds /\ live = {} /\ archive = {} /\ made = 0
    /\ step = [p \in Adders |-> "idle"]
    /\ link = [p \in Adders |-> 0]
    /\ high = [p \in Adders |-> 0]
    /\ num = [p \in Adders |-> 0]
    /\ tries = [p \in Adders |-> 0]
    /\ before = [p \in Adders |-> {}]

Advance(p, from, to) == step[p] = from /\ step' = [step EXCEPT ![p] = to]

\* What a document may supersede: nothing, or a decision that exists.
Superseded == {0} \cup (IF Links THEN Numbers(live) ELSE {})

Begin(p) ==
    /\ Advance(p, "idle", "live")
    /\ \E n \in Superseded : link' = [link EXCEPT ![p] = n]
    /\ before' = [before EXCEPT ![p] = Numbers(live \cup archive)]
    /\ UNCHANGED <<live, archive, made, high, num, tries>>

\* h is the largest number of R and what was listed before.
Largest(h, R, listed) ==
    /\ h = listed \/ h \in Numbers(R)
    /\ h >= listed
    /\ \A n \in Numbers(R) : h >= n

Candidates == 0..MaxDocs

ListLive(p) ==
    /\ Advance(p, "live", "archive")
    /\ \E h \in Candidates : Largest(h, live, 0) /\ high' = [high EXCEPT ![p] = h]
    /\ UNCHANGED <<live, archive, made, link, num, tries, before>>

\* Mutant of ListArchive: the numbers in archive/ are not considered.
ListLiveOnly(p) ==
    /\ Advance(p, "archive", "create")
    /\ num' = [num EXCEPT ![p] = high[p] + 1]
    /\ tries' = [tries EXCEPT ![p] = 0]
    /\ UNCHANGED <<live, archive, made, link, high, before>>

\* With plans and decisions, archive/ is not listed, and is empty.
ListArchive(p) ==
    /\ Advance(p, "archive", "create")
    /\ \E h \in Candidates :
        /\ Largest(h, archive, high[p])
        /\ num' = [num EXCEPT ![p] = h + 1]
    /\ tries' = [tries EXCEPT ![p] = 0]
    /\ UNCHANGED <<live, archive, made, link, high, before>>

\* The process has its number, or has failed.
Stops(p) ==
    /\ step' = [step EXCEPT ![p] = "idle"]
    /\ link' = [link EXCEPT ![p] = 0]
    /\ high' = [high EXCEPT ![p] = 0]
    /\ num' = [num EXCEPT ![p] = 0]
    /\ tries' = [tries EXCEPT ![p] = 0]
    /\ before' = [before EXCEPT ![p] = {}]

NewRef(p) == [num |-> num[p], doc |-> made + 1, link |-> link[p]]

\* Mutant of Create: the ref is written without asking that it is new.
CreateOver(p) ==
    /\ step[p] = "create" /\ made < MaxDocs
    /\ live' = {r \in live : r.num # num[p]} \cup {NewRef(p)}
    /\ made' = made + 1
    /\ Stops(p)
    /\ UNCHANGED archive

\* The create-only compare-and-swap succeeds.
Create(p) ==
    /\ step[p] = "create" /\ made < MaxDocs
    /\ num[p] \notin Numbers(live)
    /\ live' = live \cup {NewRef(p)}
    /\ made' = made + 1
    /\ Stops(p)
    /\ UNCHANGED archive

\* Mutant of Taken: the same number is tried again.
TakenAgain(p) ==
    /\ step[p] = "create" /\ num[p] \in Numbers(live)
    /\ tries[p] + 1 < MaxTries
    /\ tries' = [tries EXCEPT ![p] = @ + 1]
    /\ UNCHANGED <<live, archive, made, step, link, high, num, before>>

\* Another process has the number: the next one is tried.
Taken(p) ==
    /\ step[p] = "create" /\ num[p] \in Numbers(live)
    /\ tries[p] + 1 < MaxTries
    /\ tries' = [tries EXCEPT ![p] = @ + 1]
    /\ num' = [num EXCEPT ![p] = @ + 1]
    /\ UNCHANGED <<live, archive, made, step, link, high, before>>

\* Every number it tried was taken.
Exhausted(p) ==
    /\ step[p] = "create" /\ num[p] \in Numbers(live)
    /\ tries[p] + 1 >= MaxTries
    /\ Stops(p)
    /\ UNCHANGED <<live, archive, made>>

\* The ref is locked, the document is not valid, or the process is killed.
Abandon(p) ==
    /\ step[p] # "idle"
    /\ Stops(p)
    /\ UNCHANGED <<live, archive, made>>

\* A finished issue is moved; a ref of archive/ is never overwritten.
Move(r) ==
    /\ Moves /\ r.num \notin Numbers(archive)
    /\ live' = live \ {r}
    /\ archive' = archive \cup {r}
    /\ UNCHANGED <<made, locals>>

NumberingNext ==
    /\ \/ \E p \in Adders :
           \/ Begin(p) \/ ListLive(p) \/ ListArchive(p)
           \/ Create(p) \/ Taken(p) \/ Exhausted(p) \/ Abandon(p)
       \/ \E r \in live : Move(r)
    /\ UNCHANGED kind

NumberingSpec == NumberingInit /\ [][NumberingNext]_docVars

---------------------------------------------------------------------------
(****************************** Properties *********************************)

\* Type invariant.
NumberingTypeOK ==
    /\ kind \in Kinds /\ live \subseteq Refs /\ archive \subseteq Refs
    /\ made \in 0..MaxDocs
    /\ step \in [Adders -> {"idle", "live", "archive", "create"}]
    /\ link \in [Adders -> Nat] /\ high \in [Adders -> Nat] /\ num \in [Adders -> Nat]
    /\ tries \in [Adders -> 0..MaxTries - 1]
    /\ before \in [Adders -> SUBSET Nat]

\* No number that was in use when a process began is tried, although issues
\* move from one listed place to the other while it lists them.
AboveEarlier ==
    \A p \in Adders : step[p] = "create" => \A n \in before[p] : n < num[p]

\* No document is ever lost: its ref stays, in one of the two places.
NothingLost ==
    [][live \cup archive \subseteq live' \cup archive']_docVars

\* A process gives up only if so many documents were added while it tried.
GivesUpCrowded ==
    [][\A p \in Adders : Exhausted(p) =>
           Cardinality({r \in live \cup archive : r.num \notin before[p]}) >= MaxTries
      ]_docVars

\* A decision supersedes one with a smaller number, so histories end.
LinksDescend == \A r \in live \cup archive : r.link < r.num

\* A number is given to one document only.
UniqueNumbers ==
    \A r, q \in live \cup archive : r.num = q.num => r = q
===========================================================================
