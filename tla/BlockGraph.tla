----------------------------- MODULE BlockGraph ---------------------------
(***************************************************************************)
(* The dependencies between issues.  `add --depends-on' files an issue     *)
(* with its dependencies and `block --on' adds one later; nothing removes  *)
(* one.  An issue in a cycle of dependencies is never a candidate of       *)
(* `next', so `block --on' searches the graph first and refuses to close a *)
(* cycle.                                                                  *)
(*                                                                         *)
(* The search reads one issue at a time while other commands run, and is   *)
(* made once, before the compare-and-swap loop that adds the edge.  Like   *)
(* any accepted command, the update itself is one step on the ledger.      *)
(***************************************************************************)
EXTENDS IssueLedger, FiniteSets

CONSTANTS Procs,      \* processes that run commands
          SessionOf,  \* the session a process runs in
          Blockers    \* processes that use block --on

ASSUME BlockAssumption ==
    /\ SessionOf \in [Procs -> Sessions]
    /\ Blockers \subseteq Procs

VARIABLES
    dangling,  \* are issues added with dependencies that are not there yet?
    added,     \* the issues that exist, in issues/ or in archive/
    deps,      \* depends_on of each issue
    pc,        \* the next step of each process
    edge,      \* the dependency it wants to add
    pending,   \* issues its search has still to visit
    seen       \* issues its search has visited

search    == <<pc, edge, pending, seen>>
graphVars == <<dangling, ledger, added, deps, search>>

Edge   == [from : Ids, on : Ids]
NoEdge == [from |-> Nobody, on |-> Nobody]

---------------------------------------------------------------------------
GraphInit ==
    /\ LedgerInit
    /\ dangling \in BOOLEAN
    /\ added = {}
    /\ deps = [i \in Ids |-> {}]
    /\ pc = [p \in Procs |-> "idle"]
    /\ edge = [p \in Procs |-> NoEdge]
    /\ pending = [p \in Procs |-> {}]
    /\ seen = [p \in Procs |-> {}]

GoTo(p, at) == pc' = [pc EXCEPT ![p] = at]

\* The process is idle again, its command accepted, refused or killed.
Over(p) ==
    /\ GoTo(p, "idle")
    /\ pending' = [pending EXCEPT ![p] = {}]
    /\ seen' = [seen EXCEPT ![p] = {}]
    /\ edge' = [edge EXCEPT ![p] = NoEdge]

\* `add': dependencies are not looked up, only a dependency on the new issue
\* itself is refused.
Add(i) ==
    /\ i \notin added
    /\ \E D \in SUBSET (IF dangling THEN Ids \ {i} ELSE added) :
           deps' = [deps EXCEPT ![i] = D]
    /\ added' = added \cup {i}
    /\ UNCHANGED <<ledger, search>>

\* Any other accepted command, `block' without --on included.
Command(p) ==
    /\ pc[p] = "idle"
    /\ \E i \in added, act \in Actions, force \in BOOLEAN :
           Perform(i, SessionOf[p], act, force)
    /\ UNCHANGED <<added, deps, search>>

\* The end of a session, a reap and the move to archive/.
TakenBack(i) == TakeBack(i) /\ UNCHANGED <<added, deps, search>>
Filed(i)     == File(i) /\ UNCHANGED <<added, deps, search>>

---------------------------------------------------------------------------
(******************************** block --on *******************************)

\* The cause is another issue, and it exists.
BlockBegin(p) ==
    /\ p \in Blockers /\ pc[p] = "idle"
    /\ \E e \in Edge :
        /\ e.from # e.on /\ e.on \in added
        /\ edge' = [edge EXCEPT ![p] = e]
        /\ pending' = [pending EXCEPT ![p] = {e.on}]
    /\ GoTo(p, "search")
    /\ UNCHANGED <<ledger, added, deps, seen>>

\* The dependencies of an issue as Show finds them; a missing issue ends the
\* chain.
Shown(i) == IF i \in added THEN deps[i] ELSE {}

Visit(p, d, more) ==
    /\ pending' = [pending EXCEPT ![p] = (@ \ {d}) \cup more]
    /\ seen' = [seen EXCEPT ![p] = @ \cup {d}]
    /\ UNCHANGED <<pc, edge>>

\* Mutant of SearchStep: only the dependencies of the cause are looked at.
SearchDirect(p) ==
    /\ pc[p] = "search"
    /\ \E d \in pending[p] :
        IF d = edge[p].from THEN Over(p)
        ELSE Visit(p, d, IF d = edge[p].on THEN Shown(d) ELSE {})
    /\ UNCHANGED <<ledger, added, deps>>

\* Mutant of SearchStep: an issue met twice is taken for a cycle.
SearchDiamond(p) ==
    /\ pc[p] = "search"
    /\ \E d \in pending[p] :
        IF d = edge[p].from \/ Shown(d) \cap (seen[p] \cup pending[p]) # {} THEN Over(p)
        ELSE Visit(p, d, Shown(d))
    /\ UNCHANGED <<ledger, added, deps>>

\* Mutant of SearchStep: visited issues are visited again.
SearchForgets(p) ==
    /\ pc[p] = "search"
    /\ \E d \in pending[p] :
        IF d = edge[p].from THEN Over(p) ELSE Visit(p, d, Shown(d))
    /\ UNCHANGED <<ledger, added, deps>>

\* One call of walk: refused when it meets the issue to be blocked.  The order
\* of the depth-first search does not matter and is left open.
SearchStep(p) ==
    /\ pc[p] = "search"
    /\ \E d \in pending[p] :
        IF d = edge[p].from THEN Over(p)
        ELSE Visit(p, d, Shown(d) \ (seen[p] \cup {d}))
    /\ UNCHANGED <<ledger, added, deps>>

SearchClear(p) ==
    /\ pc[p] = "search" /\ pending[p] = {}
    /\ GoTo(p, "update")
    /\ UNCHANGED <<ledger, added, deps, edge, pending, seen>>

\* The transition and the edge, in one compare-and-swap.
BlockUpdate(p) ==
    /\ pc[p] = "update" /\ edge[p].from \in added
    /\ Perform(edge[p].from, SessionOf[p], "block", FALSE)
    /\ deps' = [deps EXCEPT ![edge[p].from] = @ \cup {edge[p].on}]
    /\ Over(p)
    /\ UNCHANGED added

\* The transition is not permitted, every attempt was lost, or the process
\* was killed.
BlockFails(p) ==
    /\ pc[p] # "idle"
    /\ Over(p)
    /\ UNCHANGED <<ledger, added, deps>>

Search(p) == SearchStep(p) \/ SearchClear(p)

GraphNext ==
    /\ \/ \E i \in Ids : Add(i) \/ TakenBack(i) \/ Filed(i)
       \/ \E p \in Procs :
           \/ Command(p) \/ BlockBegin(p) \/ Search(p)
           \/ BlockUpdate(p) \/ BlockFails(p)
    /\ UNCHANGED dangling

GraphSpec == GraphInit /\ [][GraphNext]_graphVars

---------------------------------------------------------------------------
(****************************** Properties *********************************)

\* Type invariant.
GraphTypeOK ==
    /\ LedgerTypeOK
    /\ added \in SUBSET Ids
    /\ deps \in [Ids -> SUBSET Ids]
    /\ pc \in [Procs -> {"idle", "search", "update"}]
    /\ edge \in [Procs -> Edge \cup {NoEdge}]
    /\ pending \in [Procs -> SUBSET Ids]
    /\ seen \in [Procs -> SUBSET Ids]

\* Every set of issues has one that depends on none of them.
NoCycle ==
    \A C \in SUBSET Ids : C # {} => \E i \in C : deps[i] \cap C = {}

\* Where dependencies exist when an issue is added with them no cycle of them
\* arises, so that `next' always has somewhere to begin.
Acyclic == ~dangling => NoCycle

\* S holds the dependencies of its members that exist.
Closed(S) == \A i \in S \cap added : deps[i] \subseteq S

\* Issue y is among the direct and indirect dependencies of x, or is x.
DependsOn(x, y) == \A S \in SUBSET Ids : x \in S /\ Closed(S) => y \in S

\* The search of process p finds a cycle.
Refuses(p) == pc[p] = "search" /\ SearchStep(p) /\ pc'[p] = "idle"

\* A refusal is never a false alarm: although the search reads the issues one
\* after the other while others change them, the cause depends on the issue
\* to be blocked when the command is refused.
RefusedForACycle ==
    [][\A p \in Procs : Refuses(p) => DependsOn(edge[p].on, edge[p].from)]_graphVars

\* Every search ends, cycles or not, and however the graph grows meanwhile: a
\* search that goes on has just visited an issue it had not visited before, so
\* that each issue costs it one step.
SearchEnds ==
    [][\A p \in Procs : pc[p] = "search" /\ pc'[p] = "search" /\ pending'[p] # pending[p]
           => \E d \in Ids \ seen[p] : seen'[p] = seen[p] \cup {d}]_graphVars
===========================================================================
