---------------------------- MODULE RecordsProofs ---------------------------
(***************************************************************************)
(* Proofs about two kinds of records that agents write down and that share *)
(* no state: the dependencies between issues, with the search of block     *)
(* --on, and the numbers of what is added.  They hold for any numbers of   *)
(* issues, processes, sessions, documents and tries.                       *)
(***************************************************************************)
EXTENDS BlockGraph, Numbering, FiniteSetTheorems, TLAPS

-----------------------------------------------------------------------------
(***************************************************************************)
(* Dependencies. The search of block --on never raises a false alarm and   *)
(* never visits an issue twice, and as long as only one process blocks     *)
(* with --on, and dependencies exist when they are named, it keeps the     *)
(* dependency graph free of cycles.                                        *)
(***************************************************************************)

\* The ledger part of a step.
LedgerStep ==
    \/ UNCHANGED ledger
    \/ \E i \in Ids, s \in Sessions, act \in Actions, force \in BOOLEAN :
           Perform(i, s, act, force)
    \/ \E i \in Ids : TakeBack(i) \/ File(i)

LEMMA LedgerTyping ==
    ASSUME LedgerTypeOK, LedgerStep
    PROVE  LedgerTypeOK'
<1>1. CASE UNCHANGED ledger
  BY <1>1 DEF LedgerTypeOK, ledger
<1>2. ASSUME NEW i \in Ids, NEW s \in Sessions, NEW act \in Actions,
             NEW force \in BOOLEAN, Perform(i, s, act, force)
      PROVE  LedgerTypeOK'
  <2>1. To(act) \in Status
    BY DEF To, Status, Actions
  <2>2. NewOwner(act, owner[i], s) \in Owners
    BY DEF NewOwner, Owners, LedgerTypeOK
  <2> QED
    BY <1>2, <2>1, <2>2 DEF LedgerTypeOK, Perform
<1>3. ASSUME NEW i \in Ids, TakeBack(i)
      PROVE  LedgerTypeOK'
  BY <1>3 DEF LedgerTypeOK, TakeBack, ReapStatus, Status, Owners
<1>4. ASSUME NEW i \in Ids, File(i)
      PROVE  LedgerTypeOK'
  BY <1>4 DEF LedgerTypeOK, File
<1> QED
  BY <1>1, <1>2, <1>3, <1>4 DEF LedgerStep

---------------------------------------------------------------------------
\* Type invariant: the search of a process works on issues.
LEMMA GraphTypingInit == GraphInit => GraphTypeOK
  BY DEF GraphInit, GraphTypeOK, LedgerInit, LedgerTypeOK, Status, Owners

LEMMA GraphTypingStep ==
    ASSUME GraphTypeOK, [GraphNext]_graphVars
    PROVE  GraphTypeOK'
<1> USE BlockAssumption DEF GraphTypeOK
<1>1. CASE UNCHANGED graphVars
  BY <1>1 DEF graphVars, search, ledger, LedgerTypeOK
<1>2. ASSUME NEW i \in Ids, Add(i)
      PROVE  GraphTypeOK'
  <2>1. LedgerTypeOK'
    BY <1>2 DEF Add, ledger, LedgerTypeOK
  <2>2. /\ deps' \in [Ids -> SUBSET Ids]
        /\ added' \in SUBSET Ids
    BY <1>2 DEF Add
  <2> QED
    BY <1>2, <2>1, <2>2 DEF Add, search
<1>3. ASSUME NEW i \in Ids, TakenBack(i) \/ Filed(i)
      PROVE  GraphTypeOK'
  <2>1. LedgerTypeOK'
    BY <1>3, LedgerTyping DEF TakenBack, Filed, LedgerStep
  <2> QED
    BY <1>3, <2>1 DEF TakenBack, Filed, search
<1>4. ASSUME NEW p \in Procs, Command(p)
      PROVE  GraphTypeOK'
  <2>1. LedgerTypeOK'
    <3>1. PICK i \in added, act \in Actions, force \in BOOLEAN :
              Perform(i, SessionOf[p], act, force)
      BY <1>4 DEF Command
    <3>2. i \in Ids /\ SessionOf[p] \in Sessions
      OBVIOUS
    <3> QED
      BY <3>1, <3>2, LedgerTyping DEF LedgerStep
  <2> QED
    BY <1>4, <2>1 DEF Command, search
<1>5. ASSUME NEW p \in Procs, BlockBegin(p)
      PROVE  GraphTypeOK'
  <2>1. PICK e \in Edge : /\ edge' = [edge EXCEPT ![p] = e]
                          /\ pending' = [pending EXCEPT ![p] = {e.on}]
    BY <1>5 DEF BlockBegin
  <2>2. e.on \in Ids
    BY DEF Edge
  <2>3. LedgerTypeOK'
    BY <1>5 DEF BlockBegin, ledger, LedgerTypeOK
  <2> QED
    BY <1>5, <2>1, <2>2, <2>3 DEF BlockBegin, GoTo
<1>6. ASSUME NEW p \in Procs, SearchStep(p)
      PROVE  GraphTypeOK'
  <2>1. PICK d \in pending[p] :
            IF d = edge[p].from THEN Over(p)
            ELSE Visit(p, d, Shown(d) \ (seen[p] \cup {d}))
    BY <1>6 DEF SearchStep
  <2>2. LedgerTypeOK'
    BY <1>6 DEF SearchStep, ledger, LedgerTypeOK
  <2>3. CASE Over(p)
    BY <1>6, <2>2, <2>3 DEF SearchStep, Over, GoTo
  <2>4. CASE Visit(p, d, Shown(d) \ (seen[p] \cup {d}))
    <3>1. d \in Ids /\ Shown(d) \subseteq Ids
      BY DEF Shown
    <3> QED
      BY <1>6, <2>2, <2>4, <3>1 DEF SearchStep, Visit
  <2> QED
    BY <2>1, <2>3, <2>4
<1>7. ASSUME NEW p \in Procs, SearchClear(p)
      PROVE  GraphTypeOK'
  <2>1. LedgerTypeOK'
    BY <1>7 DEF SearchClear, ledger, LedgerTypeOK
  <2> QED
    BY <1>7, <2>1 DEF SearchClear, GoTo
<1>8. ASSUME NEW p \in Procs, BlockUpdate(p)
      PROVE  GraphTypeOK'
  <2>1. edge[p] # NoEdge \/ Nobody \in Ids
    BY <1>8 DEF BlockUpdate, NoEdge
  <2>2. edge[p].from \in Ids /\ edge[p].on \in Ids
    BY <1>8, <2>1 DEF BlockUpdate, Edge, NoEdge
  <2>3. LedgerTypeOK'
    <3>1. "block" \in Actions /\ SessionOf[p] \in Sessions
      BY DEF Actions
    <3> QED
      BY <1>8, <2>2, <3>1, LedgerTyping DEF BlockUpdate, LedgerStep
  <2> QED
    BY <1>8, <2>2, <2>3 DEF BlockUpdate, Over, GoTo
<1>9. ASSUME NEW p \in Procs, BlockFails(p)
      PROVE  GraphTypeOK'
  <2>1. LedgerTypeOK'
    BY <1>9 DEF BlockFails, ledger, LedgerTypeOK
  <2> QED
    BY <1>9, <2>1 DEF BlockFails, Over, GoTo
<1> QED
  BY <1>1, <1>2, <1>3, <1>4, <1>5, <1>6, <1>7, <1>8, <1>9 DEF GraphNext, Search

\* Every part of the state is of its type, whatever the issues, processes and
\* sessions are.
THEOREM GraphTyping == GraphSpec => []GraphTypeOK
<1>1. GraphInit => GraphTypeOK
  BY GraphTypingInit
<1>2. GraphTypeOK /\ [GraphNext]_graphVars => GraphTypeOK'
  BY GraphTypingStep
<1> QED
  BY <1>1, <1>2, PTL DEF GraphSpec

---------------------------------------------------------------------------
(************************* No false alarms *********************************)

\* What a search has met, the cause depends on.
Met == \A p \in Procs : \A d \in pending[p] \cup seen[p] : DependsOn(edge[p].on, d)

\* A process that does nothing has visited nothing.
Rested == \A p \in Procs : pc[p] = "idle" => seen[p] = {}

\* No dependency is ever removed.
Growing ==
    /\ added \subseteq added'
    /\ \A i \in Ids : i \in added => deps[i] \subseteq deps'[i]

LEMMA GraphGrows ==
    ASSUME GraphTypeOK, [GraphNext]_graphVars
    PROVE  Growing
<1> USE DEF Growing
<1>1. CASE UNCHANGED graphVars
  BY <1>1 DEF graphVars
<1>2. ASSUME NEW i \in Ids, Add(i)
      PROVE  Growing
  BY <1>2 DEF Add, GraphTypeOK
<1>3. ASSUME NEW i \in Ids, TakenBack(i) \/ Filed(i)
      PROVE  Growing
  BY <1>3 DEF TakenBack, Filed
<1>4. ASSUME NEW p \in Procs, BlockUpdate(p)
      PROVE  Growing
  BY <1>4 DEF BlockUpdate, GraphTypeOK
<1>5. ASSUME NEW p \in Procs,
             Command(p) \/ BlockBegin(p) \/ Search(p) \/ BlockFails(p)
      PROVE  Growing
  BY <1>5 DEF Command, BlockBegin, Search, SearchStep, SearchClear, BlockFails
<1> QED
  BY <1>1, <1>2, <1>3, <1>4, <1>5 DEF GraphNext

\* One step of a search and the processes it leaves alone.
Unsearched(p) ==
    edge'[p] = edge[p] /\ pending'[p] = pending[p] /\ seen'[p] = seen[p]

LEMMA RestedStep ==
    ASSUME GraphTypeOK, Rested, [GraphNext]_graphVars
    PROVE  Rested'
<1> USE DEF Rested, GraphTypeOK
<1>1. CASE UNCHANGED graphVars
  BY <1>1 DEF graphVars, search
<1>2. ASSUME NEW i \in Ids, Add(i) \/ TakenBack(i) \/ Filed(i)
      PROVE  Rested'
  BY <1>2 DEF Add, TakenBack, Filed, search
<1>3. ASSUME NEW p \in Procs, Command(p) \/ BlockBegin(p) \/ SearchClear(p)
      PROVE  Rested'
  BY <1>3 DEF Command, BlockBegin, SearchClear, GoTo, search
<1>4. ASSUME NEW p \in Procs, Over(p)
      PROVE  Rested'
  BY <1>4 DEF Over, GoTo
<1>5. ASSUME NEW p \in Procs, SearchStep(p)
      PROVE  Rested'
  <2>1. PICK d \in pending[p] : \/ Over(p)
                               \/ Visit(p, d, Shown(d) \ (seen[p] \cup {d}))
    BY <1>5 DEF SearchStep
  <2>2. CASE Visit(p, d, Shown(d) \ (seen[p] \cup {d}))
    BY <1>5, <2>2 DEF SearchStep, Visit
  <2> QED
    BY <1>4, <2>1, <2>2
<1> QED
  BY <1>1, <1>2, <1>3, <1>4, <1>5 DEF GraphNext, Search, BlockUpdate, BlockFails

LEMMA MetStep ==
    ASSUME GraphTypeOK, GraphTypeOK', Met, Rested, [GraphNext]_graphVars
    PROVE  Met'
<1>1. Growing
  BY GraphGrows
<1>2. ASSUME NEW q \in Procs, Unsearched(q), NEW d \in pending'[q] \cup seen'[q]
      PROVE  DependsOn(edge[q].on, d)'
  <2>1. d \in pending[q] \cup seen[q]
    BY <1>2 DEF Unsearched
  <2>2. d \in Ids
    BY <2>1 DEF GraphTypeOK
  <2>3. DependsOn(edge[q].on, d)
    BY <2>1 DEF Met
  <2>4. ASSUME NEW S \in SUBSET Ids, edge[q].on \in S, Closed(S)'
        PROVE  d \in S
    <3>1. Closed(S)
      BY <1>1, <2>4 DEF Closed, Growing
    <3> QED
      BY <2>3, <2>4, <3>1 DEF DependsOn
  <2> QED
    BY <1>2, <2>4 DEF DependsOn, Unsearched
<1>3. ASSUME NEW p \in Procs, Over(p), NEW q \in Procs
      PROVE  Unsearched(q) \/ (pending'[q] = {} /\ seen'[q] = {})
  BY <1>3 DEF Over, Unsearched, GraphTypeOK
<1>4. CASE \/ UNCHANGED graphVars
           \/ \E i \in Ids : Add(i) \/ TakenBack(i) \/ Filed(i)
           \/ \E p \in Procs : Command(p) \/ SearchClear(p)
  <2>1. \A q \in Procs : Unsearched(q)
    BY <1>4 DEF graphVars, search, Add, TakenBack, Filed, Command, SearchClear, Unsearched
  <2> QED
    BY <1>2, <2>1 DEF Met
<1>5. ASSUME NEW p \in Procs, BlockUpdate(p) \/ BlockFails(p)
      PROVE  Met'
  <2>1. Over(p)
    BY <1>5 DEF BlockUpdate, BlockFails
  <2> QED
    BY <1>2, <1>3, <2>1 DEF Met
<1>6. ASSUME NEW p \in Procs, BlockBegin(p)
      PROVE  Met'
  <2>1. PICK e \in Edge : /\ edge' = [edge EXCEPT ![p] = e]
                          /\ pending' = [pending EXCEPT ![p] = {e.on}]
    BY <1>6 DEF BlockBegin
  <2>2. seen' = seen
    BY <1>6 DEF BlockBegin
  <2>3. \A q \in Procs \ {p} : Unsearched(q)
    BY <2>1, <2>2 DEF Unsearched, GraphTypeOK
  <2>4. ASSUME NEW d \in pending'[p] \cup seen'[p]
        PROVE  DependsOn(edge[p].on, d)'
    <3>1. CASE d \in pending'[p]
      <4>1. d = edge'[p].on
        BY <2>1, <3>1 DEF GraphTypeOK
      <4> QED
        BY <4>1 DEF DependsOn
    <3>2. CASE d \in seen'[p]
      <4>1. seen[p] = {}
        BY <1>6 DEF BlockBegin, Rested
      <4> QED
        BY <2>2, <3>2, <4>1
    <3> QED
      BY <2>4, <3>1, <3>2
  <2> QED
    BY <1>2, <2>3, <2>4 DEF Met
<1>7. ASSUME NEW p \in Procs, SearchStep(p)
      PROVE  Met'
  <2>1. PICK d \in pending[p] :
            IF d = edge[p].from THEN Over(p)
            ELSE Visit(p, d, Shown(d) \ (seen[p] \cup {d}))
    BY <1>7 DEF SearchStep
  <2>2. CASE Over(p)
    BY <1>2, <1>3, <2>2 DEF Met
  <2>3. CASE Visit(p, d, Shown(d) \ (seen[p] \cup {d}))
    <3>1. \A q \in Procs \ {p} : Unsearched(q)
      BY <2>3 DEF Visit, Unsearched, GraphTypeOK
    <3>2. added' = added /\ deps' = deps /\ edge' = edge
      BY <1>7, <2>3 DEF SearchStep, Visit
    <3>3. ASSUME NEW c \in pending'[p] \cup seen'[p]
          PROVE  DependsOn(edge[p].on, c)
      <4>1. c \in pending[p] \cup seen[p] \/ c \in Shown(d)
        BY <2>3, <3>3 DEF Visit, GraphTypeOK
      <4>2. CASE c \in pending[p] \cup seen[p]
        BY <4>2 DEF Met
      <4>3. CASE c \in Shown(d)
        <5>1. DependsOn(edge[p].on, d) /\ d \in added /\ c \in deps[d]
          BY <4>3 DEF Met, Shown
        <5> QED
          BY <5>1 DEF DependsOn, Closed
      <4> QED
        BY <4>1, <4>2, <4>3
    <3>4. ASSUME NEW c \in pending'[p] \cup seen'[p]
          PROVE  DependsOn(edge[p].on, c)'
      BY <3>2, <3>3, <3>4 DEF DependsOn, Closed
    <3> QED
      BY <1>2, <3>1, <3>4 DEF Met
  <2> QED
    BY <2>1, <2>2, <2>3
<1> QED
  BY <1>4, <1>5, <1>6, <1>7 DEF GraphNext, Search

\* A refusal is never a false alarm, however many processes block at once and
\* whatever cycles the dependencies already hold.
THEOREM NoFalseAlarm == GraphSpec => RefusedForACycle
<1>1. GraphInit => GraphTypeOK /\ Met /\ Rested
  BY GraphTypingInit DEF GraphInit, Met, Rested
<1>2. GraphTypeOK /\ Met /\ Rested /\ [GraphNext]_graphVars
          => (GraphTypeOK /\ Met /\ Rested)'
  BY GraphTypingStep, MetStep, RestedStep
<1>3. GraphTypeOK /\ Met /\ [GraphNext]_graphVars =>
          [\A p \in Procs : Refuses(p) => DependsOn(edge[p].on, edge[p].from)]_graphVars
  <2> SUFFICES ASSUME GraphTypeOK, Met, NEW p \in Procs, Refuses(p)
               PROVE  DependsOn(edge[p].on, edge[p].from)
    OBVIOUS
  <2>1. PICK d \in pending[p] :
            IF d = edge[p].from THEN Over(p)
            ELSE Visit(p, d, Shown(d) \ (seen[p] \cup {d}))
    BY DEF Refuses, SearchStep
  <2>2. d = edge[p].from
    BY <2>1 DEF Refuses, Visit
  <2> QED
    BY <2>2 DEF Met
<1> QED
  BY <1>1, <1>2, <1>3, PTL DEF GraphSpec, RefusedForACycle

---------------------------------------------------------------------------
(*************************** No cycles *************************************)

\* What is still to be visited has not been visited.
Unvisited == \A p \in Procs : pending[p] \cap seen[p] = {}

LEMMA UnvisitedStep ==
    ASSUME GraphTypeOK, Rested, Unvisited, [GraphNext]_graphVars
    PROVE  Unvisited'
<1> USE DEF Unvisited, GraphTypeOK
<1>1. CASE \/ UNCHANGED graphVars
           \/ \E i \in Ids : Add(i) \/ TakenBack(i) \/ Filed(i)
           \/ \E p \in Procs : Command(p) \/ SearchClear(p)
  BY <1>1 DEF graphVars, search, Add, TakenBack, Filed, Command, SearchClear
<1>2. ASSUME NEW p \in Procs, BlockBegin(p)
      PROVE  Unvisited'
  BY <1>2 DEF BlockBegin, Rested
<1>3. ASSUME NEW p \in Procs, Over(p)
      PROVE  Unvisited'
  BY <1>3 DEF Over
<1>4. ASSUME NEW p \in Procs, SearchStep(p)
      PROVE  Unvisited'
  BY <1>3, <1>4 DEF SearchStep, Visit
<1> QED
  BY <1>1, <1>2, <1>3, <1>4 DEF GraphNext, Search, BlockUpdate, BlockFails

LEMMA SearchMoves ==
    ASSUME GraphTypeOK, Unvisited, GraphNext, NEW p \in Procs,
           pc[p] = "search", pc'[p] = "search", pending'[p] # pending[p]
    PROVE  \E d \in Ids \ seen[p] : seen'[p] = seen[p] \cup {d}
<1> USE DEF GraphTypeOK
<1>1. ASSUME NEW q \in Procs, Over(q)
      PROVE  q # p /\ pending'[p] = pending[p]
  BY <1>1 DEF Over, GoTo
<1>2. PICK q \in Procs : SearchStep(q)
  BY <1>1 DEF GraphNext, Search, Add, TakenBack, Filed, search, Command, BlockBegin, SearchClear,
              BlockUpdate, BlockFails, GoTo
<1>3. PICK d \in pending[q] : Visit(q, d, Shown(d) \ (seen[q] \cup {d}))
  BY <1>1, <1>2 DEF SearchStep
<1>4. q = p
  BY <1>3 DEF Visit
<1> QED
  BY <1>3, <1>4 DEF Visit, Unvisited

\* Every search ends: each step of it is spent on an issue it had not visited
\* before, in any graph, and however the graph grows meanwhile.
THEOREM SearchesEnd == GraphSpec => SearchEnds
<1> DEFINE I == GraphTypeOK /\ Rested /\ Unvisited
<1>1. GraphInit => I
  BY GraphTypingInit DEF GraphInit, Rested, Unvisited
<1>2. I /\ [GraphNext]_graphVars => I'
  BY GraphTypingStep, RestedStep, UnvisitedStep
<1>3. I /\ [GraphNext]_graphVars =>
          [\A p \in Procs : pc[p] = "search" /\ pc'[p] = "search" /\ pending'[p] # pending[p]
               => \E d \in Ids \ seen[p] : seen'[p] = seen[p] \cup {d}]_graphVars
  BY SearchMoves
<1> QED
  BY <1>1, <1>2, <1>3, PTL DEF GraphSpec, SearchEnds

\* Dependencies exist: nothing was added with one that was not there.
Rooted == \A i \in Ids : deps[i] \subseteq added /\ (i \notin added => deps[i] = {})

\* What the search of process b has established: the visited issues depend
\* only on issues visited or still to be visited, the cause is one of them,
\* and the issue to be blocked was not met.
Searched(b) ==
    pc[b] # "idle" =>
        /\ edge[b].on \in pending[b] \cup seen[b]
        /\ pending[b] \cup seen[b] \subseteq added
        /\ edge[b].from \notin seen[b]
        /\ \A i \in seen[b] : deps[i] \subseteq pending[b] \cup seen[b]
        /\ pc[b] = "update" => pending[b] = {}

\* Only process b blocks with --on.
Alone(b) == \A p \in Procs : p # b => pc[p] = "idle"

GraphInv(b) == GraphTypeOK /\ Rested /\ Rooted /\ Searched(b) /\ Alone(b) /\ NoCycle

\* Adding an edge whose source cannot be reached from its target.
LEMMA EdgeKeepsNoCycle ==
    ASSUME deps \in [Ids -> SUBSET Ids], NoCycle, NEW a \in Ids, NEW c \in Ids,
           NEW S \in SUBSET Ids, c \in S, a \notin S,
           \A i \in S : deps[i] \subseteq S,
           deps' = [deps EXCEPT ![a] = @ \cup {c}]
    PROVE  NoCycle'
<1> SUFFICES ASSUME NEW C \in SUBSET Ids, C # {}, \A i \in C : deps'[i] \cap C # {}
             PROVE  FALSE
  BY DEF NoCycle
<1>1. CASE deps[a] \cap C # {} \/ a \notin C
  <2>1. \A i \in C : deps[i] \cap C # {}
    BY <1>1
  <2> QED
    BY <2>1 DEF NoCycle
<1>2. CASE deps[a] \cap C = {} /\ a \in C
  <2>1. c \in C \cap S
    BY <1>2
  <2>2. \A i \in C \cap S : deps[i] \cap (C \cap S) # {}
    BY <1>2
  <2>3. C \cap S \in SUBSET Ids /\ C \cap S # {}
    BY <2>1
  <2> QED
    BY <2>2, <2>3 DEF NoCycle
<1> QED
  BY <1>1, <1>2

\* Adding an issue nothing depends on.
LEMMA IssueKeepsNoCycle ==
    ASSUME deps \in [Ids -> SUBSET Ids], NoCycle, Rooted, NEW i \in Ids, i \notin added,
           NEW D \in SUBSET added, added \subseteq Ids,
           deps' = [deps EXCEPT ![i] = D]
    PROVE  NoCycle'
<1> SUFFICES ASSUME NEW C \in SUBSET Ids, C # {}, \A j \in C : deps'[j] \cap C # {}
             PROVE  FALSE
  BY DEF NoCycle
<1>1. \A j \in Ids : deps'[j] \subseteq added
  BY DEF Rooted
<1>2. C \ {i} # {}
  BY <1>1
<1>3. \A j \in C \ {i} : deps[j] \cap (C \ {i}) # {}
  BY <1>1
<1>4. C \ {i} \in SUBSET Ids
  OBVIOUS
<1> QED
  BY <1>2, <1>3, <1>4 DEF NoCycle

LEMMA GraphInvStep ==
    ASSUME NEW b \in Procs, Blockers = {b}, ~dangling,
           GraphInv(b), [GraphNext]_graphVars
    PROVE  GraphInv(b)'
<1>1. GraphTypeOK' /\ Rested'
  BY GraphTypingStep, RestedStep DEF GraphInv
<1> USE DEF GraphInv
<1>2. CASE UNCHANGED <<added, deps, search>>
  <2>1. Rooted' /\ NoCycle' /\ Searched(b)' /\ Alone(b)'
    BY <1>2 DEF Rooted, NoCycle, Searched, Alone, search
  <2> QED
    BY <1>1, <2>1
<1>3. ASSUME NEW i \in Ids, Add(i)
      PROVE  GraphInv(b)'
  <2>1. PICK D \in SUBSET added : deps' = [deps EXCEPT ![i] = D]
    BY <1>3 DEF Add
  <2>2. i \notin added /\ added' = added \cup {i} /\ UNCHANGED search
    BY <1>3 DEF Add
  <2>3. NoCycle'
    BY <2>1, <2>2, IssueKeepsNoCycle DEF GraphTypeOK
  <2>4. Rooted'
    BY <2>1, <2>2 DEF Rooted, GraphTypeOK
  <2>5. Searched(b)'
    BY <2>1, <2>2 DEF Searched, search, GraphTypeOK
  <2>6. Alone(b)'
    BY <2>2 DEF Alone, search
  <2> QED
    BY <1>1, <2>3, <2>4, <2>5, <2>6
<1>4. ASSUME NEW p \in Procs, BlockBegin(p)
      PROVE  GraphInv(b)'
  <2>1. p = b
    BY <1>4 DEF BlockBegin
  <2>2. PICK e \in Edge : /\ e.on \in added
                          /\ edge' = [edge EXCEPT ![b] = e]
                          /\ pending' = [pending EXCEPT ![b] = {e.on}]
    BY <1>4, <2>1 DEF BlockBegin
  <2>3. UNCHANGED <<added, deps, seen>> /\ pc' = [pc EXCEPT ![b] = "search"]
    BY <1>4, <2>1 DEF BlockBegin, GoTo
  <2>4. seen[b] = {}
    BY <1>4, <2>1 DEF BlockBegin, Rested
  <2>5. Searched(b)'
    BY <2>2, <2>3, <2>4 DEF Searched, GraphTypeOK
  <2>6. Rooted' /\ NoCycle' /\ Alone(b)'
    BY <2>3 DEF Rooted, NoCycle, Alone, GraphTypeOK
  <2> QED
    BY <1>1, <2>5, <2>6
<1>5. ASSUME NEW p \in Procs, Over(p), UNCHANGED <<added, deps>>
      PROVE  GraphInv(b)'
  <2>1. Searched(b)' /\ Alone(b)'
    BY <1>5 DEF Searched, Alone, Over, GoTo, GraphTypeOK
  <2>2. Rooted' /\ NoCycle'
    BY <1>5 DEF Rooted, NoCycle
  <2> QED
    BY <1>1, <2>1, <2>2
<1>6. ASSUME NEW p \in Procs, SearchStep(p)
      PROVE  GraphInv(b)'
  <2>1. p = b
    BY <1>6 DEF SearchStep, Alone
  <2>2. PICK d \in pending[b] :
            IF d = edge[b].from THEN Over(b)
            ELSE Visit(b, d, Shown(d) \ (seen[b] \cup {d}))
    BY <1>6, <2>1 DEF SearchStep
  <2>3. UNCHANGED <<added, deps>> /\ pc[b] = "search"
    BY <1>6, <2>1 DEF SearchStep
  <2>4. CASE Over(b)
    BY <1>5, <2>3, <2>4
  <2>5. CASE d # edge[b].from /\ Visit(b, d, Shown(d) \ (seen[b] \cup {d}))
    <3>1. /\ pending'[b] = (pending[b] \ {d}) \cup (Shown(d) \ (seen[b] \cup {d}))
          /\ seen'[b] = seen[b] \cup {d}
          /\ UNCHANGED <<pc, edge>>
      BY <2>5 DEF Visit, GraphTypeOK
    <3>2. d \in added /\ Shown(d) = deps[d] /\ deps[d] \subseteq added
      BY <2>3 DEF Searched, Shown, Rooted, GraphTypeOK
    <3>3. pending'[b] \cup seen'[b] = pending[b] \cup seen[b] \cup deps[d]
      BY <3>1, <3>2
    <3>4. Searched(b)'
      BY <2>3, <2>5, <3>1, <3>2, <3>3 DEF Searched
    <3>5. Rooted' /\ NoCycle' /\ Alone(b)'
      BY <2>3, <3>1 DEF Rooted, NoCycle, Alone
    <3> QED
      BY <1>1, <3>4, <3>5
  <2> QED
    BY <2>2, <2>4, <2>5
<1>7. ASSUME NEW p \in Procs, SearchClear(p)
      PROVE  GraphInv(b)'
  <2>1. p = b
    BY <1>7 DEF SearchClear, Alone
  <2>2. Searched(b)' /\ Alone(b)'
    BY <1>7, <2>1 DEF Searched, Alone, SearchClear, GoTo, GraphTypeOK
  <2>3. Rooted' /\ NoCycle'
    BY <1>7 DEF Rooted, NoCycle, SearchClear
  <2> QED
    BY <1>1, <2>2, <2>3
<1>8. ASSUME NEW p \in Procs, BlockUpdate(p)
      PROVE  GraphInv(b)'
  <2>1. p = b
    BY <1>8 DEF BlockUpdate, Alone
  <2>2. /\ edge[b].from \in added /\ added' = added /\ Over(b)
        /\ deps' = [deps EXCEPT ![edge[b].from] = @ \cup {edge[b].on}]
        /\ pc[b] = "update"
    BY <1>8, <2>1 DEF BlockUpdate
  <2>3. /\ edge[b].on \in seen[b] /\ edge[b].from \notin seen[b]
        /\ \A i \in seen[b] : deps[i] \subseteq seen[b]
        /\ seen[b] \subseteq added
    BY <2>2 DEF Searched
  <2>4. seen[b] \in SUBSET Ids /\ added \subseteq Ids
    BY DEF GraphTypeOK
  <2>5. NoCycle'
    BY <2>2, <2>3, <2>4, EdgeKeepsNoCycle DEF GraphTypeOK
  <2>6. Rooted'
    BY <2>2, <2>3, <2>4 DEF Rooted, GraphTypeOK
  <2>7. Searched(b)' /\ Alone(b)'
    BY <2>2 DEF Searched, Alone, Over, GoTo, GraphTypeOK
  <2> QED
    BY <1>1, <2>5, <2>6, <2>7
<1> QED
  <2>1. CASE UNCHANGED graphVars
    BY <1>2, <2>1 DEF graphVars
  <2>2. ASSUME NEW i \in Ids, TakenBack(i) \/ Filed(i)
        PROVE  GraphInv(b)'
    BY <1>2, <2>2 DEF TakenBack, Filed
  <2>3. ASSUME NEW p \in Procs, Command(p)
        PROVE  GraphInv(b)'
    BY <1>2, <2>3 DEF Command
  <2>4. ASSUME NEW p \in Procs, BlockFails(p)
        PROVE  GraphInv(b)'
    BY <1>5, <2>4 DEF BlockFails
  <2> QED
    BY <1>3, <1>4, <1>6, <1>7, <1>8, <2>1, <2>2, <2>3, <2>4 DEF GraphNext, Search

\* With one process at a time that blocks with --on, and dependencies that
\* exist when an issue is added with them, no cycle of dependencies arises,
\* whatever the other processes do while the search runs.
THEOREM CyclesRefused ==
    ASSUME NEW b \in Procs, Blockers = {b}
    PROVE  GraphSpec => []Acyclic
<1> DEFINE I == ~dangling => GraphInv(b)
<1>1. GraphInit => I
  <2> SUFFICES ASSUME GraphInit
               PROVE  GraphInv(b)
    OBVIOUS
  <2>1. GraphTypeOK
    BY GraphTypingInit
  <2>2. NoCycle
    BY DEF GraphInit, NoCycle
  <2> QED
    BY <2>1, <2>2 DEF GraphInit, GraphInv, Rested, Rooted, Searched, Alone
<1>2. I /\ [GraphNext]_graphVars => I'
  <2> SUFFICES ASSUME I, [GraphNext]_graphVars, ~dangling'
               PROVE  GraphInv(b)'
    OBVIOUS
  <2>1. ~dangling
    BY DEF GraphNext, graphVars
  <2> QED
    BY <2>1, GraphInvStep
<1>3. I => Acyclic
  BY DEF GraphInv, Acyclic
<1> QED
  BY <1>1, <1>2, <1>3, PTL DEF GraphSpec

-----------------------------------------------------------------------------
(***************************************************************************)
(* Numbers. A number in use when a process began is not tried, no document *)
(* is lost, decisions supersede older ones only, and where nothing moves   *)
(* to archive/ a number is given once.                                     *)
(***************************************************************************)

\* What is in use stays in use.
InUse == \A p \in Adders : step[p] # "idle" => before[p] \subseteq Numbers(live \cup archive)

\* A number in use when a process began is at most the largest one listed or
\* is still to be listed.
Listed ==
    \A p \in Adders : step[p] = "archive" =>
        \A n \in before[p] : n <= high[p] \/ n \in Numbers(archive)

\* A process tries a number, and supersedes one that was in use.
Trying ==
    \A p \in Adders :
        /\ step[p] = "create" => num[p] # 0
        /\ step[p] # "idle" => link[p] = 0 \/ link[p] \in before[p]

NumberingInv ==
    NumberingTypeOK /\ InUse /\ Listed /\ Trying /\ AboveEarlier /\ LinksDescend

\* Processes that did not take the step keep what they have found out.
Waits(p) ==
    /\ step'[p] = step[p] /\ link'[p] = link[p] /\ high'[p] = high[p]
    /\ num'[p] = num[p] /\ tries'[p] = tries[p] /\ before'[p] = before[p]

\* Idle again.
Rests(p) == step'[p] = "idle"

LEMMA OverRests ==
    ASSUME NumberingTypeOK, NEW p \in Adders, Stops(p), NEW q \in Adders
    PROVE  Waits(q) \/ Rests(q)
  BY DEF Stops, Waits, Rests, NumberingTypeOK

\* Refs only move, so the facts about numbers in use stay true.
Grown == live \cup archive \subseteq live' \cup archive' /\ archive \subseteq archive'

LEMMA GrownKeeps ==
    ASSUME NumberingInv, Grown, NEW q \in Adders, Waits(q) \/ Rests(q)
    PROVE  /\ step'[q] # "idle" => before'[q] \subseteq Numbers(live' \cup archive')
           /\ step'[q] = "archive" =>
                  \A n \in before'[q] : n <= high'[q] \/ n \in Numbers(archive')
           /\ step'[q] = "create" => num'[q] # 0
           /\ step'[q] # "idle" => link'[q] = 0 \/ link'[q] \in before'[q]
           /\ step'[q] = "create" => \A n \in before'[q] : n < num'[q]
  BY DEF NumberingInv, Grown, Waits, Rests, InUse, Listed, Trying, AboveEarlier, Numbers

\* A step that adds no ref keeps the invariant if the state of the process
\* that took it is right afterwards.
Good(q) ==
    /\ step[q] # "idle" => before[q] \subseteq Numbers(live \cup archive)
    /\ step[q] = "archive" => \A n \in before[q] : n <= high[q] \/ n \in Numbers(archive)
    /\ step[q] = "create" => num[q] # 0
    /\ step[q] # "idle" => link[q] = 0 \/ link[q] \in before[q]
    /\ step[q] = "create" => \A n \in before[q] : n < num[q]

LEMMA AllGood ==
    ASSUME NumberingTypeOK', LinksDescend', \A q \in Adders : Good(q)'
    PROVE  NumberingInv'
  BY DEF NumberingInv, InUse, Listed, Trying, AboveEarlier, Good

LEMMA Typing ==
    ASSUME NumberingTypeOK, Trying, [NumberingNext]_docVars
    PROVE  NumberingTypeOK'
<1> USE NumberingAssumption DEF NumberingTypeOK
<1>0. kind' = kind
  BY DEF NumberingNext, docVars
<1>1. CASE UNCHANGED docVars
  BY <1>0, <1>1 DEF docVars, locals
<1>2. ASSUME NEW p \in Adders, Begin(p)
      PROVE  NumberingTypeOK'
  <2>1. PICK n \in Superseded : link' = [link EXCEPT ![p] = n]
    BY <1>0, <1>2 DEF Begin
  <2>2. n \in Nat
    BY DEF Superseded, Numbers, Refs
  <2>3. Numbers(live \cup archive) \in SUBSET Nat
    BY DEF Numbers, Refs
  <2> QED
    BY <1>0, <1>2, <2>1, <2>2, <2>3 DEF Begin, Advance
<1>3. ASSUME NEW p \in Adders, ListLive(p)
      PROVE  NumberingTypeOK'
  BY <1>0, <1>3 DEF ListLive, Advance, Candidates
<1>4. ASSUME NEW p \in Adders, ListArchive(p)
      PROVE  NumberingTypeOK'
  BY <1>0, <1>4 DEF ListArchive, Advance, Candidates
<1>5. ASSUME NEW p \in Adders, Stops(p), live' \subseteq Refs, archive' \subseteq Refs,
             made' \in 0..MaxDocs
      PROVE  NumberingTypeOK'
  BY <1>0, <1>5 DEF Stops
<1>6. ASSUME NEW p \in Adders, Create(p)
      PROVE  NumberingTypeOK'
  <2>1. NewRef(p) \in Refs
    BY <1>0, <1>6 DEF Create, NewRef, Refs, Trying
  <2> QED
    BY <1>0, <1>5, <1>6, <2>1 DEF Create
<1>7. ASSUME NEW p \in Adders, Taken(p)
      PROVE  NumberingTypeOK'
  BY <1>0, <1>7 DEF Taken
<1>8. ASSUME NEW p \in Adders, Exhausted(p) \/ Abandon(p)
      PROVE  NumberingTypeOK'
  BY <1>0, <1>5, <1>8 DEF Exhausted, Abandon
<1>9. ASSUME NEW r \in live, Move(r)
      PROVE  NumberingTypeOK'
  BY <1>0, <1>9 DEF Move, locals
<1> QED
  BY <1>1, <1>2, <1>3, <1>4, <1>6, <1>7, <1>8, <1>9 DEF NumberingNext

LEMMA Moving ==
    ASSUME NumberingTypeOK, [NumberingNext]_docVars
    PROVE  Grown
<1>1. CASE UNCHANGED docVars
  BY <1>1 DEF docVars, Grown
<1>2. ASSUME NEW p \in Adders, Begin(p) \/ ListLive(p) \/ ListArchive(p) \/ Taken(p)
                              \/ Exhausted(p) \/ Abandon(p)
      PROVE  Grown
  BY <1>2 DEF Begin, ListLive, ListArchive, Taken, Exhausted, Abandon, Grown
<1>3. ASSUME NEW p \in Adders, Create(p)
      PROVE  Grown
  BY <1>3 DEF Create, Grown
<1>4. ASSUME NEW r \in live, Move(r)
      PROVE  Grown
  BY <1>4 DEF Move, Grown
<1> QED
  BY <1>1, <1>2, <1>3, <1>4 DEF NumberingNext

LEMMA NumberingStep ==
    ASSUME NumberingInv, [NumberingNext]_docVars
    PROVE  NumberingInv'
<1>1. NumberingTypeOK' /\ Grown
  BY Typing, Moving DEF NumberingInv
<1> USE NumberingAssumption
<1>2. ASSUME NEW q \in Adders, Waits(q) \/ Rests(q)
      PROVE  Good(q)'
  BY <1>1, <1>2, GrownKeeps DEF Good
<1>3. ASSUME live' \cup archive' \subseteq live \cup archive
      PROVE  LinksDescend'
  BY <1>3 DEF NumberingInv, LinksDescend
<1>4. CASE UNCHANGED docVars
  <2>1. \A q \in Adders : Waits(q)
    BY <1>4 DEF docVars, locals, Waits
  <2>2. LinksDescend'
    BY <1>3, <1>4 DEF docVars
  <2> QED
    BY <1>1, <1>2, <2>1, <2>2, AllGood
<1>5. ASSUME NEW p \in Adders, Begin(p)
      PROVE  NumberingInv'
  <2>1. \A q \in Adders \ {p} : Waits(q)
    BY <1>5 DEF Begin, Advance, Waits, NumberingInv, NumberingTypeOK
  <2>2. PICK n \in Superseded : link' = [link EXCEPT ![p] = n]
    BY <1>5 DEF Begin
  <2>3. n = 0 \/ n \in Numbers(live \cup archive)
    BY DEF Superseded, Numbers
  <2>4. Good(p)'
    BY <1>5, <2>2, <2>3 DEF Begin, Advance, Good, NumberingInv, NumberingTypeOK
  <2>5. LinksDescend'
    BY <1>3, <1>5 DEF Begin
  <2> QED
    BY <1>1, <1>2, <2>1, <2>4, <2>5, AllGood
<1>6. ASSUME NEW p \in Adders, ListLive(p)
      PROVE  NumberingInv'
  <2>1. \A q \in Adders \ {p} : Waits(q)
    BY <1>6 DEF ListLive, Advance, Waits, NumberingInv, NumberingTypeOK
  <2>2. PICK h \in Candidates : Largest(h, live, 0) /\ high' = [high EXCEPT ![p] = h]
    BY <1>6 DEF ListLive
  <2>3. \A n \in before[p] : n <= h \/ n \in Numbers(archive)
    <3>1. ASSUME NEW n \in before[p]
          PROVE  n <= h \/ n \in Numbers(archive)
      <4>1. n \in Numbers(live) \/ n \in Numbers(archive)
        BY <1>6 DEF ListLive, Advance, NumberingInv, InUse, Numbers
      <4>2. n \in Nat /\ h \in Nat
        BY DEF NumberingInv, NumberingTypeOK, Candidates
      <4> QED
        BY <2>2, <4>1, <4>2 DEF Largest
    <3> QED
      BY <3>1
  <2>4. Good(p)'
    BY <1>6, <2>2, <2>3
       DEF ListLive, Advance, Good, NumberingInv, NumberingTypeOK, InUse, Trying
  <2>5. LinksDescend'
    BY <1>3, <1>6 DEF ListLive
  <2> QED
    BY <1>1, <1>2, <2>1, <2>4, <2>5, AllGood
<1>7. ASSUME NEW p \in Adders, ListArchive(p)
      PROVE  NumberingInv'
  <2>1. \A q \in Adders \ {p} : Waits(q)
    BY <1>7 DEF ListArchive, Advance, Waits, NumberingInv, NumberingTypeOK
  <2>2. PICK h \in Candidates : Largest(h, archive, high[p]) /\ num' = [num EXCEPT ![p] = h + 1]
    BY <1>7 DEF ListArchive
  <2>3. \A n \in before[p] : n < h + 1
    <3>1. ASSUME NEW n \in before[p]
          PROVE  n < h + 1
      <4>1. n <= high[p] \/ n \in Numbers(archive)
        BY <1>7 DEF ListArchive, Advance, NumberingInv, Listed
      <4>2. n \in Nat /\ h \in Nat /\ high[p] \in Nat
        BY DEF NumberingInv, NumberingTypeOK, Candidates
      <4> QED
        BY <2>2, <4>1, <4>2 DEF Largest
    <3> QED
      BY <3>1
  <2>4. h + 1 # 0
    BY DEF Candidates
  <2>5. Good(p)'
    BY <1>7, <2>2, <2>3, <2>4
       DEF ListArchive, Advance, Good, NumberingInv, NumberingTypeOK, InUse, Trying
  <2>6. LinksDescend'
    BY <1>3, <1>7 DEF ListArchive
  <2> QED
    BY <1>1, <1>2, <2>1, <2>5, <2>6, AllGood
<1>8. ASSUME NEW p \in Adders, Create(p)
      PROVE  NumberingInv'
  <2>1. \A q \in Adders : Waits(q) \/ Rests(q)
    BY <1>8, OverRests DEF Create, NumberingInv
  <2>2. link[p] < num[p]
    <3>1. link[p] \in Nat /\ num[p] \in Nat
      BY DEF NumberingInv, NumberingTypeOK
    <3> QED
      BY <1>8, <3>1 DEF Create, NumberingInv, Trying, AboveEarlier
  <2>3. LinksDescend'
    BY <1>8, <2>2 DEF Create, NewRef, NumberingInv, LinksDescend
  <2> QED
    BY <1>1, <1>2, <2>1, <2>3, AllGood
<1>9. ASSUME NEW p \in Adders, Taken(p)
      PROVE  NumberingInv'
  <2>1. \A q \in Adders \ {p} : Waits(q)
    BY <1>9 DEF Taken, Waits, NumberingInv, NumberingTypeOK
  <2>2. num[p] \in Nat /\ before[p] \in SUBSET Nat
    BY DEF NumberingInv, NumberingTypeOK
  <2>3. Good(p)'
    <3>1. /\ num'[p] = num[p] + 1 /\ step[p] = "create"
          /\ UNCHANGED <<live, archive, step, link, high, before>>
      BY <1>9 DEF Taken, NumberingInv, NumberingTypeOK
    <3>2. num'[p] # 0 /\ \A n \in before'[p] : n < num'[p]
      BY <2>2, <3>1 DEF NumberingInv, AboveEarlier
    <3> QED
      BY <3>1, <3>2 DEF Good, NumberingInv, InUse, Trying
  <2>4. LinksDescend'
    BY <1>3, <1>9 DEF Taken
  <2> QED
    BY <1>1, <1>2, <2>1, <2>3, <2>4, AllGood
<1>10. ASSUME NEW p \in Adders, Exhausted(p) \/ Abandon(p)
       PROVE  NumberingInv'
  <2>1. \A q \in Adders : Waits(q) \/ Rests(q)
    BY <1>10, OverRests DEF Exhausted, Abandon, NumberingInv
  <2>2. LinksDescend'
    BY <1>3, <1>10 DEF Exhausted, Abandon
  <2> QED
    BY <1>1, <1>2, <2>1, <2>2, AllGood
<1>11. ASSUME NEW r \in live, Move(r)
       PROVE  NumberingInv'
  <2>1. \A q \in Adders : Waits(q)
    BY <1>11 DEF Move, locals, Waits
  <2>2. LinksDescend'
    BY <1>3, <1>11 DEF Move
  <2> QED
    BY <1>1, <1>2, <2>1, <2>2, AllGood
<1> QED
  BY <1>4, <1>5, <1>6, <1>7, <1>8, <1>9, <1>10, <1>11 DEF NumberingNext

LEMMA NumberingInvariance == NumberingSpec => []NumberingInv
<1>1. NumberingInit => NumberingInv
  BY NumberingAssumption
     DEF NumberingInit, NumberingInv, NumberingTypeOK, InUse, Listed, Trying,
         AboveEarlier, LinksDescend
<1>2. NumberingInv /\ [NumberingNext]_docVars => NumberingInv'
  BY NumberingStep
<1> QED
  BY <1>1, <1>2, PTL DEF NumberingSpec

\* The state is of its type: no process tries more numbers than it may, for any
\* numbers of processes and documents.
THEOREM NumberingTyping == NumberingSpec => []NumberingTypeOK
<1>1. NumberingInv => NumberingTypeOK
  BY DEF NumberingInv
<1> QED
  BY <1>1, NumberingInvariance, PTL

\* Numbers in use when a process began are never tried: the order of the two
\* listings makes up for issues that move between them.
THEOREM FreshNumbers == NumberingSpec => []AboveEarlier
<1>1. NumberingInv => AboveEarlier
  BY DEF NumberingInv
<1> QED
  BY <1>1, NumberingInvariance, PTL

\* The decisions superseded one after the other have ever smaller numbers, so
\* there is no cycle and every history ends.
THEOREM Descending == NumberingSpec => []LinksDescend
<1>1. NumberingInv => LinksDescend
  BY DEF NumberingInv
<1> QED
  BY <1>1, NumberingInvariance, PTL

\* No document is lost, created over or dropped on the way to archive/.
THEOREM Kept == NumberingSpec => NothingLost
<1>1. NumberingInv /\ [NumberingNext]_docVars =>
          [live \cup archive \subseteq live' \cup archive']_docVars
  BY Moving DEF NumberingInv, Grown
<1> QED
  BY <1>1, NumberingInvariance, PTL DEF NumberingSpec, NothingLost

\* The numbers a process has tried in vain are taken, by documents that were
\* added since it began: they follow each other up to the one it tries next.
Vain(p) ==
    step[p] = "create" =>
        /\ tries[p] < num[p]
        /\ \A n \in Nat : n < num[p] /\ num[p] <= n + tries[p]
                            => n \in Numbers(live \cup archive)
        /\ \A n \in before[p] : n + tries[p] < num[p]

\* Only finitely many documents are there at any time.
Crowd == IsFiniteSet(live \cup archive) /\ \A p \in Adders : Vain(p)

LEMMA VainStays ==
    ASSUME NumberingInv, Crowd, Grown, NEW q \in Adders, Waits(q) \/ Rests(q)
    PROVE  Vain(q)'
  BY DEF Crowd, Vain, Grown, Waits, Rests, Numbers

LEMMA FinitelyMany ==
    ASSUME Crowd, [NumberingNext]_docVars
    PROVE  IsFiniteSet(live' \cup archive')
<1> DEFINE All == live \cup archive
<1>1. IsFiniteSet(All) /\ \A x : IsFiniteSet(All \cup {x})
  BY FS_AddElement DEF Crowd
<1>2. ASSUME NEW p \in Adders, Create(p)
      PROVE  IsFiniteSet(live' \cup archive')
  <2>1. live' \cup archive' = All \cup {NewRef(p)}
    BY <1>2 DEF Create
  <2> QED
    BY <1>1, <2>1
<1>3. ASSUME NEW r \in live, Move(r)
      PROVE  IsFiniteSet(live' \cup archive')
  <2>1. live' \cup archive' = All
    BY <1>3 DEF Move
  <2> QED
    BY <1>1, <2>1
<1>4. CASE UNCHANGED <<live, archive>>
  BY <1>1, <1>4
<1> QED
  BY <1>2, <1>3, <1>4 DEF NumberingNext, docVars, Begin, ListLive, ListArchive, Taken, Exhausted,
     Abandon

LEMMA CrowdStep ==
    ASSUME NumberingInv, NumberingInv', Crowd, [NumberingNext]_docVars
    PROVE  Crowd'
<1>1. IsFiniteSet(live' \cup archive') /\ Grown
  BY FinitelyMany, Moving DEF NumberingInv
<1> SUFFICES ASSUME NEW q \in Adders PROVE Vain(q)'
  BY <1>1 DEF Crowd
<1>2. CASE UNCHANGED docVars
  BY <1>2 DEF docVars, locals, Crowd, Vain
<1>3. ASSUME NEW p \in Adders, Begin(p) \/ ListLive(p)
      PROVE  Vain(q)'
  <2>1. CASE p = q
    BY <1>3, <2>1 DEF Begin, ListLive, Advance, Vain, NumberingInv, NumberingTypeOK
  <2>2. CASE p # q
    BY <1>1, <1>3, <2>2, VainStays DEF Begin, ListLive, Advance, Waits, NumberingInv, NumberingTypeOK
  <2> QED
    BY <2>1, <2>2
<1>4. ASSUME NEW p \in Adders, ListArchive(p)
      PROVE  Vain(q)'
  <2>1. CASE p = q
    <3>1. tries'[q] = 0 /\ step'[q] = "create" /\ num'[q] \in Nat \ {0} /\ before'[q] \in SUBSET Nat
      BY <1>4, <2>1 DEF ListArchive, Advance, NumberingInv, NumberingTypeOK, Trying
    <3>2. \A n \in before'[q] : n < num'[q]
      BY <3>1 DEF NumberingInv, AboveEarlier
    <3> QED
      BY <3>1, <3>2 DEF Vain
  <2>2. CASE p # q
    BY <1>1, <1>4, <2>2, VainStays DEF ListArchive, Advance, Waits, NumberingInv, NumberingTypeOK
  <2> QED
    BY <2>1, <2>2
<1>5. ASSUME NEW p \in Adders, Stops(p)
      PROVE  Vain(q)'
  BY <1>1, <1>5, OverRests, VainStays DEF NumberingInv
<1>6. ASSUME NEW p \in Adders, Taken(p)
      PROVE  Vain(q)'
  <2>1. CASE p = q
    <3>1. /\ num'[q] = num[q] + 1 /\ tries'[q] = tries[q] + 1 /\ step[q] = "create"
          /\ num[q] \in Numbers(live) /\ live' = live /\ archive' = archive /\ before' = before
      BY <1>6, <2>1 DEF Taken, NumberingInv, NumberingTypeOK
    <3>2. num[q] \in Nat /\ tries[q] \in Nat /\ before[q] \in SUBSET Nat
      BY NumberingAssumption DEF NumberingInv, NumberingTypeOK
    <3>3. num[q] \in Numbers(live \cup archive)
      BY <3>1 DEF Numbers
    <3>4. Vain(q)
      BY DEF Crowd
    <3>5. ASSUME NEW n \in Nat, n < num'[q], num'[q] <= n + tries'[q]
          PROVE  n \in Numbers(live \cup archive)
      <4>1. CASE n = num[q]
        BY <3>3, <4>1
      <4>2. CASE n # num[q]
        <5>1. n < num[q] /\ num[q] <= n + tries[q]
          BY <3>1, <3>2, <3>5, <4>2
        <5> QED
          BY <3>1, <3>4, <5>1 DEF Vain
      <4> QED
        BY <4>1, <4>2
    <3>6. ASSUME NEW n \in before[q]
          PROVE  n + tries'[q] < num'[q]
      BY <3>1, <3>2, <3>4, <3>6 DEF Vain
    <3>7. tries'[q] < num'[q]
      BY <3>1, <3>2, <3>4 DEF Vain
    <3>8. live' \cup archive' = live \cup archive /\ Numbers(live' \cup archive') = Numbers(live \cup archive)
      BY <3>1
    <3> QED
      BY <3>1, <3>5, <3>6, <3>7, <3>8 DEF Vain, Numbers
  <2>2. CASE p # q
    BY <1>1, <1>6, <2>2, VainStays DEF Taken, Waits, NumberingInv, NumberingTypeOK
  <2> QED
    BY <2>1, <2>2
<1>7. ASSUME NEW r \in live, Move(r)
      PROVE  Vain(q)'
  BY <1>1, <1>7, VainStays DEF Move, locals, Waits
<1> QED
  BY <1>2, <1>3, <1>4, <1>5, <1>6, <1>7 DEF NumberingNext, Create, Exhausted, Abandon

\* When a process gives up, MaxTries numbers in a row are taken by documents
\* added since it began, of which each takes one.
LEMMA CrowdedThen ==
    ASSUME NumberingInv, Crowd, NEW p \in Adders, Exhausted(p)
    PROVE  Cardinality({r \in live \cup archive : r.num \notin before[p]}) >= MaxTries
<1> DEFINE S == {r \in live \cup archive : r.num \notin before[p]}
           low == num[p] - tries[p]
           chosen == [n \in low .. num[p] |-> CHOOSE r \in S : r.num = n]
<1>1. /\ step[p] = "create" /\ num[p] \in Numbers(live) /\ MaxTries \in Nat
      /\ num[p] \in Nat /\ tries[p] \in Nat /\ tries[p] + 1 >= MaxTries /\ before[p] \in SUBSET Nat
  BY NumberingAssumption DEF Exhausted, NumberingInv, NumberingTypeOK
<1>2. ASSUME NEW n \in low .. num[p], n >= 0
      PROVE  \E r \in S : r.num = n
  <2>1. n \in Numbers(live \cup archive)
    BY <1>1, <1>2 DEF Crowd, Vain, Numbers
  <2>2. n \notin before[p]
    BY <1>1, <1>2 DEF Crowd, Vain
  <2> QED
    BY <2>1, <2>2 DEF Numbers
<1>3. low >= 0
  BY <1>1 DEF Crowd, Vain
<1>4. \A n \in low .. num[p] : chosen[n] \in S /\ chosen[n].num = n
  BY <1>1, <1>2, <1>3
<1>5. chosen \in Injection(low .. num[p], S)
  BY <1>4 DEF Injection, IsInjective
<1>6. IsFiniteSet(S)
  BY FS_Subset DEF Crowd
<1>7. Cardinality(low .. num[p]) <= Cardinality(S)
  BY <1>5, <1>6, FS_Injection
<1>8. Cardinality(low .. num[p]) = tries[p] + 1
  <2>1. low \in Int /\ num[p] \in Int /\ ~(low > num[p])
    BY <1>1
  <2>2. Cardinality(low .. num[p]) = num[p] - low + 1
    BY <2>1, FS_Interval
  <2> QED
    BY <1>1, <2>2
<1>9. Cardinality(S) \in Nat
  BY <1>6, FS_CardinalityType
<1> QED
  BY <1>1, <1>7, <1>8, <1>9

\* A process gives up only in a crowd: as many documents as it may try numbers
\* were added while it tried, for any number of processes and of tries.
THEOREM CrowdsOnly == NumberingSpec => GivesUpCrowded
<1>1. NumberingInit => Crowd
  <2>1. IsFiniteSet({})
    BY FS_EmptySet
  <2>2. ASSUME NumberingInit
        PROVE  live \cup archive = {} /\ \A p \in Adders : step[p] = "idle"
    BY <2>2 DEF NumberingInit
  <2> QED
    BY <2>1, <2>2 DEF Crowd, Vain
<1>2. NumberingInv /\ NumberingInv' /\ Crowd /\ [NumberingNext]_docVars => Crowd'
  BY CrowdStep
<1>3. NumberingInv /\ Crowd /\ [NumberingNext]_docVars =>
          [\A p \in Adders : Exhausted(p) =>
              Cardinality({r \in live \cup archive : r.num \notin before[p]}) >= MaxTries]_docVars
  BY CrowdedThen
<1> QED
  BY <1>1, <1>2, <1>3, NumberingInvariance, PTL DEF NumberingSpec, GivesUpCrowded

\* Plans and decisions, which never move, are given different numbers.
THEOREM NoReuse ==
    ASSUME "issue" \notin Kinds
    PROVE  NumberingSpec => []UniqueNumbers
<1> DEFINE I == UniqueNumbers /\ archive = {} /\ kind \in Kinds
<1>1. NumberingInit => I
  BY DEF NumberingInit, UniqueNumbers
<1>2. I /\ [NumberingNext]_docVars => I'
  <2> SUFFICES ASSUME I, [NumberingNext]_docVars
               PROVE  I'
    OBVIOUS
  <2>. kind' = kind
    BY DEF NumberingNext, docVars
  <2>1. CASE UNCHANGED <<live, archive>>
    BY <2>1 DEF UniqueNumbers
  <2>2. ASSUME NEW p \in Adders, Create(p)
        PROVE  I'
    BY <2>2 DEF Create, UniqueNumbers, NewRef, Numbers
  <2>3. ASSUME NEW r \in live, Move(r)
        PROVE  I'
    BY <2>3 DEF Move, Moves
  <2> QED
    BY <2>1, <2>2, <2>3 DEF NumberingNext, docVars, Begin, ListLive, ListArchive,
       Taken, Exhausted, Abandon
<1> QED
  BY <1>1, <1>2, PTL DEF NumberingSpec
=============================================================================
