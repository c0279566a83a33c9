--------------------------- MODULE ReapingProofs --------------------------
(***************************************************************************)
(* Proofs about leases and reaping, for any sessions, worktrees, issues,   *)
(* reapers and bounds: the composition implements the leases and the       *)
(* ledger it is made of, a live session is not joined by another in its    *)
(* worktree, a reap misses no dead owner and takes nothing from a session  *)
(* that its lease spoke for all along, and the tool of a session stays on  *)
(* record.                                                                 *)
(***************************************************************************)
EXTENDS Reaping, TLAPS

---------------------------------------------------------------------------
(************************* The parts implemented ***************************)

\* The steps of the composition on the leases are those of Leases.
LEMMA StepsOnLeases == ASSUME [ReapNext]_reapVars PROVE [LeasesNext]_leaseVars
<1>1. CASE UNCHANGED reapVars BY <1>1 DEF reapVars
<1>2. ASSUME NEW p \in Procs, Reap(p) PROVE [LeasesNext]_leaseVars
  BY <1>2 DEF Reap, ReapList, ReapLeases, ReapShow, ReapRegister, ReapTake, ReapSkip, ReapDone,
              ReapAborted, ReapCrash, LeasesNext, Register
<1>3. ASSUME NEW p \in Procs, Command(p) \/ Session(p) PROVE [LeasesNext]_leaseVars
  BY <1>3 DEF Command, Session, LeasesNext
<1>4. CASE Outside \/ Filing BY <1>4 DEF Outside, Filing, LeasesNext
<1> QED BY <1>1, <1>2, <1>3, <1>4 DEF ReapNext

\* Those on the issues are those of the ledger that Board implements.
LEMMA StepsOnLedger ==
    ASSUME LedgerTypeOK, SessionOf \in [Procs -> Sessions], [ReapNext]_reapVars,
           \A p \in Procs : targets[p] \in SUBSET (Ids \X Owners)
    PROVE  [LedgerNext]_ledger
<1>1. CASE UNCHANGED reapVars BY <1>1 DEF reapVars
<1>2. ASSUME NEW p \in Procs, Reap(p) PROVE [LedgerNext]_ledger
  <2>1. CASE ReapTake(p)
    <3>1. PICK t \in targets[p] : IF ~filed[t[1]] /\ StillSeen(t[1], t[2])
                                  THEN TakeBack(t[1]) ELSE UNCHANGED ledger
      BY <2>1 DEF ReapTake
    <3>2. t[1] \in Ids OBVIOUS
    <3> QED BY <3>1, <3>2 DEF LedgerNext
  <2>2. CASE ~ReapTake(p)
    BY <1>2, <2>2 DEF Reap, ReapList, ReapLeases, ReapShow, ReapRegister, ReapSkip, ReapDone,
                ReapAborted, ReapCrash
  <2> QED BY <2>1, <2>2
<1>3. ASSUME NEW p \in Procs, Command(p) \/ Session(p) PROVE [LedgerNext]_ledger
  BY <1>3 DEF Command, Session, LedgerNext, Me
<1>4. CASE Outside \/ Filing BY <1>4 DEF Outside, Filing, LedgerNext
<1> QED BY <1>1, <1>2, <1>3, <1>4 DEF ReapNext

LEMMA LedgerTyped == ASSUME LedgerTypeOK, [LedgerNext]_ledger PROVE LedgerTypeOK'
<1>1. CASE UNCHANGED ledger BY <1>1 DEF ledger, LedgerTypeOK
<1>2. ASSUME NEW i \in Ids, NEW s \in Sessions, NEW act \in Actions, NEW force \in BOOLEAN,
             Perform(i, s, act, force)
      PROVE  LedgerTypeOK'
  <2>1. To(act) \in Status BY DEF To, Status, Actions
  <2>2. NewOwner(act, owner[i], s) \in Owners BY DEF NewOwner, Owners, LedgerTypeOK
  <2> QED BY <1>2, <2>1, <2>2 DEF Perform, LedgerTypeOK
<1>3. ASSUME NEW i \in Ids, TakeBack(i) PROVE LedgerTypeOK'
  BY <1>3 DEF TakeBack, LedgerTypeOK, Owners, Status, ReapStatus
<1>4. ASSUME NEW i \in Ids, File(i) PROVE LedgerTypeOK' BY <1>4 DEF File, LedgerTypeOK
<1> QED BY <1>1, <1>2, <1>3, <1>4 DEF LedgerNext

---------------------------------------------------------------------------
(******************************** A reap ***********************************)

Passes ==
    /\ stage \in [Procs -> {"off", "leases", "show", "take"}]
    /\ found \in [Procs -> SUBSET Ids]
    /\ live \in [Procs -> SUBSET Sessions]
    /\ targets \in [Procs -> SUBSET (Ids \X Owners)]
    /\ watch \in [Procs -> [alive : SUBSET Sessions, silent : SUBSET Sessions, still : SUBSET Ids]]

\* While the leases are not read, every issue nobody touched is to be shown.
Listed(p) ==
    /\ stage[p] = "leases" => watch[p].still \subseteq found[p]
    /\ stage[p] \in {"off", "leases"} => targets[p] = {}

\* The snapshot holds nobody who was silent all along, and then each issue
\* shown and not touched is a target if its owner was silent.
Missing(p) ==
    stage[p] = "show" =>
        /\ live[p] \cap watch[p].silent = {}
        /\ \A i \in watch[p].still \ found[p] :
               owner[i] \in watch[p].silent => <<i, owner[i]>> \in targets[p]

\* Who was vouched for all along is in the snapshot, and no target is.
Spared(p) ==
    stage[p] \in {"show", "take"} =>
        /\ ~SlowReads => watch[p].alive \subseteq live[p]
        /\ \A t \in targets[p] : t[2] \notin live[p]

PassOK(p) == Listed(p) /\ Missing(p) /\ Spared(p)

ReapInv == LedgerTypeOK /\ Passes /\ \A p \in Procs : PassOK(p)

\* What is remembered of a reap: at its start, and from step to step.
LEMMA WatchTells ==
    ASSUME Watching, Passes, found' \in [Procs -> SUBSET Ids], NEW p \in Procs
    PROVE  /\ watch' \in [Procs -> [alive : SUBSET Sessions, silent : SUBSET Sessions,
                                    still : SUBSET Ids]]
           /\ stage'[p] # "off" /\ stage[p] = "off" => watch'[p].still = found'[p]
           /\ stage'[p] # "off" /\ stage[p] # "off" =>
                 /\ watch'[p].alive = watch[p].alive \cap Vouched'
                 /\ watch'[p].silent = watch[p].silent \ Vouched'
                 /\ watch'[p].still = {i \in watch[p].still : status'[i] = status[i]
                                                             /\ owner'[i] = owner[i]}
<1>1. watch' = [q \in Procs |-> IF stage'[q] = "off"
                                THEN [alive |-> {}, silent |-> {}, still |-> {}] ELSE Watch(q)]
  BY DEF Watching
<1>2. ASSUME NEW q \in Procs
      PROVE  Watch(q) \in [alive : SUBSET Sessions, silent : SUBSET Sessions, still : SUBSET Ids]
  <2>1. Vouched' \subseteq Sessions BY DEF Vouched
  <2> QED BY <2>1 DEF Watch, Passes
<1>3. watch' \in [Procs -> [alive : SUBSET Sessions, silent : SUBSET Sessions, still : SUBSET Ids]]
  BY <1>1, <1>2
<1>4. stage'[p] # "off" => watch'[p] = Watch(p) BY <1>1
<1> QED BY <1>3, <1>4 DEF Watch

\* A step that leaves the reap of p where it is.
LEMMA Elsewhere ==
    ASSUME ReapInv, Passes', NEW p \in Procs, Watching,
           stage'[p] = stage[p], found'[p] = found[p], live'[p] = live[p], targets'[p] = targets[p]
    PROVE  PassOK(p)'
<1>1. PassOK(p) BY DEF ReapInv
<1>2. stage[p] # "off" =>
         /\ watch'[p].alive \subseteq watch[p].alive /\ watch'[p].silent \subseteq watch[p].silent
         /\ watch'[p].still \subseteq watch[p].still
         /\ \A i \in watch'[p].still : owner'[i] = owner[i]
  BY WatchTells DEF ReapInv, Passes
<1>3. CASE stage[p] = "off" BY <1>1, <1>3 DEF PassOK, Listed, Missing, Spared
<1>4. CASE stage[p] # "off"
  <2>1. Listed(p)' BY <1>1, <1>2, <1>4 DEF PassOK, Listed
  <2>2. Missing(p)' BY <1>1, <1>2, <1>4 DEF PassOK, Missing
  <2>3. Spared(p)' BY <1>1, <1>2, <1>4 DEF PassOK, Spared
  <2> QED BY <2>1, <2>2, <2>3 DEF PassOK
<1> QED BY <1>3, <1>4

---------------------------------------------------------------------------
(****************************** Its steps **********************************)

LEMMA PassesTyped == ASSUME ReapInv, ReapNext PROVE Passes'
<1>0. LedgerTypeOK /\ Passes /\ Watching BY DEF ReapInv, ReapNext
<1> DEFINE Typed == /\ stage' \in [Procs -> {"off", "leases", "show", "take"}]
                    /\ found' \in [Procs -> SUBSET Ids]
                    /\ live' \in [Procs -> SUBSET Sessions]
                    /\ targets' \in [Procs -> SUBSET (Ids \X Owners)]
<1>1. ASSUME NEW p \in Procs, Over(p) PROVE Typed BY <1>0, <1>1 DEF Over, Passes
<1>2. ASSUME NEW p \in Procs, Reap(p) PROVE Typed
  <2>1. CASE ReapList(p) BY <1>0, <2>1 DEF ReapList, At, Passes
  <2>2. CASE ReapLeases(p) BY <1>0, <2>2 DEF ReapLeases, At, Passes
  <2>3. CASE ReapShow(p)
    <3>1. PICK i \in found[p] :
             /\ found' = [found EXCEPT ![p] = @ \ {i}]
             /\ targets' = IF owner[i] \in live[p] THEN targets
                           ELSE [targets EXCEPT ![p] = @ \cup {<<i, owner[i]>>}]
      BY <2>3 DEF ReapShow
    <3>2. <<i, owner[i]>> \in Ids \X Owners BY <1>0 DEF Passes, LedgerTypeOK
    <3> QED BY <1>0, <2>3, <3>1, <3>2 DEF ReapShow, Passes
  <2>4. CASE ReapRegister(p) BY <1>0, <1>1, <2>4 DEF ReapRegister, At, Passes
  <2>5. CASE ReapTake(p) BY <1>0, <2>5 DEF ReapTake, Passes
  <2>6. CASE ReapSkip(p) BY <1>0, <2>6 DEF ReapSkip, Passes
  <2>7. CASE ReapDone(p) \/ ReapAborted(p) \/ ReapCrash(p)
    BY <1>1, <2>7 DEF ReapDone, ReapAborted, ReapCrash
  <2> QED BY <1>2, <2>1, <2>2, <2>3, <2>4, <2>5, <2>6, <2>7 DEF Reap
<1>3. ASSUME NEW p \in Procs, Command(p) \/ Session(p) PROVE Typed
  BY <1>0, <1>3 DEF Command, Session, notReaping, Passes
<1>4. ASSUME Outside \/ Filing PROVE Typed
  <2>1. UNCHANGED notReaping BY <1>4 DEF Outside, Filing
  <2> QED BY <1>0, <2>1 DEF notReaping, Passes
<1>5. Typed
  <2> HIDE DEF Typed
  <2> QED BY <1>2, <1>3, <1>4 DEF ReapNext
<1>6. watch' \in [Procs -> [alive : SUBSET Sessions, silent : SUBSET Sessions, still : SUBSET Ids]]
  <2>1. CASE Procs = {} BY <1>0, <2>1 DEF Watching
  <2>2. ASSUME NEW p \in Procs
        PROVE  watch' \in [Procs -> [alive : SUBSET Sessions, silent : SUBSET Sessions,
                                     still : SUBSET Ids]]
    BY <1>0, <1>5, WatchTells
  <2> QED BY <2>1, <2>2
<1> QED BY <1>5, <1>6 DEF Passes

\* The issues in flight are listed: none of them is left out.
LEMMA ListingInFlight ==
    ASSUME ReapInv, Passes', Watching, NEW p \in Procs, ReapList(p)
    PROVE  PassOK(p)'
<1>1. stage[p] = "off" /\ stage'[p] = "leases" /\ targets'[p] = targets[p]
  BY DEF ReapInv, Passes, ReapList, At
<1>2. targets[p] = {} BY <1>1 DEF ReapInv, PassOK, Listed
<1>3. watch'[p].still = found'[p] BY <1>1, WatchTells DEF ReapInv, Passes
<1> QED BY <1>1, <1>2, <1>3 DEF PassOK, Listed, Missing, Spared

\* The leases are read: who is in the snapshot is vouched for now, and the
\* other way round unless a lease could not be read.
LEMMA ReadingTheLeases ==
    ASSUME ReapInv, Passes', Watching, NEW p \in Procs, ReapLeases(p)
    PROVE  PassOK(p)'
<1>1. /\ stage[p] = "leases" /\ stage'[p] = "show" /\ found'[p] = found[p]
      /\ targets'[p] = targets[p] /\ UNCHANGED <<leaseVars, ledger>>
  BY DEF ReapInv, Passes, ReapLeases, At
<1>2. targets[p] = {} /\ watch[p].still \subseteq found[p]
  BY <1>1 DEF ReapInv, PassOK, Listed
<1>3. /\ watch'[p].alive \subseteq Vouched' /\ watch'[p].silent \cap Vouched' = {}
      /\ watch'[p].still \subseteq watch[p].still
  BY <1>1, WatchTells DEF ReapInv, Passes
<1>4. Vouched' = Vouched BY <1>1 DEF Vouched, Alive, leaseVars, files
<1>5. live'[p] \subseteq Vouched /\ (~SlowReads => live'[p] = Vouched)
  <2>1. PICK unread \in (IF SlowReads THEN SUBSET Agents ELSE {{}}) :
           live' = [live EXCEPT ![p] =
               {s \in Sessions : AgentOf[s] \notin unread /\ Vouches(agent[AgentOf[s]], s)}]
    BY DEF ReapLeases
  <2>2. live'[p] = {s \in Sessions : AgentOf[s] \notin unread /\ Vouches(agent[AgentOf[s]], s)}
    BY <2>1 DEF ReapInv, Passes
  <2>3. ~SlowReads => unread = {} OBVIOUS
  <2> QED BY <2>2, <2>3 DEF Vouches, Vouched
<1> QED BY <1>1, <1>2, <1>3, <1>4, <1>5 DEF PassOK, Listed, Missing, Spared

\* An issue is shown: it becomes a target, or its owner is in the snapshot.
LEMMA ShowingAnIssue ==
    ASSUME ReapInv, Passes', Watching, NEW p \in Procs, ReapShow(p)
    PROVE  PassOK(p)'
<1>1. PICK i \in found[p] :
         /\ found' = [found EXCEPT ![p] = @ \ {i}]
         /\ targets' = IF owner[i] \in live[p] THEN targets
                       ELSE [targets EXCEPT ![p] = @ \cup {<<i, owner[i]>>}]
  BY DEF ReapShow
<1>2. /\ stage[p] = "show" /\ stage'[p] = "show" /\ live'[p] = live[p] /\ UNCHANGED ledger
      /\ found'[p] = found[p] \ {i}
      /\ targets'[p] = IF owner[i] \in live[p] THEN targets[p]
                       ELSE targets[p] \cup {<<i, owner[i]>>}
  BY <1>1 DEF ReapInv, Passes, ReapShow
<1>3. Missing(p) /\ Spared(p) BY DEF ReapInv, PassOK
<1>4. /\ watch'[p].alive \subseteq watch[p].alive /\ watch'[p].silent \subseteq watch[p].silent
      /\ watch'[p].still \subseteq watch[p].still
  BY <1>2, WatchTells DEF ReapInv, Passes
<1>5. Missing(p)'
  <2>1. live'[p] \cap watch'[p].silent = {} BY <1>2, <1>3, <1>4 DEF Missing
  <2>2. ASSUME NEW k \in watch'[p].still \ found'[p], owner'[k] \in watch'[p].silent
        PROVE  <<k, owner'[k]>> \in targets'[p]
    <3>1. owner' = owner BY <1>2 DEF ledger
    <3>2. CASE k = i
      <4>1. owner[i] \notin live[p] BY <1>2, <2>1, <2>2, <3>1, <3>2
      <4> QED BY <1>2, <3>1, <3>2, <4>1
    <3>3. CASE k # i
      <4>1. k \in watch[p].still \ found[p] /\ owner[k] \in watch[p].silent
        BY <1>2, <1>4, <2>2, <3>1, <3>3
      <4>2. <<k, owner[k]>> \in targets[p] BY <1>2, <1>3, <4>1 DEF Missing
      <4> QED BY <1>2, <3>1, <4>2
    <3> QED BY <3>2, <3>3
  <2> QED BY <2>1, <2>2 DEF Missing
<1>6. Spared(p)' BY <1>2, <1>3, <1>4 DEF Spared
<1> QED BY <1>2, <1>5, <1>6 DEF PassOK, Listed

\* With targets in hand a reap registers and takes them one by one.
LEMMA TakingTargets ==
    ASSUME ReapInv, Passes', Watching, NEW p \in Procs, stage[p] \in {"show", "take"},
           stage'[p] = "take", live'[p] = live[p], targets'[p] \subseteq targets[p]
    PROVE  PassOK(p)'
<1>1. Spared(p) BY DEF ReapInv, PassOK
<1>2. watch'[p].alive \subseteq watch[p].alive BY WatchTells DEF ReapInv, Passes
<1> QED BY <1>1, <1>2 DEF PassOK, Listed, Missing, Spared

LEMMA EndingAReap ==
    ASSUME ReapInv, NEW p \in Procs, Over(p)
    PROVE  PassOK(p)'
<1>1. stage'[p] = "off" /\ targets'[p] = {} BY DEF Over, ReapInv, Passes
<1> QED BY <1>1 DEF PassOK, Listed, Missing, Spared

LEMMA ReapsKeep ==
    ASSUME ReapInv, Passes', Watching, NEW p \in Procs, Reap(p), NEW q \in Procs
    PROVE  PassOK(q)'
<1>0. Passes BY DEF ReapInv
<1>1. CASE q # p
  <2>1. /\ stage'[q] = stage[q] /\ found'[q] = found[q] /\ live'[q] = live[q]
        /\ targets'[q] = targets[q]
    BY <1>0, <1>1 DEF Passes, Reap, ReapList, ReapLeases, ReapShow, ReapRegister, ReapTake, ReapSkip,
                      ReapDone, ReapAborted, ReapCrash, At, Over
  <2> QED BY <2>1, Elsewhere
<1>2. CASE q = p
  <2>1. CASE ReapList(p) BY <1>2, <2>1, ListingInFlight
  <2>2. CASE ReapLeases(p) BY <1>2, <2>2, ReadingTheLeases
  <2>3. CASE ReapShow(p) BY <1>2, <2>3, ShowingAnIssue
  <2>4. CASE ReapRegister(p)
    <3>1. CASE Over(p) BY <1>2, <3>1, EndingAReap
    <3>2. CASE ~Over(p)
      <4>1. /\ stage[p] = "show" /\ stage'[p] = "take" /\ live'[p] = live[p]
            /\ targets'[p] = targets[p]
        BY <1>0, <2>4, <3>2 DEF ReapRegister, At, Passes
      <4> QED BY <1>2, <4>1, TakingTargets
    <3> QED BY <3>1, <3>2
  <2>5. CASE ReapTake(p) \/ ReapSkip(p)
    <3>1. /\ stage[p] = "take" /\ stage'[p] = "take" /\ live'[p] = live[p]
          /\ targets'[p] \subseteq targets[p]
      BY <1>0, <2>5 DEF ReapTake, ReapSkip, Passes
    <3> QED BY <1>2, <3>1, TakingTargets
  <2>6. CASE ReapDone(p) \/ ReapAborted(p) \/ ReapCrash(p)
    BY <1>2, <2>6, EndingAReap DEF ReapDone, ReapAborted, ReapCrash
  <2> QED BY <2>1, <2>2, <2>3, <2>4, <2>5, <2>6 DEF Reap
<1> QED BY <1>1, <1>2

LEMMA ReapInvSteps == ASSUME ReapInv, [ReapNext]_reapVars PROVE ReapInv'
<1>1. LedgerTypeOK'
  <2>1. \A p \in Procs : targets[p] \in SUBSET (Ids \X Owners) BY DEF ReapInv, Passes
  <2>2. [LedgerNext]_ledger BY <2>1, LeasesAssumption, StepsOnLedger DEF ReapInv
  <2> QED BY <2>2, LedgerTyped DEF ReapInv
<1>2. CASE UNCHANGED reapVars
  <2>1. UNCHANGED <<stage, found, live, targets, watch, ledger>> BY <1>2 DEF reapVars
  <2>2. Passes' BY <2>1 DEF ReapInv, Passes
  <2>3. \A p \in Procs : PassOK(p)'
    BY <2>1 DEF ReapInv, PassOK, Listed, Missing, Spared, ledger
  <2> QED BY <1>1, <2>2, <2>3 DEF ReapInv
<1>3. CASE ReapNext
  <2>1. Passes' /\ Watching BY <1>3, PassesTyped DEF ReapNext
  <2>2. ASSUME NEW q \in Procs PROVE PassOK(q)'
    <3>1. CASE \E p \in Procs : Reap(p) BY <2>1, <3>1, ReapsKeep
    <3>2. CASE ~\E p \in Procs : Reap(p)
      <4>1. UNCHANGED notReaping
        BY <1>3, <3>2 DEF ReapNext, Command, Session, Outside, Filing
      <4> QED BY <2>1, <4>1, Elsewhere DEF notReaping
    <3> QED BY <3>1, <3>2
  <2> QED BY <1>1, <2>1, <2>2 DEF ReapInv
<1> QED BY <1>2, <1>3

LEMMA ReapInvStarts == ASSUME ReapInit PROVE ReapInv
BY DEF ReapInit, LedgerInit, ReapInv, LedgerTypeOK, Passes, PassOK, Listed, Missing, Spared, Status,
       Owners

---------------------------------------------------------------------------
(****************************** The theorems *******************************)

\* Sessions, hooks and registrations behave in the composition as by
\* themselves.
THEOREM LeasesImplemented == ReapSpec => LeasesSpec
<1>1. ReapInit => LeasesInit BY DEF ReapInit
<1>2. [ReapNext]_reapVars => [LeasesNext]_leaseVars BY StepsOnLeases
<1> QED BY <1>1, <1>2, PTL DEF ReapSpec, LeasesSpec

\* The inductive invariant of a reap.
THEOREM ReapsAreSound == ReapSpec => []ReapInv
<1>1. ReapInit => ReapInv BY ReapInvStarts
<1>2. ReapInv /\ [ReapNext]_reapVars => ReapInv' BY ReapInvSteps
<1> QED BY <1>1, <1>2, PTL DEF ReapSpec

\* And the issues change as the ledger says, which Board implements.
THEOREM LedgerImplemented == ReapSpec => LedgerSpec
<1>1. ReapInit => LedgerInit BY DEF ReapInit
<1>2. ReapInv /\ [ReapNext]_reapVars => [LedgerNext]_ledger
  <2> SUFFICES ASSUME ReapInv, [ReapNext]_reapVars PROVE [LedgerNext]_ledger OBVIOUS
  <2>1. \A p \in Procs : targets[p] \in SUBSET (Ids \X Owners) BY DEF ReapInv, Passes
  <2> QED BY <2>1, LeasesAssumption, StepsOnLedger DEF ReapInv
<1> QED BY <1>1, <1>2, ReapsAreSound, PTL DEF ReapSpec, LedgerSpec

\* collectReapTargets misses nobody: an issue nobody touched since the listing,
\* of an owner nothing spoke for since, is a target, even when leases cannot
\* be read.
THEOREM DeadAreFound == ReapSpec => []DeadIsTargeted
<1>1. ReapInv => DeadIsTargeted BY DEF ReapInv, PassOK, Missing, DeadIsTargeted
<1> QED BY <1>1, ReapsAreSound, PTL

\* A session its lease spoke for all along loses nothing to a reap, as long as
\* every lease can be read.
THEOREM LivingAreSpared == ASSUME ~SlowReads PROVE ReapSpec => AliveKeepsIssue
<1> DEFINE Kept == \A p \in Procs, i \in Ids : TookBack(p, i) => owner[i] \notin watch[p].alive
<1>1. ReapInv /\ [ReapNext]_reapVars => Kept
  <2> SUFFICES ASSUME ReapInv, [ReapNext]_reapVars, NEW p \in Procs, NEW i \in Ids, TookBack(p, i)
               PROVE  owner[i] \notin watch[p].alive
    OBVIOUS
  <2>0. Passes /\ LedgerTypeOK /\ Spared(p) /\ stage[p] = "take" BY DEF ReapInv, PassOK, TookBack
  <2>1. ReapTake(p)
    <3>1. ReapNext /\ targets'[p] # targets[p] /\ owner'[i] # owner[i]
      BY DEF TookBack, reapVars, ledger
    <3>2. PICK q \in Procs : Reap(q)
      BY <3>1 DEF ReapNext, Command, Session, Outside, Filing, notReaping
    <3>3. q = p
      BY <2>0, <3>1, <3>2 DEF Passes, Reap, ReapList, ReapLeases, ReapShow, ReapRegister, ReapTake,
                         ReapSkip, ReapDone, ReapAborted, ReapCrash, At, Over
    <3> QED BY <2>0, <3>1, <3>2, <3>3
         DEF Reap, ReapList, ReapLeases, ReapShow, ReapRegister, ReapSkip, ReapDone, ReapAborted,
             ReapCrash, At, ledger
  <2>2. PICK t \in targets[p] : IF ~filed[t[1]] /\ StillSeen(t[1], t[2])
                                THEN TakeBack(t[1]) ELSE UNCHANGED ledger
    BY <2>1 DEF ReapTake
  <2>3. t[1] = i /\ StillSeen(t[1], t[2])
    BY <2>0, <2>2 DEF TakeBack, TookBack, LedgerTypeOK, ledger
  <2>4. owner[i] = t[2] BY <2>3 DEF StillSeen, ReapPermitted
  <2> QED BY <2>0, <2>2, <2>4 DEF Spared
<1>2. [][Kept]_reapVars => AliveKeepsIssue BY PTL DEF AliveKeepsIssue
<1> QED BY <1>1, <1>2, ReapsAreSound, PTL DEF ReapSpec

---------------------------------------------------------------------------
(******************************* The leases ********************************)

\* A worktree in which a session with hooks works belongs to that session: the
\* hooks register without asking who else is in it.
HooksAlone ==
    \A p, q \in Procs : Here(p) = Here(q) /\ Me(p) \in HookSessions => Me(q) = Me(p)

\* Some session with hooks works in w.
Hooked(w) == \E p \in Procs : Here(p) = w /\ Me(p) \in HookSessions

\* A session without hooks has no tool and names none.
Hookless ==
    /\ \A s \in Sessions \ HookSessions : tool[s] = 0
    /\ \A p \in Procs : Me(p) \notin HookSessions =>
           job[p] = [shared |-> FALSE, hook |-> 0]

\* Who was let in last is one of those who work there; without hooks it is who
\* is on record.
Recorded(w) ==
    /\ last[w] = NoLease \/ \E p \in Procs : Here(p) = w /\ last[w].session = Me(p)
    /\ ~Hooked(w) => last[w] = worktree[w] /\ last[w].hook = 0

LeasesInv == LeasesTypeOK /\ Hookless /\ \A w \in Worktrees : Recorded(w)

LEMMA LeaseIsTyped ==
    ASSUME LeasesTypeOK, NEW p \in Procs
    PROVE  NewLease(p) \in Lease
BY LeasesAssumption DEF LeasesTypeOK, NewLease, Lease, NoLease, Here, Me, Job

LEMMA RegistriesTyped == ASSUME LeasesTypeOK, [LeasesNext]_leaseVars PROVE LeasesTypeOK'
<1>0. /\ SessionOf \in [Procs -> Sessions] /\ AgentOf \in [Sessions -> Agents]
      /\ WorktreeOf \in [Procs -> Worktrees] /\ MaxTools \in Nat /\ MaxClock \in Nat
  BY LeasesAssumption
<1>1. CASE UNCHANGED leaseVars BY <1>1 DEF leaseVars, files, LeasesTypeOK
<1>2. ASSUME NEW p \in Procs, NEW shared \in BOOLEAN, NEW hook \in 0..MaxTools, Enter(p, shared, hook)
      PROVE  job' \in [Procs -> Job] /\ pc' \in [Procs -> {"idle", "worktree", "agent", "work"}]
  BY <1>2 DEF Enter, GoTo, LeasesTypeOK, Job
<1>3. ASSUME NEW p \in Procs, StartCommand(p) \/ SessionEnd(p) PROVE LeasesTypeOK'
  <2>1. 0 \in 0..MaxTools BY <1>0
  <2>2. /\ UNCHANGED <<files, tool, tools, clock, lease, last>>
        /\ Enter(p, FALSE, 0) \/ Enter(p, TRUE, 0)
    BY <1>3 DEF StartCommand, SessionEnd
  <2>3. job' \in [Procs -> Job] /\ pc' \in [Procs -> {"idle", "worktree", "agent", "work"}]
    BY <1>2, <2>1, <2>2
  <2> QED BY <2>2, <2>3 DEF LeasesTypeOK, files
<1>4. ASSUME NEW p \in Procs, SessionStart(p) PROVE LeasesTypeOK'
  <2>1. tools + 1 \in 0..MaxTools BY <1>0, <1>4 DEF SessionStart, LeasesTypeOK
  <2> QED BY <1>0, <1>2, <1>4, <2>1 DEF SessionStart, LeasesTypeOK, files, Me
<1>5. ASSUME NEW p \in Procs, RegisterWorktree(p) PROVE LeasesTypeOK'
  <2>1. NewLease(p) \in Lease /\ [session |-> Me(p), hook |-> tool[Me(p)], at |-> clock] \in Lease
    BY <1>0, LeaseIsTyped DEF LeasesTypeOK, Lease, Me
  <2> QED BY <1>0, <1>5, <2>1 DEF RegisterWorktree, GoTo, LeasesTypeOK
<1>6. ASSUME NEW p \in Procs, RegisterAgent(p) \/ GiveUp(p) \/ Leave(p) \/ Crash(p)
      PROVE  LeasesTypeOK'
  BY <1>0, <1>6 DEF RegisterAgent, GiveUp, Leave, Crash, GoTo, LeasesTypeOK, files
<1>7. CASE Around BY <1>0, <1>7 DEF Around, Tick, ToolExit, LeasesTypeOK, files
<1> QED BY <1>1, <1>3, <1>4, <1>5, <1>6, <1>7 DEF LeasesNext, Register

LEMMA HooklessStays == ASSUME LeasesTypeOK, Hookless, [LeasesNext]_leaseVars PROVE Hookless'
<1>0. SessionOf \in [Procs -> Sessions] BY LeasesAssumption
<1>1. CASE UNCHANGED leaseVars BY <1>1 DEF leaseVars, Hookless
<1>2. ASSUME NEW p \in Procs, StartCommand(p) PROVE Hookless'
  BY <1>2 DEF StartCommand, Enter, Hookless, LeasesTypeOK
<1>3. ASSUME NEW p \in Procs, SessionStart(p) \/ SessionEnd(p) PROVE Hookless'
  BY <1>0, <1>3 DEF SessionStart, SessionEnd, Enter, Hookless, LeasesTypeOK
<1>4. ASSUME NEW p \in Procs,
             RegisterWorktree(p) \/ RegisterAgent(p) \/ GiveUp(p) \/ Leave(p) \/ Crash(p)
      PROVE  Hookless'
  BY <1>4 DEF RegisterWorktree, RegisterAgent, GiveUp, Leave, Crash, Hookless
<1>5. CASE Around BY <1>5 DEF Around, Tick, ToolExit, Hookless, LeasesTypeOK
<1> QED BY <1>1, <1>2, <1>3, <1>4, <1>5 DEF LeasesNext, Register

LEMMA RecordsStay ==
    ASSUME ~TornWrites, LeasesInv, [LeasesNext]_leaseVars, NEW w \in Worktrees
    PROVE  Recorded(w)'
<1>0. /\ SessionOf \in [Procs -> Sessions] /\ WorktreeOf \in [Procs -> Worktrees]
      /\ LeasesTypeOK /\ Hookless /\ Recorded(w)
  BY LeasesAssumption DEF LeasesInv
<1>1. ASSUME UNCHANGED <<worktree, last>> PROVE Recorded(w)' BY <1>0, <1>1 DEF Recorded, Hooked
<1>2. ASSUME NEW p \in Procs, RegisterWorktree(p) PROVE Recorded(w)'
  <2>1. CASE worktree' = worktree /\ last' = last BY <1>1, <2>1
  <2>2. CASE ~(worktree' = worktree /\ last' = last)
    <3>1. /\ worktree' = [worktree EXCEPT ![Here(p)] = NewLease(p)]
          /\ last' = IF job[p].shared THEN last
                     ELSE [last EXCEPT ![Here(p)] =
                             [session |-> Me(p), hook |-> tool[Me(p)], at |-> clock]]
      BY <1>2, <2>2 DEF RegisterWorktree
    <3>2. CASE Here(p) # w
      <4>1. worktree'[w] = worktree[w] /\ last'[w] = last[w] BY <1>0, <3>1, <3>2 DEF LeasesTypeOK
      <4> QED BY <1>0, <4>1 DEF Recorded, Hooked
    <3>3. CASE Here(p) = w
      <4>1. /\ worktree'[w] = NewLease(p)
            /\ ~job[p].shared => last'[w] = [session |-> Me(p), hook |-> tool[Me(p)], at |-> clock]
            /\ job[p].shared => last'[w] = last[w]
        BY <1>0, <3>1, <3>3 DEF LeasesTypeOK
      <4>2. ASSUME ~Hooked(w)
            PROVE  ~job[p].shared /\ tool[Me(p)] = 0 /\ NewLease(p).hook = 0
                   /\ NewLease(p).session = Me(p) /\ NewLease(p).at = clock
        <5>1. Me(p) \notin HookSessions /\ Me(p) \in Sessions BY <1>0, <3>3, <4>2 DEF Hooked, Me
        <5>2. job[p].shared = FALSE /\ job[p].hook = 0 /\ tool[Me(p)] = 0 BY <1>0, <5>1 DEF Hookless
        <5>3. worktree[w].hook = 0 BY <1>0, <4>2 DEF Recorded
        <5> QED BY <3>3, <5>2, <5>3 DEF NewLease
      <4>3. ~Hooked(w) => last'[w] = worktree'[w] /\ last'[w].hook = 0
        BY <4>1, <4>2 DEF NewLease
      <4>4. last'[w] = NoLease \/ \E q \in Procs : Here(q) = w /\ last'[w].session = Me(q)
        BY <1>0, <3>3, <4>1 DEF Recorded
      <4> QED BY <4>3, <4>4 DEF Recorded, Hooked
    <3> QED BY <3>2, <3>3
  <2> QED BY <2>1, <2>2
<1>3. ASSUME NEW p \in Procs, StartCommand(p) \/ SessionStart(p) \/ SessionEnd(p) \/ RegisterAgent(p)
                              \/ GiveUp(p) \/ Leave(p) \/ Crash(p)
      PROVE  UNCHANGED <<worktree, last>>
  BY <1>3 DEF StartCommand, SessionStart, SessionEnd, RegisterAgent, GiveUp, Leave, Crash, files
<1>4. Around => UNCHANGED <<worktree, last>> BY DEF Around, Tick, ToolExit, files
<1>5. UNCHANGED leaseVars => UNCHANGED <<worktree, last>> BY DEF leaseVars, files
<1> QED BY <1>1, <1>2, <1>3, <1>4, <1>5 DEF LeasesNext, Register

\* Types of the lease files and of the processes that write them.
THEOREM LeasesAreTyped == LeasesSpec => []LeasesTypeOK
<1>1. LeasesInit => LeasesTypeOK
  BY LeasesAssumption DEF LeasesInit, LeasesTypeOK, Job, NoLease
<1>2. LeasesTypeOK /\ [LeasesNext]_leaseVars => LeasesTypeOK' BY RegistriesTyped
<1> QED BY <1>1, <1>2, PTL DEF LeasesSpec

LEMMA LeasesInvStarts == ASSUME LeasesInit PROVE LeasesInv
<1>1. LeasesTypeOK BY LeasesAssumption DEF LeasesInit, LeasesTypeOK, Job, NoLease
<1>2. Hookless BY DEF LeasesInit, Hookless
<1>3. \A w \in Worktrees : Recorded(w) BY DEF LeasesInit, Recorded, NoLease
<1> QED BY <1>1, <1>2, <1>3 DEF LeasesInv

LEMMA LeasesInvSteps == ASSUME ~TornWrites, LeasesInv, [LeasesNext]_leaseVars PROVE LeasesInv'
BY RegistriesTyped, HooklessStays, RecordsStay DEF LeasesInv

\* Two live sessions do not work in one worktree: conflicts() lets a command in
\* only beside its own session, a dead one or, without hooks, its own agent.
\* No writer is killed with the file truncated, and a session with hooks has
\* its worktree for itself.
THEOREM WorktreesAreExclusive ==
    ASSUME ~TornWrites, HooksAlone
    PROVE  LeasesSpec => ExclusiveWorktree
<1> DEFINE Apart(p) ==
      LET before == last[Here(p)]
      IN  \/ before = NoLease \/ before.session = Me(p)
          \/ IF before.hook # 0 THEN tool[before.session] # before.hook
             ELSE \/ AgentOf[before.session] = AgentOf[Me(p)]
                  \/ clock - before.at > TTL
<1> DEFINE Let == \A p \in Procs : Admitted(p) => Apart(p)
<1>1. LeasesInv /\ [LeasesNext]_leaseVars => Let
  <2> SUFFICES ASSUME LeasesInv, [LeasesNext]_leaseVars, NEW p \in Procs, Admitted(p) PROVE Apart(p)
    OBVIOUS
  <2>0. /\ SessionOf \in [Procs -> Sessions] /\ WorktreeOf \in [Procs -> Worktrees]
        /\ Here(p) \in Worktrees /\ LeasesTypeOK /\ Recorded(Here(p)) /\ Hookless
        /\ pc[p] = "worktree" /\ pc'[p] = "agent" /\ ~job[p].shared
    BY LeasesAssumption DEF LeasesInv, Admitted, Here
  <2>1. ~Conflicts(worktree[Here(p)], Me(p))
    <3>1. PICK q \in Procs : RegisterWorktree(q)
      BY <2>0 DEF LeasesNext, Register, leaseVars, Around, Tick, ToolExit, StartCommand, SessionStart,
                  SessionEnd, Enter, RegisterAgent, GiveUp, Leave, Crash, GoTo, LeasesTypeOK
    <3>2. q = p BY <2>0, <3>1 DEF RegisterWorktree, GoTo, LeasesTypeOK
    <3> QED BY <2>0, <3>1, <3>2 DEF RegisterWorktree, GoTo, LeasesTypeOK
  <2>2. CASE Hooked(Here(p))
    <3>1. \A q \in Procs : Here(q) = Here(p) => Me(q) = Me(p) BY <2>2 DEF Hooked, HooksAlone
    <3> QED BY <2>0, <3>1 DEF Recorded
  <2>3. CASE ~Hooked(Here(p))
    <3>1. last[Here(p)] = worktree[Here(p)] /\ last[Here(p)].hook = 0 BY <2>0, <2>3 DEF Recorded
    <3>2. last[Here(p)] # NoLease =>
             last[Here(p)].at \in Nat /\ last[Here(p)] \in Lease
      BY <2>0 DEF LeasesTypeOK, Lease
    <3>3. clock \in Nat /\ TTL \in Nat BY <2>0, LeasesAssumption DEF LeasesTypeOK
    <3> QED BY <2>1, <3>1, <3>2, <3>3 DEF Conflicts, Alive
  <2> QED BY <2>2, <2>3
<1>2. [][Let]_leaseVars => ExclusiveWorktree BY PTL DEF ExclusiveWorktree
<1>3. LeasesInit => LeasesInv BY LeasesInvStarts
<1>4. LeasesInv /\ [LeasesNext]_leaseVars => LeasesInv' BY LeasesInvSteps
<1> QED BY <1>1, <1>2, <1>3, <1>4, PTL DEF LeasesSpec

---------------------------------------------------------------------------
(************************ The hooks of a session ***************************)

\* A session with hooks works in one worktree.
OneHome ==
    \A p, q \in Procs : Me(p) \in HookSessions /\ Me(q) = Me(p) => Here(q) = Here(p)

\* A hook that has started writes the worktree file: it is neither killed
\* before nor kept from the lock for longer than flockTimeout.
HooksGetThrough ==
    \A p \in Procs : pc[p] = "worktree" /\ job[p].hook # 0 => pc'[p] \in {"worktree", "agent"}

\* A record names a tool process only for a session with hooks.
ByHook(l) == l.hook # 0 => l.session \in HookSessions

\* The worktree file names the session of p and a tool process.
OnRecord(p) == worktree[Here(p)].session = Me(p) /\ worktree[Here(p)].hook # 0

\* The tool of s has started, and its hook is about to write.
HookToCome(s) == \E q \in Procs : Me(q) = s /\ pc[q] = "worktree" /\ job[q].hook # 0

\* The commands of a session with hooks come after a hook has written, and
\* what they are about to write names a tool.
Owned(p) ==
    /\ pc[p] = "agent" => lease[p].session = Me(p) /\ ByHook(lease[p])
    /\ Me(p) \in HookSessions =>
           /\ tool[Me(p)] # 0 => HookToCome(Me(p)) \/ OnRecord(p)
           /\ pc[p] = "worktree" => job[p].hook # 0 \/ OnRecord(p)
           /\ pc[p] = "agent" => lease[p].hook # 0

HooksInv ==
    /\ LeasesTypeOK /\ Hookless
    /\ \A w \in Worktrees : ByHook(worktree[w])
    /\ \A a \in Agents : ByHook(agent[a])
    /\ \A p \in Procs : Owned(p)

LEMMA HooksBegin == ASSUME LeasesInit PROVE HooksInv
<1>1. LeasesTypeOK /\ Hookless BY LeasesInvStarts DEF LeasesInv
<1>2. \A p \in Procs : SessionOf[p] \in Sessions BY LeasesAssumption
<1> QED BY <1>1, <1>2, LeasesAssumption DEF LeasesInit, HooksInv, ByHook, NoLease, Owned, Me

\* A step of p that leaves the worktree file and the tools alone.
LEMMA OwnStepOnly ==
    ASSUME HooksInv, NEW p \in Procs, UNCHANGED <<worktree, tool>>,
           \A q \in Procs : q # p => pc'[q] = pc[q] /\ job'[q] = job[q] /\ lease'[q] = lease[q],
           pc[p] = "worktree" /\ job[p].hook # 0 => pc'[p] = "worktree" /\ job'[p] = job[p],
           pc'[p] = "agent" => pc[p] = "agent" /\ lease'[p] = lease[p],
           pc'[p] = "worktree" /\ Me(p) \in HookSessions => job'[p].hook # 0 \/ OnRecord(p)
    PROVE  \A q \in Procs : Owned(q)'
<1> SUFFICES ASSUME NEW q \in Procs PROVE Owned(q)' OBVIOUS
<1>1. Owned(q) /\ Owned(p) BY DEF HooksInv
<1>2. OnRecord(q)' <=> OnRecord(q) BY DEF OnRecord, Me, Here
<1>3. HookToCome(Me(q)) => HookToCome(Me(q))' BY DEF HookToCome, Me
<1>4. CASE q = p BY <1>1, <1>2, <1>3, <1>4 DEF Owned, ByHook, Me
<1>5. CASE q # p BY <1>1, <1>2, <1>3, <1>5 DEF Owned, ByHook, Me
<1> QED BY <1>4, <1>5

LEMMA CommandKeepsHooks ==
    ASSUME HooksInv, NEW p \in Procs, StartCommand(p) \/ SessionEnd(p)
    PROVE  \A q \in Procs : Owned(q)'
<1>1. /\ UNCHANGED <<worktree, tool, lease>> /\ pc[p] = "idle" /\ CanRun(Me(p))
      /\ pc' = [pc EXCEPT ![p] = "worktree"]
      /\ \E shared \in BOOLEAN : job' = [job EXCEPT ![p] = [shared |-> shared, hook |-> 0]]
  BY DEF StartCommand, SessionEnd, Enter, GoTo, files
<1>2. ASSUME Me(p) \in HookSessions PROVE OnRecord(p)
  <2>1. tool[Me(p)] # 0 /\ ~HookRunning(Me(p)) BY <1>1, <1>2 DEF CanRun
  <2>2. ~HookToCome(Me(p)) BY <2>1 DEF HookToCome, HookRunning
  <2> QED BY <1>2, <2>1, <2>2 DEF HooksInv, Owned
<1>3. pc'[p] = "worktree" /\ \A q \in Procs : q # p => pc'[q] = pc[q] /\ job'[q] = job[q]
  BY <1>1 DEF HooksInv, LeasesTypeOK
<1> QED BY <1>1, <1>2, <1>3, OwnStepOnly

LEMMA ToolKeepsHooks ==
    ASSUME HooksInv, NEW p \in Procs, SessionStart(p)
    PROVE  \A q \in Procs : Owned(q)'
<1> SUFFICES ASSUME NEW q \in Procs PROVE Owned(q)' OBVIOUS
<1>1. /\ UNCHANGED <<worktree, lease>> /\ pc[p] = "idle"
      /\ tool' = [tool EXCEPT ![Me(p)] = tools + 1]
      /\ pc' = [pc EXCEPT ![p] = "worktree"]
      /\ job' = [job EXCEPT ![p] = [shared |-> TRUE, hook |-> tools + 1]]
  BY DEF SessionStart, Enter, GoTo, files
<1>2. tools + 1 # 0 /\ Me(p) \in Sessions /\ Me(q) \in Sessions
  BY LeasesAssumption DEF HooksInv, LeasesTypeOK, Me
<1>3. /\ pc'[p] = "worktree" /\ job'[p].hook # 0
      /\ \A r \in Procs : r # p => pc'[r] = pc[r] /\ job'[r] = job[r]
  BY <1>1, <1>2 DEF HooksInv, LeasesTypeOK
<1>4. Owned(q) /\ (OnRecord(q)' <=> OnRecord(q)) BY <1>1 DEF HooksInv, OnRecord, Me, Here
<1>5. HookToCome(Me(q)) \/ Me(q) = Me(p) => HookToCome(Me(q))'
  BY <1>1, <1>3 DEF HookToCome, Me
<1>6. Me(q) # Me(p) => tool'[Me(q)] = tool[Me(q)] BY <1>1, <1>2 DEF HooksInv, LeasesTypeOK
<1>7. lease'[q] = lease[q] /\ (pc'[q] = "agent" => pc[q] = "agent") BY <1>1, <1>3
<1>8. CASE q = p BY <1>3, <1>5, <1>8 DEF Owned, Me
<1>9. CASE q # p BY <1>3, <1>4, <1>5, <1>6, <1>7, <1>9 DEF Owned, ByHook, Me
<1> QED BY <1>8, <1>9

LEMMA WorktreeKeepsHooks ==
    ASSUME HooksAlone, OneHome, HooksInv, NEW p \in Procs, RegisterWorktree(p), HooksGetThrough
    PROVE  (\A w \in Worktrees : ByHook(worktree'[w])) /\ \A q \in Procs : Owned(q)'
<1>0. /\ LeasesTypeOK /\ Hookless /\ Owned(p) /\ pc[p] = "worktree"
      /\ Me(p) \in Sessions /\ Here(p) \in Worktrees /\ ByHook(worktree[Here(p)])
  BY LeasesAssumption DEF HooksInv, RegisterWorktree, Me, Here
<1>1. CASE ~job[p].shared /\ Conflicts(worktree[Here(p)], Me(p))
  <2>1. pc' = [pc EXCEPT ![p] = "idle"] /\ UNCHANGED <<worktree, lease, tool, job>>
    BY <1>1 DEF RegisterWorktree, GoTo
  <2>2. pc'[p] = "idle" /\ \A q \in Procs : q # p => pc'[q] = pc[q] BY <1>0, <2>1 DEF LeasesTypeOK
  <2>3. job[p].hook = 0 BY <1>0, <2>2 DEF HooksGetThrough
  <2>4. \A q \in Procs : Owned(q)' BY <2>1, <2>2, <2>3, OwnStepOnly
  <2> QED BY <2>1, <2>4 DEF HooksInv
<1>2. CASE ~(~job[p].shared /\ Conflicts(worktree[Here(p)], Me(p)))
  <2>1. /\ pc' = [pc EXCEPT ![p] = "agent"] /\ lease' = [lease EXCEPT ![p] = NewLease(p)]
        /\ worktree' = [worktree EXCEPT ![Here(p)] = NewLease(p)] /\ UNCHANGED <<tool, job>>
    BY <1>2 DEF RegisterWorktree, GoTo
  <2>2. /\ pc'[p] = "agent" /\ lease'[p] = NewLease(p) /\ worktree'[Here(p)] = NewLease(p)
        /\ \A q \in Procs : q # p => pc'[q] = pc[q] /\ lease'[q] = lease[q]
        /\ \A w \in Worktrees : w # Here(p) => worktree'[w] = worktree[w]
    BY <1>0, <2>1 DEF LeasesTypeOK
  <2>3. NewLease(p).session = Me(p) BY DEF NewLease
  <2>4. ByHook(NewLease(p))
    <3>1. CASE job[p].hook = 0 /\ worktree[Here(p)].session = Me(p)
      <4>1. NewLease(p).hook = worktree[Here(p)].hook BY <3>1 DEF NewLease
      <4> QED BY <1>0, <2>3, <3>1, <4>1 DEF ByHook
    <3>2. CASE ~(job[p].hook = 0 /\ worktree[Here(p)].session = Me(p))
      <4>1. NewLease(p).hook = job[p].hook BY <3>2 DEF NewLease
      <4> QED BY <1>0, <2>3, <4>1 DEF ByHook, Hookless
    <3> QED BY <3>1, <3>2
  <2>5. Me(p) \in HookSessions => NewLease(p).hook # 0
    BY <1>0 DEF Owned, OnRecord, NewLease
  <2>6. \A w \in Worktrees : ByHook(worktree'[w]) BY <2>2, <2>4 DEF HooksInv
  <2>7. ASSUME NEW q \in Procs PROVE Owned(q)'
    <3>1. Owned(q) BY DEF HooksInv
    <3>2. CASE Me(q) = Me(p) /\ Me(q) \in HookSessions
      <4>1. Here(q) = Here(p) BY <3>2 DEF OneHome
      <4>2. OnRecord(q)' BY <2>2, <2>3, <2>5, <3>2, <4>1 DEF OnRecord, Me, Here
      <4>3. pc'[q] = "agent" => lease'[q].session = Me(q) /\ ByHook(lease'[q]) /\ lease'[q].hook # 0
        <5>1. CASE q = p BY <2>2, <2>3, <2>4, <2>5, <3>2, <5>1
        <5>2. CASE q # p BY <2>2, <3>1, <3>2, <5>2 DEF Owned
        <5> QED BY <5>1, <5>2
      <4> QED BY <4>2, <4>3 DEF Owned, ByHook, Me
    <3>3. CASE Me(q) # Me(p) /\ Me(q) \in HookSessions
      <4>0. q # p BY <3>3
      <4>1. Here(q) # Here(p) BY <3>3 DEF HooksAlone
      <4>2. Here(q) \in Worktrees BY LeasesAssumption DEF Here
      <4>3. worktree'[Here(q)] = worktree[Here(q)] BY <2>2, <4>1, <4>2
      <4>4. OnRecord(q)' <=> OnRecord(q) BY <4>3 DEF OnRecord, Me, Here
      <4>5. HookToCome(Me(q)) => HookToCome(Me(q))' BY <2>1, <2>2, <3>3 DEF HookToCome, Me
      <4> QED BY <2>1, <2>2, <3>1, <4>0, <4>4, <4>5 DEF Owned, ByHook, Me
    <3>4. CASE Me(q) \notin HookSessions
      <4>1. CASE q = p BY <2>2, <2>3, <2>4, <3>4, <4>1 DEF Owned, ByHook, Me
      <4>2. CASE q # p BY <2>2, <3>1, <3>4, <4>2 DEF Owned, ByHook, Me
      <4> QED BY <4>1, <4>2
    <3> QED BY <3>2, <3>3, <3>4
  <2> QED BY <2>6, <2>7
<1> QED BY <1>1, <1>2

LEMMA HooksKept ==
    ASSUME ~TornWrites, HooksAlone, OneHome, HooksInv, [LeasesNext /\ HooksGetThrough]_leaseVars
    PROVE  HooksInv'
<1>0. /\ LeasesTypeOK /\ Hookless
      /\ \A w \in Worktrees : ByHook(worktree[w])
      /\ \A a \in Agents : ByHook(agent[a])
      /\ \A q \in Procs : Owned(q)
  BY DEF HooksInv
<1>1. LeasesTypeOK' /\ Hookless' BY <1>0, RegistriesTyped, HooklessStays
<1>2. CASE UNCHANGED leaseVars
  BY <1>0, <1>1, <1>2 DEF leaseVars, files, HooksInv, Owned, OnRecord, HookToCome, ByHook, Me, Here
<1>3. ASSUME NEW p \in Procs, StartCommand(p) \/ SessionEnd(p) PROVE HooksInv'
  <2>1. UNCHANGED files BY <1>3 DEF StartCommand, SessionEnd
  <2> QED BY <1>0, <1>1, <1>3, <2>1, CommandKeepsHooks DEF HooksInv, files, ByHook
<1>4. ASSUME NEW p \in Procs, SessionStart(p) PROVE HooksInv'
  <2>1. UNCHANGED files BY <1>4 DEF SessionStart
  <2> QED BY <1>0, <1>1, <1>4, <2>1, ToolKeepsHooks DEF HooksInv, files, ByHook
<1>5. ASSUME NEW p \in Procs, RegisterWorktree(p), HooksGetThrough PROVE HooksInv'
  <2>1. UNCHANGED agent BY <1>5 DEF RegisterWorktree
  <2> QED BY <1>0, <1>1, <1>5, <2>1, WorktreeKeepsHooks DEF HooksInv, ByHook
<1>6. ASSUME NEW p \in Procs, RegisterAgent(p) \/ GiveUp(p) \/ Leave(p) \/ Crash(p), HooksGetThrough
      PROVE  HooksInv'
  <2>1. /\ UNCHANGED <<worktree, tool, job>> /\ pc[p] # "idle"
        /\ \/ pc[p] = "agent" /\ pc' = [pc EXCEPT ![p] = "work"]
           \/ pc' = [pc EXCEPT ![p] = "idle"]
        /\ lease' = lease \/ lease' = [lease EXCEPT ![p] = NoLease]
        /\ \/ agent' = agent
           \/ pc[p] = "agent" /\ agent' = [agent EXCEPT ![AgentOf[Me(p)]] = lease[p]]
    BY <1>6 DEF RegisterAgent, GiveUp, Leave, Crash, GoTo, files
  <2>2. /\ pc'[p] \in {"idle", "work"} /\ \A q \in Procs : q # p => pc'[q] = pc[q] /\ lease'[q] = lease[q]
        /\ pc[p] = "worktree" => pc'[p] = "idle"
    BY <1>0, <2>1 DEF LeasesTypeOK
  <2>3. ~(pc[p] = "worktree" /\ job[p].hook # 0) BY <1>6, <2>2 DEF HooksGetThrough
  <2>4. \A q \in Procs : Owned(q)' BY <2>1, <2>2, <2>3, OwnStepOnly
  <2>5. \A a \in Agents : ByHook(agent'[a])
    BY <1>0, <2>1 DEF LeasesTypeOK, Owned
  <2> QED BY <1>0, <1>1, <2>1, <2>4, <2>5 DEF HooksInv, ByHook
<1>7. CASE Around
  <2>1. UNCHANGED <<files, pc, job, lease>> BY <1>7 DEF Around, Tick, ToolExit
  <2>2. \A s \in Sessions : tool'[s] # 0 => tool[s] # 0
    BY <1>0, <1>7 DEF Around, Tick, ToolExit, LeasesTypeOK
  <2>3. \A q \in Procs : Me(q) \in Sessions BY LeasesAssumption DEF Me
  <2>4. ASSUME NEW q \in Procs PROVE Owned(q)'
    BY <1>0, <2>1, <2>2, <2>3 DEF Owned, OnRecord, HookToCome, ByHook, Me, Here, files
  <2> QED BY <1>0, <1>1, <2>1, <2>4 DEF HooksInv, ByHook, files
<1> QED BY <1>2, <1>3, <1>4, <1>5, <1>6, <1>7 DEF LeasesNext, Register

\* As long as the tool of a session runs, no command of the session rewrites
\* the record of the agent to one without the tool (NewLease keeps the hook it
\* finds), however often tools end and start again and whatever is killed after
\* a hook has written.  It takes that no writer is killed with the file
\* truncated, that a session with hooks and its worktree have each other for
\* themselves, and that hooks get through to the worktree file.
THEOREM HooksStayOnRecord ==
    ASSUME ~TornWrites, HooksAlone, OneHome
    PROVE  LeasesSpec /\ [][HooksGetThrough]_leaseVars => HookKept
<1> DEFINE Keeps ==
      \A a \in Agents :
          /\ Alive(agent[a]) /\ agent[a].hook # 0
          /\ agent'[a].session = agent[a].session
          => agent'[a].hook # 0
<1>1. HooksInv /\ [LeasesNext]_leaseVars => Keeps
  <2> SUFFICES ASSUME HooksInv, [LeasesNext]_leaseVars, NEW a \in Agents, agent[a].hook # 0,
                      agent'[a].session = agent[a].session
               PROVE  agent'[a].hook # 0
    OBVIOUS
  <2>0. LeasesTypeOK /\ agent[a].session \in HookSessions BY DEF HooksInv, ByHook
  <2>1. CASE agent' = agent BY <2>1
  <2>2. CASE agent' # agent
    <3>1. PICK p \in Procs : pc[p] = "agent" /\ agent' = [agent EXCEPT ![AgentOf[Me(p)]] = lease[p]]
      BY <2>2 DEF LeasesNext, Register, leaseVars, files, Around, Tick, ToolExit, StartCommand, SessionStart,
                  SessionEnd, RegisterWorktree, RegisterAgent, GiveUp, Leave, Crash
    <3>2. CASE a = AgentOf[Me(p)]
      <4>1. agent'[a] = lease[p] BY <2>0, <3>1, <3>2 DEF LeasesTypeOK
      <4> QED BY <2>0, <3>1, <4>1 DEF HooksInv, Owned
    <3>3. CASE a # AgentOf[Me(p)]
      <4>1. agent'[a] = agent[a] BY <2>0, <3>1, <3>3 DEF LeasesTypeOK
      <4> QED BY <4>1
    <3> QED BY <3>2, <3>3
  <2> QED BY <2>1, <2>2
<1>2. [][Keeps]_leaseVars => HookKept BY PTL DEF HookKept
<1>3. LeasesInit => HooksInv BY HooksBegin
<1>4. HooksInv /\ [LeasesNext /\ HooksGetThrough]_leaseVars => HooksInv' BY HooksKept
<1> HIDE DEF Keeps
<1> QED BY <1>1, <1>2, <1>3, <1>4, PTL DEF LeasesSpec
===========================================================================
