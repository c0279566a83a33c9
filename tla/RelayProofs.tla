------------------------------ MODULE RelayProofs -----------------------------
(***************************************************************************)
(* Proofs about three parts of the relay that share no state: the control  *)
(* socket and its watchdogs, the messages of a route, and the ingress      *)
(* budget, for any numbers of sockets, clients, routes, sources and read   *)
(* loops.                                                                  *)
(***************************************************************************)
EXTENDS RelayControl, RelayDelivery, RelayLedger, FiniteSetTheorems, TLAPS

-----------------------------------------------------------------------------
(***************************************************************************)
(* The control socket. By itself WaitingIsWatched says nothing of a        *)
(* watchdog that was armed before there was a route to wait for it. The    *)
(* chain's two marks belong together: the session remembers a socket in    *)
(* watchdogFor only as long as the first deadline of that socket runs.     *)
(***************************************************************************)
ChainRuns == watchdog # NoControl => watchdog \in stage1

CInv == ControlTypeOK /\ WaitingIsWatched /\ ChainRuns

LEMMA ControlBegins == ControlInit => CInv
BY ControlAssumption
   DEF ControlInit, CInv, ControlTypeOK, WaitingIsWatched, ChainRuns, Standing

\* The steps of a control socket and of its timers.
LEMMA ControlSteps ==
    ASSUME CInv, NEW k \in Controls,
           \/ AttachControl(k) \/ FirstSync(k) \/ ControlLeaves(k)
           \/ Stage1(k) \/ SyncAgain(k) \/ Stage2(k)
    PROVE  CInv'
<1> USE ControlAssumption DEF CInv, ControlTypeOK, WaitingIsWatched, ChainRuns, Standing, Waiting, Occupied
<1>1. CASE AttachControl(k) BY <1>1 DEF AttachControl, Arm, Free
<1>2. CASE FirstSync(k) BY <1>2 DEF FirstSync, Tell
<1>3. CASE ControlLeaves(k) BY <1>3 DEF ControlLeaves
<1>4. CASE Stage1(k) BY <1>4 DEF Stage1
<1>5. CASE SyncAgain(k) BY <1>5 DEF SyncAgain, Tell
<1>6. CASE Stage2(k) BY <1>6 DEF Stage2
<1> QED BY <1>1, <1>2, <1>3, <1>4, <1>5, <1>6

\* The topology under it changes.
LEMMA TopologySteps ==
    ASSUME CInv,
           \/ \E c \in Clients : AttachClient(c) \/ ClientLeaves(c)
           \/ \E r \in Routes : DataAttaches(r) \/ DataLeaves(r)
    PROVE  CInv'
<1> USE ControlAssumption DEF CInv, ControlTypeOK, WaitingIsWatched, ChainRuns, Standing, Waiting, Occupied
<1>1. CASE \E c \in Clients : AttachClient(c) BY <1>1 DEF AttachClient, Arm, Tell
<1>2. CASE \E c \in Clients : ClientLeaves(c) BY <1>2 DEF ClientLeaves
<1>3. CASE \E r \in Routes : DataAttaches(r) BY <1>3 DEF DataAttaches
<1>4. CASE \E r \in Routes : DataLeaves(r) BY <1>4 DEF DataLeaves
<1> QED BY <1>1, <1>2, <1>3, <1>4

THEOREM ControlInvariant == ControlSpec => []CInv
<1>1. CInv /\ [ControlNext]_controlVars => CInv'
  <2> SUFFICES ASSUME CInv, [ControlNext]_controlVars PROVE CInv' OBVIOUS
  <2>1. CASE ControlNext BY <2>1, ControlSteps, TopologySteps DEF ControlNext
  <2>2. CASE UNCHANGED controlVars
    BY <2>2 DEF controlVars, CInv, ControlTypeOK, WaitingIsWatched, ChainRuns, Standing
  <2> QED BY <2>1, <2>2
<1> QED BY <1>1, ControlBegins, PTL DEF ControlSpec

\* No order of attaching, replacing and leaving gets a waiting route past the
\* watchdog, for any number of sockets and routes.
THEOREM Watched == ControlSpec => []WaitingIsWatched
<1>1. CInv => WaitingIsWatched BY DEF CInv
<1> QED BY <1>1, ControlInvariant, PTL

\* The state is of its type; the session's control socket is one that stands.
THEOREM ControlTyping == ControlSpec => []ControlTypeOK
<1>1. CInv => ControlTypeOK BY DEF CInv
<1> QED BY <1>1, ControlInvariant, PTL

-----------------------------------------------------------------------------
(***************************************************************************)
(* The messages of a route. What OneAnswerEach lacks to be inductive is    *)
(* what becomes of an answer whose waiter has left by itself: it is still  *)
(* owed only to a source of a session that has ended, so that no later     *)
(* wait of the source, which is one of another session, can find it in its *)
(* channel.                                                                *)
(***************************************************************************)
StaleIsOfEnded ==
    \A s \in Sources :
        /\ route[s] \notin {"waiting", "expired"} => ready[s] = "none"
        /\ route[s] \notin {"waiting", "expired"} /\ owed[s] # "none" => ended

DInv ==
    /\ DeliveryTypeOK /\ NobodyWaitsBesideData /\ OneAnswerEach
    /\ KilledIsNotSent /\ StaleIsOfEnded

\* No source waits, is owed an answer or is called for when all are gone.
LEMMA DeliveryBegins == DeliveryInit => DInv
BY DEF DeliveryInit, DInv, DeliveryTypeOK, NobodyWaitsBesideData, OneAnswerEach, KilledIsNotSent,
       StaleIsOfEnded, Answers, Present

\* Steps of a source: what it does with its own message and its own waiter.
LEMMA SourceSteps ==
    ASSUME DInv, NEW s \in Sources,
           \/ Join(s) \/ Quit(s) \/ Message(s) \/ Call(s) \/ Look(s)
           \/ Receive(s) \/ OwnerDone(s) \/ TimerFires(s) \/ Return(s) \/ Send(s)
    PROVE  DInv'
<1> USE DEF DInv, DeliveryTypeOK, NobodyWaitsBesideData, OneAnswerEach, KilledIsNotSent, StaleIsOfEnded,
            Answers, Present
<1>1. CASE Join(s) BY <1>1 DEF Join
<1>2. CASE Quit(s) BY <1>2 DEF Quit
<1>3. CASE Message(s) BY <1>3 DEF Message
<1>4. CASE Call(s) BY <1>4 DEF Call, Answered, Goto
<1>5. CASE Look(s) BY <1>5 DEF Look, Answered, Goto
<1>6. CASE Receive(s) BY <1>6 DEF Receive, Answered
<1>7. CASE OwnerDone(s) BY <1>7 DEF OwnerDone, Answered
<1>8. CASE TimerFires(s) BY <1>8 DEF TimerFires, Answered, Goto
<1>9. CASE Return(s) BY <1>9 DEF Return
<1>10. CASE Send(s) BY <1>10 DEF Send
<1> QED BY <1>1, <1>2, <1>3, <1>4, <1>5, <1>6, <1>7, <1>8, <1>9, <1>10

\* Steps of those that take waiters and answer them, and of watchdogs.
LEMMA TakerSteps ==
    ASSUME DInv,
           \/ \E s \in Sources : Notify(s) \/ Expires(s) \/ Kills(s) \/ Drains(s)
           \/ Anew \/ DataAttach \/ DataDetach \/ Reconciled
           \/ \E S \in SUBSET Sources : Shed(S)
    PROVE  DInv'
<1> USE DEF DInv, DeliveryTypeOK, NobodyWaitsBesideData, OneAnswerEach, KilledIsNotSent, StaleIsOfEnded,
            Answers, Present
<1>1. CASE \E s \in Sources : Notify(s) BY <1>1 DEF Notify
<1>2. CASE \E s \in Sources : Expires(s) BY <1>2 DEF Expires
<1>3. CASE \E s \in Sources : Kills(s) BY <1>3 DEF Kills
<1>4. CASE \E s \in Sources : Drains(s) BY <1>4 DEF Drains, Take
<1>5. CASE Anew BY <1>5 DEF Anew
<1>6. CASE DataAttach BY <1>6 DEF DataAttach, Take
<1>7. CASE DataDetach BY <1>7 DEF DataDetach, Take
<1>8. CASE Reconciled BY <1>8 DEF Reconciled, Take
<1>9. CASE \E S \in SUBSET Sources : Shed(S) BY <1>9 DEF Shed, Take
<1> QED BY <1>1, <1>2, <1>3, <1>4, <1>5, <1>6, <1>7, <1>8, <1>9

\* The invariant of every behaviour of the route.
THEOREM DeliveryInvariant == DeliverySpec => []DInv
<1>1. DInv /\ [DeliveryNext]_deliveryVars => DInv'
  <2> SUFFICES ASSUME DInv, [DeliveryNext]_deliveryVars PROVE DInv' OBVIOUS
  <2>1. CASE DeliveryNext BY <2>1, SourceSteps, TakerSteps DEF DeliveryNext
  <2>2. CASE UNCHANGED deliveryVars
    BY <2>2 DEF deliveryVars, DInv, DeliveryTypeOK, NobodyWaitsBesideData, OneAnswerEach,
                KilledIsNotSent, StaleIsOfEnded, Present
  <2> QED BY <2>1, <2>2
<1> QED BY <1>1, DeliveryBegins, PTL DEF DeliverySpec

\* No wake-up is lost between the look at the topology and the registration.
THEOREM NoLostWakeUp == DeliverySpec => []NobodyWaitsBesideData
<1>1. DInv => NobodyWaitsBesideData BY DEF DInv
<1> QED BY <1>1, DeliveryInvariant, PTL

\* One taker answers each waiter once: the channel of one place is enough, and
\* a source that waits past its deadline for who has taken it gets an answer.
THEOREM OneAnswer == DeliverySpec => []OneAnswerEach
<1>1. DInv => OneAnswerEach BY DEF DInv
<1> QED BY <1>1, DeliveryInvariant, PTL

\* What a call that was killed for being slow has found is not sent.
THEOREM LateIsDropped == DeliverySpec => []KilledIsNotSent
<1>1. DInv => KilledIsNotSent BY DEF DInv
<1> QED BY <1>1, DeliveryInvariant, PTL

\* The state is of its type for any set of sources.
THEOREM DeliveryTyping == DeliverySpec => []DeliveryTypeOK
<1>1. DInv => DeliveryTypeOK BY DEF DInv
<1> QED BY <1>1, DeliveryInvariant, PTL

-----------------------------------------------------------------------------
(***************************************************************************)
(* The ingress budget. A correction takes the wrong amount at times        *)
(* (README, "What does not hold"), yet never gives room away that is not   *)
(* there to be used, which is what LeakPositive is for.                    *)
(***************************************************************************)
Busy == {x \in Readers : reader[x] # "idle"}

LeakPositive ==
    /\ ticker.step = "leak" => ticker.of > 0
    /\ ticker.step # "idle" => corrections < MaxCorrections

LInv == LedgerTypeOK /\ InFlightCounted /\ NothingLost /\ LeakPositive

\* The counts of busy and of holding loops, and what one loop changes in them.
LEMMA Counts ==
    /\ IsFiniteSet(Busy) /\ Cardinality(Busy) \in Nat
    /\ IsFiniteSet(Holding) /\ Cardinality(Holding) \in Nat
BY LedgerAssumption, FS_Subset, FS_CardinalityType DEF Busy, Holding

LEMMA OneMore ==
    ASSUME NEW S, NEW T, IsFiniteSet(S), NEW x, x \notin S, T = S \cup {x}
    PROVE  Cardinality(T) = Cardinality(S) + 1
BY FS_AddElement

LEMMA OneLess ==
    ASSUME NEW S, NEW T, IsFiniteSet(S), NEW x \in S, T = S \ {x}
    PROVE  Cardinality(T) = Cardinality(S) - 1
BY FS_RemoveElement

LEMMA LedgerBegins == LedgerInit => LInv
<1> SUFFICES ASSUME LedgerInit PROVE LInv OBVIOUS
<1> USE DEF LedgerInit
<1>1. Busy = {} /\ Holding = {} BY DEF Busy, Holding
<1>2. Cardinality({}) = 0 BY FS_EmptySet
<1>3. LedgerTypeOK /\ LeakPositive BY LedgerAssumption DEF LedgerTypeOK, LeakPositive
<1> QED BY <1>1, <1>2, <1>3 DEF LInv, InFlightCounted, NothingLost, Busy

\* Every step of a frame moves its loop in or out of the two sets as the
\* counters say.
LEMMA FrameSteps ==
    ASSUME LInv, NEW x \in Readers,
           Publish(x) \/ ReserveFrame(x) \/ Withdraw(x) \/ GiveBack(x) \/ Retire(x)
    PROVE  LInv'
<1> USE LedgerAssumption, Counts DEF LInv, LedgerTypeOK, LeakPositive, FrameMoves
<1>0. inFlight = Cardinality(Busy) /\ reserved <= Cardinality(Holding)
  BY DEF InFlightCounted, NothingLost, Busy
<1>1. SUFFICES /\ LedgerTypeOK'
               /\ inFlight' = Cardinality(Busy') /\ reserved' <= Cardinality(Holding')
               /\ LeakPositive'
  BY DEF InFlightCounted, NothingLost, Busy
<1>2. CASE Publish(x)
  <2>1. x \notin Busy /\ Busy' = Busy \cup {x} /\ Holding' = Holding
    BY <1>2 DEF Publish, Busy, Holding
  <2>2. Cardinality(Busy') = Cardinality(Busy) + 1 BY <2>1, OneMore
  <2> QED BY <1>0, <1>2, <2>1, <2>2 DEF Publish
<1>3. CASE ReserveFrame(x)
  <2>1. Busy' = Busy BY <1>3 DEF ReserveFrame, Busy
  <2>2. CASE reserved < Budget
    <3>1. x \notin Holding /\ Holding' = Holding \cup {x} BY <1>3, <2>2 DEF ReserveFrame, Holding
    <3>2. Cardinality(Holding') = Cardinality(Holding) + 1 BY <3>1, OneMore
    <3> QED BY <1>0, <1>3, <2>1, <2>2, <3>2 DEF ReserveFrame
  <2>3. CASE ~(reserved < Budget)
    <3>1. Holding' = Holding BY <1>3, <2>3 DEF ReserveFrame, Holding
    <3> QED BY <1>0, <1>3, <2>1, <2>3, <3>1 DEF ReserveFrame
  <2> QED BY <2>2, <2>3
<1>4. CASE Withdraw(x)
  <2>1. x \in Busy /\ Busy' = Busy \ {x} /\ Holding' = Holding BY <1>4 DEF Withdraw, Busy, Holding
  <2>2. Cardinality(Busy') = Cardinality(Busy) - 1 BY <2>1, OneLess
  <2>3. Cardinality(Busy') \in Nat BY <2>1, FS_RemoveElement, FS_CardinalityType
  <2> QED BY <1>0, <1>4, <2>1, <2>2, <2>3 DEF Withdraw
<1>5. CASE GiveBack(x)
  <2>1. Busy' = Busy /\ x \in Holding /\ Holding' = Holding \ {x} BY <1>5 DEF GiveBack, Busy, Holding
  <2>2. Cardinality(Holding') = Cardinality(Holding) - 1 BY <2>1, OneLess
  <2> QED BY <1>0, <1>5, <2>1, <2>2 DEF GiveBack
<1>6. CASE Retire(x)
  <2>1. x \in Busy /\ Busy' = Busy \ {x} /\ Holding' = Holding BY <1>6 DEF Retire, Busy, Holding
  <2>2. Cardinality(Busy') = Cardinality(Busy) - 1 BY <2>1, OneLess
  <2>3. Cardinality(Busy') \in Nat BY <2>1, FS_RemoveElement, FS_CardinalityType
  <2> QED BY <1>0, <1>6, <2>1, <2>2, <2>3 DEF Retire
<1> QED BY <1>2, <1>3, <1>4, <1>5, <1>6

\* The ticker only lowers what is reserved.
LEMMA TickerSteps ==
    ASSUME LInv, ReadReserved \/ ReadInFlight \/ Correct
    PROVE  LInv'
<1> USE LedgerAssumption, Counts DEF LInv, LedgerTypeOK, LeakPositive, InFlightCounted, NothingLost, Holding
<1>1. CASE ReadReserved BY <1>1 DEF ReadReserved
<1>2. CASE ReadInFlight BY <1>2 DEF ReadInFlight
<1>3. CASE Correct BY <1>3 DEF Correct
<1> QED BY <1>1, <1>2, <1>3

THEOREM LedgerInvariant == LedgerSpec => []LInv
<1>1. LInv /\ [LedgerNext]_ledgerVars => LInv'
  <2> SUFFICES ASSUME LInv, [LedgerNext]_ledgerVars PROVE LInv' OBVIOUS
  <2>1. CASE LedgerNext BY <2>1, FrameSteps, TickerSteps DEF LedgerNext
  <2>2. CASE UNCHANGED ledgerVars
    BY <2>2 DEF ledgerVars, LInv, LedgerTypeOK, InFlightCounted, NothingLost, LeakPositive, Holding
  <2> QED BY <2>1, <2>2
<1> QED BY <1>1, LedgerBegins, PTL DEF LedgerSpec

\* An idle node has the whole of its budget again, and no interleaving of
\* frames and corrections loses a part of it, for any number of loops.
THEOREM BudgetReturns == LedgerSpec => []BudgetAccounted
<1>1. LInv => BudgetAccounted BY DEF LInv, BudgetAccounted
<1> QED BY <1>1, LedgerInvariant, PTL
=============================================================================
