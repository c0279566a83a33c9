----------------------------- MODULE RelayLedger --------------------------
(***************************************************************************)
(* The ingress budget of a node of the sanbo relay: two atomic counters    *)
(* without a lock around them.  Every frame that is read is published in   *)
(* ingressInFlight and then reserved in ingressReserved, and given back in *)
(* the other order; a ticker takes what is reserved and not in flight for  *)
(* leaked and gives it back too.  A frame counts as one.                   *)
(***************************************************************************)
EXTENDS Integers, FiniteSets

CONSTANTS Readers,        \* read loops, one frame each at a time
          Budget,         \* PASEO_RELAY_INGRESS_BUDGET_BYTES
          MaxCorrections  \* bound: corrections of the ticker

ASSUME LedgerAssumption == IsFiniteSet(Readers) /\ Budget \in Nat \ {0} /\ MaxCorrections \in Nat

VARIABLES
    reader,       \* per read loop: the step of its frame
    reserved,     \* ingressReserved
    inFlight,     \* ingressInFlight
    ticker,       \* the reserved it has read, or the leak it has computed
    corrections   \* how often it has corrected

ledgerVars == <<reader, reserved, inFlight, ticker, corrections>>

LedgerInit ==
    /\ reader = [x \in Readers |-> "idle"]
    /\ reserved = 0 /\ inFlight = 0
    /\ ticker = [step |-> "idle", of |-> 0]
    /\ corrections = 0

FrameMoves(x, from, to) == reader[x] = from /\ reader' = [reader EXCEPT ![x] = to]

\* reserveIngress: published ...
Publish(x) ==
    /\ FrameMoves(x, "idle", "published")
    /\ inFlight' = inFlight + 1
    /\ UNCHANGED <<reserved, ticker, corrections>>

\* ... and reserved by compare-and-swap, or withdrawn.
ReserveFrame(x) ==
    /\ IF reserved < Budget
       THEN FrameMoves(x, "published", "routed") /\ reserved' = reserved + 1
       ELSE FrameMoves(x, "published", "refused") /\ UNCHANGED reserved
    /\ UNCHANGED <<inFlight, ticker, corrections>>

Withdraw(x) ==
    /\ FrameMoves(x, "refused", "idle")
    /\ inFlight' = inFlight - 1
    /\ UNCHANGED <<reserved, ticker, corrections>>

\* Mutant of GiveBack: the other order.
GiveBackPublished(x) ==
    /\ FrameMoves(x, "routed", "released")
    /\ inFlight' = inFlight - 1
    /\ UNCHANGED <<reserved, ticker, corrections>>

\* releaseInFlight, at the end of every route.
GiveBack(x) ==
    /\ FrameMoves(x, "routed", "released")
    /\ reserved' = reserved - 1
    /\ UNCHANGED <<inFlight, ticker, corrections>>

Retire(x) ==
    /\ FrameMoves(x, "released", "idle")
    /\ inFlight' = inFlight - 1
    /\ UNCHANGED <<reserved, ticker, corrections>>

\* reconcileCapacity: two loads, and a subtraction.
ReadReserved ==
    /\ ticker.step = "idle" /\ corrections < MaxCorrections
    /\ ticker' = [step |-> "read", of |-> reserved]
    /\ UNCHANGED <<reader, reserved, inFlight, corrections>>

ReadInFlight ==
    /\ ticker.step = "read"
    /\ ticker' = IF ticker.of > inFlight
                 THEN [step |-> "leak", of |-> ticker.of - inFlight]
                 ELSE [step |-> "idle", of |-> 0]
    /\ UNCHANGED <<reader, reserved, inFlight, corrections>>

Correct ==
    /\ ticker.step = "leak"
    /\ reserved' = reserved - ticker.of
    /\ ticker' = [step |-> "idle", of |-> 0]
    /\ corrections' = corrections + 1
    /\ UNCHANGED <<reader, inFlight>>

LedgerNext ==
    \/ \E x \in Readers : Publish(x) \/ ReserveFrame(x) \/ Withdraw(x) \/ GiveBack(x) \/ Retire(x)
    \/ ReadReserved \/ ReadInFlight \/ Correct

LedgerSpec == LedgerInit /\ [][LedgerNext]_ledgerVars

---------------------------------------------------------------------------
Holding == {x \in Readers : reader[x] = "routed"}

LedgerTypeOK ==
    /\ reader \in [Readers -> {"idle", "published", "refused", "routed", "released"}]
    /\ reserved \in Int /\ inFlight \in Nat /\ corrections \in 0..MaxCorrections
    /\ ticker \in [step : {"idle", "read", "leak"}, of : Int]

\* The counter of frames in flight counts exactly those that are, so that an
\* idle node has the whole of its budget again ...
InFlightCounted == inFlight = Cardinality({x \in Readers : reader[x] # "idle"})

\* ... and what is reserved is reserved for a frame that is being routed: no
\* interleaving of frames and corrections loses a part of the budget.
NothingLost == reserved <= Cardinality(Holding)

\* The two counters account for the frames on their way, and for nothing else.
BudgetAccounted == InFlightCounted /\ NothingLost

\* So at no instant is more reserved than in flight; the ticker finds a leak
\* all the same.  The comment of reserveIngress says that a snapshot taken while
\* frames are routed can never mistake one for a leak.
NoLeakIsFound == ticker.step # "leak"
===========================================================================
