---------------------------- MODULE IssueLedger ---------------------------
(***************************************************************************)
(* What the board promises, without refs, commits, retries or processes:   *)
(* every issue is one record that accepted commands change one at a time,  *)
(* and a finished issue is filed away once and never moves again.          *)
(*                                                                         *)
(* Board is shown to implement this specification, so the modules that     *)
(* compose the board with leases use these actions for a whole command.    *)
(***************************************************************************)
EXTENDS IssueRules

CONSTANT Ids          \* the issues of the board

VARIABLES status,     \* the status of each issue
          owner,      \* who holds it
          filed       \* is it in archive/ rather than in issues/?

ledger == <<status, owner, filed>>

LedgerTypeOK ==
    /\ status \in [Ids -> Status]
    /\ owner \in [Ids -> Owners]
    /\ filed \in [Ids -> BOOLEAN]

LedgerInit ==
    /\ status = [i \in Ids |-> "open"]
    /\ owner  = [i \in Ids |-> Nobody]
    /\ filed  = [i \in Ids |-> FALSE]

\* An accepted transition command of session s.
Perform(i, s, act, force) ==
    /\ ~filed[i]
    /\ Permitted(act, force, status[i], owner[i], s)
    /\ status' = [status EXCEPT ![i] = To(act)]
    /\ owner'  = [owner EXCEPT ![i] = NewOwner(act, @, s)]
    /\ UNCHANGED filed

\* A reap that found the issue still held by the owner it had seen.
TakeBack(i) ==
    /\ ~filed[i]
    /\ status[i] \in InFlight
    /\ status' = [status EXCEPT ![i] = ReapStatus(@)]
    /\ owner'  = [owner EXCEPT ![i] = Nobody]
    /\ UNCHANGED filed

\* Moving a finished issue to archive/.
File(i) ==
    /\ ~filed[i]
    /\ status[i] \in Terminal
    /\ filed' = [filed EXCEPT ![i] = TRUE]
    /\ UNCHANGED <<status, owner>>

LedgerNext ==
    \E i \in Ids :
        \/ \E s \in Sessions, act \in Actions, force \in BOOLEAN :
               Perform(i, s, act, force)
        \/ TakeBack(i)
        \/ File(i)

LedgerSpec == LedgerInit /\ [][LedgerNext]_ledger
===========================================================================
