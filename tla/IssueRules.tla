---------------------------- MODULE IssueRules ----------------------------
(***************************************************************************)
(* The transition rules of a ppwk issue: which command moves an issue from *)
(* which status to which, and what it asks of, and does to, the ownership  *)
(* of the issue.  Pure operators, no state: the board that applies them    *)
(* under compare-and-swap is in Board and, as one atomic ledger, in        *)
(* IssueLedger.                                                            *)
(*                                                                         *)
(* An owner in the code is the pair (agent, session).  The session nonce   *)
(* is random and belongs to one agent, so a session stands for the pair    *)
(* and Nobody for the empty pair.                                          *)
(***************************************************************************)
CONSTANTS Sessions,   \* the sessions that run commands
          Nobody      \* the owner of an issue nobody holds

ASSUME NobodyAssumption == Nobody \notin Sessions

Owners == Sessions \cup {Nobody}

Status   == {"open", "claimed", "working", "blocked", "done", "cancelled"}
Terminal == {"done", "cancelled"}
InFlight == {"claimed", "working", "blocked"}

Actions == {"claim", "start", "done", "block", "unblock", "release", "cancel"}

\* Mutant of From: what --force adds to release is allowed without it.
FromForced(act, force) ==
    IF act = "release" THEN {"claimed", "working"}
    ELSE IF act \in {"claim", "start"} THEN {"open", "claimed"}
    ELSE IF act \in {"done", "block"} THEN {"working"}
    ELSE IF act = "unblock" THEN {"blocked"}
    ELSE {"open", "claimed", "working", "blocked"}

(***************************************************************************)
(* The table `transitions' and its extension by --force.                   *)
(***************************************************************************)
From(act, force) ==
    CASE act = "claim"   -> {"open"}
      [] act = "start"   -> {"open", "claimed"}
      [] act = "done"    -> {"working"}
      [] act = "block"   -> {"working"}
      [] act = "unblock" -> {"blocked"}
      [] act = "release" -> {"claimed"} \cup (IF force THEN {"working"} ELSE {})
      [] act = "cancel"  -> {"open", "claimed", "working", "blocked"}

To(act) ==
    CASE act = "claim"   -> "claimed"
      [] act = "start"   -> "working"
      [] act = "done"    -> "done"
      [] act = "block"   -> "blocked"
      [] act = "unblock" -> "working"
      [] act = "release" -> "open"
      [] act = "cancel"  -> "cancelled"

Take  == {"claim", "start"}             \* ownTake
Keep  == {"done", "block", "unblock"}   \* ownRequire
Clear == {"release", "cancel"}          \* ownClear

\* Mutant of OwnershipAllows: take does not look at the owner.
TakeFromAnyone(act, force, owner, s) ==
    \/ act \in Take
    \/ act \in Keep  /\ owner = s
    \/ act \in Clear /\ (owner \in {Nobody, s} \/ force)

\* checkOwnership: may session s perform act on an issue held by owner?
OwnershipAllows(act, force, owner, s) ==
    LET mine == owner \in {Nobody, s}
    IN  \/ act \in Take  /\ mine
        \/ act \in Keep  /\ mine /\ owner # Nobody
        \/ act \in Clear /\ (mine \/ force)

\* applyTransition without its effect: the command is accepted.
Permitted(act, force, status, owner, s) ==
    /\ status \notin Terminal
    /\ status \in From(act, force)
    /\ OwnershipAllows(act, force, owner, s)

\* The owner an accepted command leaves behind.
NewOwner(act, owner, s) ==
    IF act \in Take THEN s ELSE IF act \in Clear THEN Nobody ELSE owner

(***************************************************************************)
(* The rule of `reap': the issue must still be held by the owner seen when *)
(* the targets were collected; a claimed or working issue reopens, a       *)
(* blocked one stays blocked and only loses its owner.                     *)
(***************************************************************************)
ReapPermitted(seen, status, owner) == owner = seen /\ status \in InFlight

ReapStatus(status) == IF status = "blocked" THEN "blocked" ELSE "open"
===========================================================================
