------------------------------- MODULE Gates ------------------------------
(***************************************************************************)
(* The rules by which ppwk chooses work: when the gate of a phase is open, *)
(* which edits a plan document takes, and in which order candidates come.  *)
(* Pure operators, no state; Scheduling applies them to what a process has *)
(* read, however stale that is.                                            *)
(*                                                                         *)
(* A plan is its status, its phases in order and the phases opened by      *)
(* hand.  Phase n is the one with id p<n>; Outside stands for the empty    *)
(* phase of a task that belongs to no plan.                                *)
(***************************************************************************)
EXTENDS Integers, Sequences, FiniteSets

CONSTANTS Tasks,      \* issue numbers
          PhaseOf,    \* the phase a task names, or Outside
          SeqOf,      \* its seq
          Priority    \* its priority: 3 high, 2 med, 1 low, 0 none (backlog)

Outside == 0

ASSUME GatesAssumption ==
    /\ Tasks \subseteq Nat /\ IsFiniteSet(Tasks)
    /\ PhaseOf \in [Tasks -> Nat] /\ SeqOf \in [Tasks -> Nat]
    /\ Priority \in [Tasks -> 0..3]

Terminal == {"done", "cancelled"}
Gate == {"all_done", "any_done", "manual"}
PlanStatus == {"active", "closed", "cancelled"}

\* A plan document; Outside is the id of no phase.
PlanDocs == [status : PlanStatus, priority : 0..3, advanced : SUBSET (Nat \ {0}),
             phases : Seq([id : Nat \ {0}, gate : Gate])]

\* Plan.Validate: ids are unique, and advanced_phases names existing ones.
ValidPlan(plan) ==
    /\ \A j, k \in DOMAIN plan.phases :
          plan.phases[j].id = plan.phases[k].id => j = k
    /\ plan.advanced \subseteq {plan.phases[k].id : k \in DOMAIN plan.phases}

PhaseIds(plan) == {plan.phases[k].id : k \in DOMAIN plan.phases}

At(plan, ph) == CHOOSE k \in DOMAIN plan.phases : plan.phases[k].id = ph

---------------------------------------------------------------------------
(***************************** Gates ***************************************)

\* phaseCounts over two listings, issues/ and archive/: each maps the tasks it
\* found to their status.  A task in both listings is counted twice.
Tally(inIssues, inArchive) ==
    [ph \in {PhaseOf[t] : t \in Tasks} |->
        LET these(listing, st) ==
                {t \in DOMAIN listing : PhaseOf[t] = ph /\ listing[t] \in st}
            count(st) == Cardinality(these(inIssues, st))
                       + Cardinality(these(inArchive, st))
        IN  [total    |-> count({"open", "claimed", "done", "cancelled"}),
             done     |-> count({"done"}),
             terminal |-> count(Terminal)]]

Zero == [total |-> 0, done |-> 0, terminal |-> 0]

Of(tally, ph) == IF ph \in DOMAIN tally THEN tally[ph] ELSE Zero

\* gateOpen: the condition of a phase is on the phase before it.
GateOpen(plan, ph, tally) ==
    /\ ph \in PhaseIds(plan)
    /\ \/ At(plan, ph) = 1
       \/ LET k == At(plan, ph)
              gate == plan.phases[k].gate
              previous == Of(tally, plan.phases[k - 1].id)
          IN  \/ gate = "manual"   /\ ph \in plan.advanced
              \/ gate = "all_done" /\ previous.terminal = previous.total
              \/ gate = "any_done" /\ previous.done > 0

\* planIndex.eligible, for a task of the plan or of none.
PlanAllows(plan, ph, tally) ==
    ph = Outside \/ (plan.status = "active" /\ GateOpen(plan, ph, tally))

---------------------------------------------------------------------------
(************************** Order of candidates ****************************)

\* place: (index of the phase, seq); a task outside the plan sits in between.
Place(plan, t) ==
    IF PhaseOf[t] = Outside THEN <<1, 35 - 10 * Priority[t]>>
    ELSE IF PhaseOf[t] \in PhaseIds(plan) THEN <<At(plan, PhaseOf[t]), SeqOf[t]>>
    ELSE <<1, SeqOf[t]>>

PlanRank(plan, t) == IF PhaseOf[t] = Outside THEN 2 ELSE plan.priority

\* compare: by the priority of the plan, by place, by the priority of the task,
\* by age, which ids follow.
Before(plan, t, u) ==
    LET a == Place(plan, t)
        b == Place(plan, u)
    IN  \/ PlanRank(plan, t) > PlanRank(plan, u)
        \/ /\ PlanRank(plan, t) = PlanRank(plan, u)
           /\ \/ a[1] < b[1]
              \/ a[1] = b[1] /\ a[2] < b[2]
              \/ a = b /\ Priority[t] > Priority[u]
              \/ a = b /\ Priority[t] = Priority[u] /\ t < u

---------------------------------------------------------------------------
(*************************** Edits of a plan *******************************)

\* What AddPhase, EditPhase, RemovePhase, AdvancePhase, SetPlanStatus and
\* EditPlan are asked for.
PlanEdits ==
         [op : {"add"}, phase : Nat, after : BOOLEAN, gate : Gate]
    \cup [op : {"gate"}, phase : Nat, gate : Gate]
    \cup [op : {"remove", "advance"}, phase : Nat]
    \cup [op : {"status"}, status : PlanStatus]
    \cup [op : {"priority"}, priority : 0..3]

\* nextPhaseID: the first number no phase has; a removed one is used again.
NextPhase(plan) ==
    CHOOSE n \in 1..Len(plan.phases) + 1 :
        /\ n \notin PhaseIds(plan)
        /\ \A m \in 1..n - 1 : m \in PhaseIds(plan)

\* Does the document take the edit?  EditPhase, RemovePhase and AdvancePhase
\* ask for the phase, AddPhase for its anchor, SetPlanStatus for another status.
Takes(plan, edit) ==
    CASE edit.op = "add"      -> edit.phase \in PhaseIds(plan) \cup {Outside}
      [] edit.op = "status"   -> plan.status # edit.status
      [] edit.op = "priority" -> TRUE
      [] OTHER                -> edit.phase \in PhaseIds(plan)

\* A new phase goes before its anchor, after it, or to the end without one.
Inserted(plan, edit) ==
    LET new == <<[id |-> NextPhase(plan), gate |-> edit.gate]>>
        k   == IF edit.phase = Outside THEN Len(plan.phases)
               ELSE At(plan, edit.phase) - (IF edit.after THEN 0 ELSE 1)
    IN  SubSeq(plan.phases, 1, k) \o new
        \o SubSeq(plan.phases, k + 1, Len(plan.phases))

Without(plan, ph) ==
    SubSeq(plan.phases, 1, At(plan, ph) - 1)
    \o SubSeq(plan.phases, At(plan, ph) + 1, Len(plan.phases))

\* The document after the edit.
Edited(plan, edit) ==
    CASE edit.op = "add"      -> [plan EXCEPT !.phases = Inserted(plan, edit)]
      [] edit.op = "gate"     ->
            [plan EXCEPT !.phases[At(plan, edit.phase)].gate = edit.gate]
      [] edit.op = "remove"   ->
            [plan EXCEPT !.phases = Without(plan, edit.phase),
                         !.advanced = @ \ {edit.phase}]
      [] edit.op = "advance"  -> [plan EXCEPT !.advanced = @ \cup {edit.phase}]
      [] edit.op = "status"   -> [plan EXCEPT !.status = edit.status]
      [] edit.op = "priority" -> [plan EXCEPT !.priority = edit.priority]
===========================================================================
