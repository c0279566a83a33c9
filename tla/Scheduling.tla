---------------------------- MODULE Scheduling ----------------------------
(***************************************************************************)
(* ppwk next --claim, plan show and the edits of a plan, over a board that *)
(* other agents go on working on.  Nothing is read at one moment: the open *)
(* issues are listed, then shown one by one, the plan is read once and     *)
(* cached, the tasks of the plan are listed in issues/ and then, later, in *)
(* archive/, the issues depended on are shown, and at last a candidate is  *)
(* claimed by a compare-and-swap that asks for its status only.            *)
(*                                                                         *)
(* One action is one access to the ref store by one process, or a local    *)
(* verdict.  The other agents take, give back, finish, cancel and archive  *)
(* any task in steps of their own; of their commands only the effect       *)
(* remains, and Board has the rest.  `next' reaps first: what that does to *)
(* the board is a task given back.  The lock of a ref, free here, is       *)
(* Board's too.                                                            *)
(***************************************************************************)
EXTENDS Gates

CONSTANTS Schedulers,   \* processes that run next --claim
          Editors,      \* processes that edit the plan or show it
          DependsOn,    \* the tasks a task depends on
          AddedLater,   \* tasks that are not there at the start
          Unruly,       \* bound: tasks that are given back or cancelled
          Plans,        \* the plan documents to start from
          MaxAttempts,  \* next --max-attempts
          CASAttempts,  \* Backoff.CASAttempts
          Menu,         \* the edits of a plan that are made
          MaxEdits      \* bound: plan edits started

ASSUME SchedulingAssumption ==
    /\ DependsOn \in [Tasks -> SUBSET Tasks]
    /\ AddedLater \subseteq Tasks /\ Unruly \subseteq Tasks
    /\ MaxAttempts \in Nat \ {0} /\ CASAttempts \in Nat \ {0}
    /\ MaxEdits \in Nat
    /\ Plans \subseteq PlanDocs /\ \A doc \in Plans : ValidPlan(doc)
    /\ Menu \subseteq PlanEdits

Procs == Schedulers \cup Editors

VARIABLES
    plan,      \* the plan document
    rev,       \* the commits its ref has pointed at
    status,    \* of every task; absent before it is added
    archived,  \* tasks in archive/
    my,        \* what each process remembers
    edits      \* plan edits started

vars == <<plan, rev, status, archived, my, edits>>

Present == {t \in Tasks : status[t] # "absent"}

Unread == [rev |-> 0]

Idle == [op |-> "none"]
Claiming == [op |-> "next"]
Showing == [op |-> "show"]

\* pc, the command, the tasks to visit, the tasks as shown, the plan as read,
\* the first listing, the tally, the candidates, the claim under way, and for
\* the properties: the phases truly open at each listing, the tasks added since.
AtRest == [pc |-> "idle", edit |-> Idle, todo |-> {}, shown |-> <<>>,
           doc |-> Unread, listing |-> <<>>, tally |-> Unread, queue |-> {},
           tries |-> 0, target |-> 0, fresh |-> FALSE,
           first |-> {}, second |-> {}, since |-> {}]

Least(S) == CHOOSE t \in S : \A u \in S : t <= u

Set(p, r) == my' = [my EXCEPT ![p] = r]

Judged(p) == Least(my[p].todo)

Judging(p) == my[p].pc = "judge" /\ my[p].todo # {}

\* eligible, up to where it asks for the plan, the tally, a dependency.
InBacklog(p) == Priority[Judged(p)] = 0
OfPlan(p) == PhaseOf[Judged(p)] # Outside
Counted(p) == my[p].tally # Unread
PlanRefuses(p) ==
    /\ my[p].doc # Unread
    /\ \/ my[p].doc.status # "active"
       \/ Counted(p) /\ ~ GateOpen(my[p].doc, PhaseOf[Judged(p)], my[p].tally)

---------------------------------------------------------------------------
(***************************** Listings ************************************)

Under(prefix) == {t \in Present : (t \in archived) = (prefix = "archive")}

\* Mutant of Prefixes: archive/ is listed first.
PrefixesSwapped == <<"archive", "issues">>

\* The order in which List with All reads the two prefixes.
Prefixes == <<"issues", "archive">>

Listed(prefix) == [t \in Under(prefix) |-> status[t]]

\* What the tally would be if both prefixes were read at once.
Truth == Tally([t \in Present |-> status[t]], <<>>)

OpenPhases(doc, tally) == {ph \in PhaseIds(doc) : GateOpen(doc, ph, tally)}

TrulyOpen(p) == IF my[p].doc = Unread THEN {} ELSE OpenPhases(my[p].doc, Truth)

\* phaseCounts is asked once, and only about a plan that is active.
AsksTally(p) ==
    /\ Judging(p) /\ ~ InBacklog(p) /\ OfPlan(p)
    /\ my[p].doc # Unread /\ my[p].doc.status = "active" /\ ~ Counted(p)

ListFirst(p) ==
    /\ my[p].pc = "list" \/ AsksTally(p)
    /\ Set(p, [my[p] EXCEPT !.pc = "listAgain", !.listing = Listed(Prefixes[1]),
                            !.first = TrulyOpen(p)])
    /\ UNCHANGED <<plan, rev, status, archived, edits>>

\* The tasks of phase ph in a listing.
In(listing, ph) == {t \in DOMAIN listing : PhaseOf[t] = ph}

\* For next and plan show the listings are tallied; RemovePhase goes on only
\* when neither has a task of the phase.
ListSecond(p) ==
    /\ my[p].pc = "listAgain"
    /\ LET again == Listed(Prefixes[2])
           both  == Tally(my[p].listing, again)
           here  == In(my[p].listing, my[p].edit.phase)
                    \cup In(again, my[p].edit.phase)
       IN  IF my[p].edit.op = "remove"
           THEN Set(p, IF here # {} THEN AtRest
                       ELSE [my[p] EXCEPT !.pc = "load", !.listing = <<>>])
           ELSE Set(p, [my[p] EXCEPT
                        !.pc = IF my[p].edit = Showing THEN "view" ELSE "judge",
                        !.listing = <<>>, !.tally = both,
                        !.second = TrulyOpen(p)])
    /\ UNCHANGED <<plan, rev, status, archived, edits>>

---------------------------------------------------------------------------
(***************************** next ****************************************)

\* List of the open issues, by their trailers.
NextList(p) ==
    /\ p \in Schedulers /\ my[p].pc = "idle"
    /\ LET open == {t \in Under("issues") : status[t] = "open"}
       IN  Set(p, IF open = {} THEN AtRest
                 ELSE [AtRest EXCEPT !.pc = "show", !.edit = Claiming,
                                     !.todo = open])
    /\ UNCHANGED <<plan, rev, status, archived, edits>>

\* Show of one of them; the selector takes those that are still open.
NextShow(p) ==
    /\ my[p].pc = "show"
    /\ LET t     == Least(my[p].todo)
           rest  == my[p].todo \ {t}
           shown == [u \in DOMAIN my[p].shown \cup {t} |->
                        IF u = t THEN status[t] ELSE my[p].shown[u]]
       IN  Set(p, [my[p] EXCEPT !.shown = shown,
                      !.pc   = IF rest = {} THEN "judge" ELSE "show",
                      !.todo = IF rest # {} THEN rest ELSE
                               {u \in DOMAIN shown : shown[u] = "open"}])
    /\ UNCHANGED <<plan, rev, status, archived, edits>>

PlanPasses(p) ==
    ~ OfPlan(p) \/ (my[p].doc # Unread /\ Counted(p) /\ ~ PlanRefuses(p))

\* Mutant of Met: what was cancelled is over as well.
MetWhenOver(shown, t) ==
    {d \in DependsOn[t] \cap DOMAIN shown : shown[d] \in Terminal}

Met(shown, t) == {d \in DependsOn[t] \cap DOMAIN shown : shown[d] = "done"}

Unmet(p) == (DependsOn[Judged(p)] \cap DOMAIN my[p].shown)
            \ Met(my[p].shown, Judged(p))

Unseen(p) == DependsOn[Judged(p)] \ DOMAIN my[p].shown

\* planIndex.plan: read once, then cached.
ReadPlan(p) ==
    /\ Judging(p) /\ ~ InBacklog(p) /\ OfPlan(p) /\ my[p].doc = Unread
    /\ Set(p, [my[p] EXCEPT !.doc = plan])
    /\ UNCHANGED <<plan, rev, status, archived, edits>>

NeedsDependency(p) ==
    /\ Judging(p) /\ ~ InBacklog(p) /\ PlanPasses(p)
    /\ Unmet(p) = {} /\ Unseen(p) # {}

Remember(p, t, st) ==
    Set(p, [my[p] EXCEPT !.shown = [u \in DOMAIN @ \cup {t} |->
                                       IF u = t THEN st ELSE @[u]]])

\* Mutant of ReadDependency: only issues/ is looked at.
ReadDependencyLive(p) ==
    /\ NeedsDependency(p)
    /\ LET d == Least(Unseen(p))
       IN  Remember(p, d, IF d \in archived THEN "absent" ELSE status[d])
    /\ UNCHANGED <<plan, rev, status, archived, edits>>

\* The status of a dependency, shown from issues/ or archive/ and cached.
ReadDependency(p) ==
    /\ NeedsDependency(p)
    /\ LET d == Least(Unseen(p)) IN Remember(p, d, status[d])
    /\ UNCHANGED <<plan, rev, status, archived, edits>>

Verdict(p) ==
    /\ Judging(p)
    /\ \/ /\ InBacklog(p) \/ (OfPlan(p) /\ PlanRefuses(p))
             \/ (PlanPasses(p) /\ Unmet(p) # {})
          /\ UNCHANGED <<plan, rev, status, archived, edits>>
          /\ Set(p, [my[p] EXCEPT !.todo = @ \ {Judged(p)}])
       \/ /\ ~ InBacklog(p) /\ PlanPasses(p)
          /\ Unmet(p) = {} /\ Unseen(p) = {}
          /\ UNCHANGED <<plan, rev, status, archived, edits>>
          /\ Set(p, [my[p] EXCEPT !.todo = @ \ {Judged(p)},
                                  !.queue = @ \cup {Judged(p)}])

StartClaiming(p) ==
    /\ my[p].pc = "judge" /\ my[p].todo = {}
    /\ Set(p, [my[p] EXCEPT !.pc = "claim", !.shown = <<>>, !.tally = Unread,
                            !.first = {}, !.second = {}])
    /\ UNCHANGED <<plan, rev, status, archived, edits>>

FirstOf(p) ==
    CHOOSE t \in my[p].queue :
        \A u \in my[p].queue \ {t} : Before(my[p].doc, t, u)

\* Passing over a candidate.
Skip(p) == Set(p, [my[p] EXCEPT !.pc = "claim", !.queue = @ \ {my[p].target},
                                !.target = 0, !.fresh = FALSE])

\* Transition(claim): the issue is read and its status looked at.
ClaimLoad(p) ==
    /\ my[p].pc = "claim" /\ my[p].queue # {} /\ my[p].tries < MaxAttempts
    /\ LET t == FirstOf(p)
       IN  Set(p, IF status[t] = "open"
                  THEN [my[p] EXCEPT !.pc = "swap", !.tries = @ + 1,
                                     !.target = t, !.fresh = TRUE]
                  ELSE [my[p] EXCEPT !.tries = @ + 1, !.queue = @ \ {t}])
    /\ UNCHANGED <<plan, rev, status, archived, edits>>

\* Task t becomes st: what others have read of it for a claim is stale.
Touch(t, st) ==
    /\ status' = [status EXCEPT ![t] = st]
    /\ my' = [q \in Procs |->
                [my[q] EXCEPT !.fresh = @ /\ my[q].target # t,
                              !.since = IF status[t] = "absent" /\ my[q].pc # "idle"
                                           /\ my[q].edit.op = "remove"
                                        THEN @ \cup {t} ELSE @]]

\* Its CAS: won when nothing moved the issue since, lost otherwise.
ClaimSwap(p) ==
    /\ my[p].pc = "swap"
    /\ IF my[p].fresh
       THEN /\ status' = [status EXCEPT ![my[p].target] = "claimed"]
            /\ my' = [q \in Procs |->
                        IF q = p THEN AtRest ELSE
                        [my[q] EXCEPT !.fresh = @ /\ my[q].target # my[p].target]]
       ELSE Skip(p) /\ UNCHANGED status
    /\ UNCHANGED <<plan, rev, archived, edits>>

\* No candidate left, or enough attempts made: nothing to do now.
NextEnds(p) ==
    /\ my[p].pc = "claim" /\ (my[p].queue = {} \/ my[p].tries = MaxAttempts)
    /\ Set(p, AtRest)
    /\ UNCHANGED <<plan, rev, status, archived, edits>>

---------------------------------------------------------------------------
(************************* Editing and showing the plan ********************)

StartEdit(p) ==
    /\ p \in Editors /\ my[p].pc = "idle" /\ edits < MaxEdits
    /\ \E edit \in Menu :
          Set(p, [AtRest EXCEPT !.edit = edit,
                                !.pc = IF edit.op = "remove" THEN "list"
                                       ELSE "load"])
    /\ edits' = edits + 1
    /\ UNCHANGED <<plan, rev, status, archived>>

\* MutatePlan: read the document; end when it does not take the edit.
EditLoad(p) ==
    /\ my[p].pc = "load"
    /\ Set(p, IF Takes(plan, my[p].edit)
              THEN [my[p] EXCEPT !.pc = "publish", !.tries = @ + 1,
                                 !.doc = [at |-> rev, plan |-> plan]]
              ELSE AtRest)
    /\ UNCHANGED <<plan, rev, status, archived, edits>>

\* Mutant of Current: the document is written over whatever is there.
CurrentAlways(p) == TRUE

Current(p) == my[p].doc.at = rev

\* Its CAS: the whole edited document, or a retry, or a conflict.
EditSwap(p) ==
    /\ my[p].pc = "publish"
    /\ LET next == Edited(my[p].doc.plan, my[p].edit)
       IN  IF Current(p) /\ ValidPlan(next)
           THEN plan' = next /\ rev' = rev + 1 /\ Set(p, AtRest)
           ELSE /\ Set(p, IF ValidPlan(next) /\ my[p].tries < CASAttempts
                          THEN [my[p] EXCEPT !.pc = "load", !.doc = Unread]
                          ELSE AtRest)
                /\ UNCHANGED <<plan, rev>>
    /\ UNCHANGED <<status, archived, edits>>

\* ShowPlanView: the document, then the two listings.
ShowPlan(p) ==
    /\ p \in Editors /\ my[p].pc = "idle"
    /\ Set(p, [AtRest EXCEPT !.pc = "list", !.edit = Showing,
                            !.doc = plan])
    /\ UNCHANGED <<plan, rev, status, archived, edits>>

ViewShown(p) ==
    /\ my[p].pc = "view"
    /\ Set(p, AtRest)
    /\ UNCHANGED <<plan, rev, status, archived, edits>>

---------------------------------------------------------------------------
(************************** The other agents *******************************)

\* An edit by another process: its CAS, and the read it rests on.
OtherEdit ==
    /\ edits < MaxEdits
    /\ \E edit \in Menu :
          /\ Takes(plan, edit)
          /\ edit.op = "remove" => \A t \in Present : PhaseOf[t] # edit.phase
          /\ plan' = Edited(plan, edit)
    /\ rev' = rev + 1 /\ edits' = edits + 1
    /\ UNCHANGED <<status, archived, my>>

\* A task is added to a phase its author has seen in the plan.
AddTask(t) ==
    /\ status[t] = "absent" /\ PhaseOf[t] \in PhaseIds(plan) \cup {Outside}
    /\ Touch(t, "open")
    /\ UNCHANGED <<plan, rev, archived, edits>>

\* Any command of another agent on a task, with its rules of IssueRules.
Take(t)   == status[t] = "open"    /\ Touch(t, "claimed")
Finish(t) == status[t] = "claimed" /\ Touch(t, "done")
Return(t) == t \in Unruly /\ status[t] = "claimed" /\ Touch(t, "open")
Cancel(t) == /\ t \in Unruly /\ status[t] \in {"open", "claimed"}
             /\ Touch(t, "cancelled")

Work(t) == (Take(t) \/ Finish(t) \/ Return(t) \/ Cancel(t))
           /\ UNCHANGED <<plan, rev, archived, edits>>

Archive(t) ==
    /\ status[t] \in Terminal /\ t \notin archived
    /\ archived' = archived \cup {t}
    /\ UNCHANGED <<plan, rev, status, my, edits>>

---------------------------------------------------------------------------
Init ==
    /\ plan \in Plans /\ rev = 1
    /\ status = [t \in Tasks |-> IF t \in AddedLater THEN "absent" ELSE "open"]
    /\ archived = {} /\ edits = 0
    /\ my = [p \in Procs |-> AtRest]

Listing(p) == ListFirst(p) \/ ListSecond(p)

Schedule(p) ==
    \/ NextList(p) \/ NextShow(p) \/ ReadPlan(p) \/ Listing(p)
    \/ ReadDependency(p) \/ Verdict(p) \/ StartClaiming(p)
    \/ ClaimLoad(p) \/ ClaimSwap(p) \/ NextEnds(p)

Edit(p) ==
    \/ StartEdit(p) \/ EditLoad(p) \/ EditSwap(p) \/ Listing(p)
    \/ ShowPlan(p) \/ ViewShown(p)

Next ==
    \/ \E p \in Schedulers : Schedule(p)
    \/ \E p \in Editors : Edit(p)
    \/ OtherEdit
    \/ \E t \in Tasks : AddTask(t) \/ Work(t) \/ Archive(t)

Spec == Init /\ [][Next]_vars

\* Agents keep asking for work (features, section 4), a command that was begun
\* goes on, and an agent that takes a task again and again finishes it.
FairSpec ==
    /\ Spec
    /\ \A p \in Schedulers : SF_vars(NextList(p)) /\ WF_vars(Schedule(p) \/ Edit(p))
    /\ \A t \in Tasks : SF_vars(Finish(t) /\ UNCHANGED <<plan, rev, archived, edits>>)

---------------------------------------------------------------------------
(***************************** Properties **********************************)

(***************************************************************************)
(* Typing: of the ref store and of what a process holds.  A document in    *)
(* the ref is valid, whatever edits ran against each other.                *)
(***************************************************************************)
ScheduleTypeOK ==
    /\ ValidPlan(plan) /\ plan \in PlanDocs
    /\ rev \in Nat \ {0} /\ edits \in 0..MaxEdits
    /\ status \in [Tasks -> {"absent", "open", "claimed"} \cup Terminal]
    /\ archived \subseteq {t \in Tasks : status[t] \in Terminal}
    /\ \A p \in Procs :
          /\ my[p].tries \in 0..MaxAttempts + CASAttempts
          /\ my[p].todo \cup my[p].queue \subseteq Tasks
          /\ DOMAIN my[p].shown \subseteq Tasks

(***************************************************************************)
(* phaseCounts and ShowPlanView list issues/ and archive/ one after the    *)
(* other, and a task archived in between is counted twice.  Even so a gate *)
(* is never judged as it was at neither listing: a phase taken for open    *)
(* was open at one of the two moments, one taken for closed was closed at  *)
(* one of them.                                                            *)
(***************************************************************************)
JudgedAsSeen ==
    \A p \in Procs :
        my[p].tally # Unread =>
            LET judged == OpenPhases(my[p].doc, my[p].tally)
            IN  /\ judged \subseteq my[p].first \cup my[p].second
                /\ my[p].first \cap my[p].second \subseteq judged

(***************************************************************************)
(* RemovePhase asks for a phase without tasks in two listings and removes  *)
(* it later.  Tasks move to archive/ in between, and still none that was   *)
(* there when the command began is left without its phase.                 *)
(***************************************************************************)
RemovedWasEmpty ==
    [][\A p \in Editors :
          my[p].pc = "publish" /\ my[p].edit.op = "remove" /\ rev' # rev
          /\ my'[p].pc = "idle" =>
              \A t \in Present : PhaseOf[t] = my[p].edit.phase => t \in my[p].since]_vars

(***************************************************************************)
(* The statuses of dependencies are read one by one and cached, long       *)
(* before the claim.  When the claim is made, every task the claimed one   *)
(* depends on is done all the same.                                        *)
(***************************************************************************)
DependenciesDone ==
    [][\A p \in Schedulers :
          ClaimSwap(p) /\ my[p].fresh =>
              \A d \in DependsOn[my[p].target] : status[d] = "done"]_vars

(***************************************************************************)
(* MutatePlan edits the document it read earlier, and publishes it whole.  *)
(* What it publishes is valid, and one edit of the document that is there: *)
(* no edit of another process is undone, and a phase opened by hand stays  *)
(* open until it is removed.                                               *)
(***************************************************************************)
NoEditLost ==
    [][rev' # rev =>
        /\ ValidPlan(plan')
        /\ \E edit \in Menu : plan' = Edited(plan, edit)
        /\ plan.advanced \cap PhaseIds(plan') \subseteq plan'.advanced]_vars

\* What next looks for: the whole of its conditions, at one moment.
Eligible(t) ==
    /\ status[t] = "open" /\ Priority[t] # 0
    /\ PlanAllows(plan, PhaseOf[t], Truth)
    /\ \A d \in DependsOn[t] : status[d] = "done"

(***************************************************************************)
(* While agents keep asking for work, no task stays eligible and open for  *)
(* ever: neither the snapshots next judges by, nor the order of candidates *)
(* and the bound on attempts, keep one from being taken.                   *)
(***************************************************************************)
NothingLeftLying == \A t \in Tasks : []<>~Eligible(t)
===========================================================================
