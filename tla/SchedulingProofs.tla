------------------------- MODULE SchedulingProofs -------------------------
(***************************************************************************)
(* Proofs about the scheduler and the edits of a plan, for any tasks,      *)
(* phases, processes and bounds: a gate is judged as it was at one of the  *)
(* two listings, what a claimed task depends on is done, the phase that is *)
(* removed is empty, and no edit of a plan undoes another.                 *)
(***************************************************************************)
EXTENDS Scheduling, SequenceTheorems, FiniteSetTheorems, WellFoundedInduction, TLAPS

---------------------------------------------------------------------------
(******************************* The least *********************************)

LEMMA LeastOne ==
    ASSUME NEW S \in SUBSET Nat, S # {}
    PROVE  \E x \in S : \A y \in S : x <= y
<1>1. IsWellFoundedOn(OpToRel(<, Nat), Nat) BY NatLessThanWellFounded
<1>2. PICK x \in S : \A y \in S : ~(<<y, x>> \in OpToRel(<, Nat)) BY <1>1, WFMin
<1>3. \A y \in S : ~(y < x) BY <1>2 DEF OpToRel
<1> QED BY <1>3

LEMMA LeastIsOne == ASSUME NEW S \in SUBSET Nat, S # {} PROVE Least(S) \in S
BY LeastOne DEF Least

\* Of what is left, those with the least key.
LEMMA LeastByKey ==
    ASSUME NEW S, S # {}, NEW key, \A t \in S : key[t] \in Nat
    PROVE  \E x \in S : \A y \in S : key[x] <= key[y]
<1> DEFINE K == {key[t] : t \in S}
<1>1. K \in SUBSET Nat /\ K # {} OBVIOUS
<1>2. PICK k \in K : \A y \in K : k <= y
  <2> HIDE DEF K
  <2> QED BY <1>1, LeastOne
<1> QED BY <1>2

---------------------------------------------------------------------------
(******************************** Tallies **********************************)

Statuses == {"open", "claimed", "done", "cancelled"}

Listing_(a) == DOMAIN a \subseteq Tasks /\ \A t \in DOMAIN a : a[t] \in Statuses

SomeDone(a, b, ph) ==
    \/ \E t \in DOMAIN a : PhaseOf[t] = ph /\ a[t] = "done"
    \/ \E t \in DOMAIN b : PhaseOf[t] = ph /\ b[t] = "done"

AllOver(a, ph) == \A t \in DOMAIN a : PhaseOf[t] = ph => a[t] \in Terminal

\* The numbers of a tally tell whether some task is done, or all are over.
LEMMA TallyTells ==
    ASSUME NEW a, NEW b, Listing_(a), Listing_(b), NEW ph
    PROVE  /\ Of(Tally(a, b), ph).done > 0 <=> SomeDone(a, b, ph)
           /\ Of(Tally(a, b), ph).terminal = Of(Tally(a, b), ph).total
                <=> AllOver(a, ph) /\ AllOver(b, ph)
<1> DEFINE these(l, st) == {t \in DOMAIN l : PhaseOf[t] = ph /\ l[t] \in st}
<1> DEFINE n(l, st) == Cardinality(these(l, st))
<1>1. ASSUME NEW l, Listing_(l), NEW st PROVE IsFiniteSet(these(l, st)) /\ n(l, st) \in Nat
  <2>1. these(l, st) \subseteq Tasks BY <1>1 DEF Listing_
  <2> QED BY <2>1, GatesAssumption, FS_Subset, FS_CardinalityType
<1>2. ASSUME NEW l, Listing_(l), NEW st PROVE n(l, st) > 0 <=> these(l, st) # {}
  BY <1>1, <1>2, FS_EmptySet
<1>3. ASSUME NEW l, Listing_(l) PROVE
         /\ n(l, Terminal) <= n(l, Statuses)
         /\ n(l, Terminal) = n(l, Statuses) <=> AllOver(l, ph)
  <2>1. these(l, Terminal) \subseteq these(l, Statuses) BY DEF Terminal, Statuses
  <2>2. IsFiniteSet(these(l, Statuses)) BY <1>1, <1>3
  <2>3. /\ n(l, Terminal) <= n(l, Statuses)
        /\ n(l, Terminal) = n(l, Statuses) <=> these(l, Terminal) = these(l, Statuses)
    <3> DEFINE few == these(l, Terminal)
               all == these(l, Statuses)
    <3>1. few \in SUBSET all /\ IsFiniteSet(all) BY <2>1, <2>2
    <3> SUFFICES /\ Cardinality(few) <= Cardinality(all)
                 /\ Cardinality(few) = Cardinality(all) <=> few = all
      OBVIOUS
    <3> HIDE DEF few, all
    <3> QED BY <3>1, FS_Subset, FS_CardinalityType
  <2>4. these(l, Terminal) = these(l, Statuses) <=> AllOver(l, ph)
    BY <1>3 DEF AllOver, Listing_, Terminal, Statuses
  <2> QED BY <2>3, <2>4
<1>4. CASE ph \in {PhaseOf[t] : t \in Tasks}
  <2>1. Of(Tally(a, b), ph) =
           [total |-> n(a, Statuses) + n(b, Statuses), done |-> n(a, {"done"}) + n(b, {"done"}),
            terminal |-> n(a, Terminal) + n(b, Terminal)]
    BY <1>4 DEF Of, Tally, Statuses
  <2>2. n(a, {"done"}) + n(b, {"done"}) > 0 <=> SomeDone(a, b, ph)
    <3>1. n(a, {"done"}) \in Nat /\ n(b, {"done"}) \in Nat BY <1>1
    <3>2. /\ n(a, {"done"}) > 0 <=> these(a, {"done"}) # {}
          /\ n(b, {"done"}) > 0 <=> these(b, {"done"}) # {}
      BY <1>2
    <3>3. these(a, {"done"}) # {} \/ these(b, {"done"}) # {} <=> SomeDone(a, b, ph)
      BY DEF SomeDone
    <3> HIDE DEF n, these
    <3> QED BY <3>1, <3>2, <3>3
  <2>3. n(a, Terminal) + n(b, Terminal) = n(a, Statuses) + n(b, Statuses)
          <=> AllOver(a, ph) /\ AllOver(b, ph)
    <3>1. /\ n(a, Terminal) \in Nat /\ n(a, Statuses) \in Nat
          /\ n(b, Terminal) \in Nat /\ n(b, Statuses) \in Nat
      BY <1>1
    <3> HIDE DEF n
    <3> QED BY <3>1, <1>3
  <2> QED BY <2>1, <2>2, <2>3
<1>5. CASE ph \notin {PhaseOf[t] : t \in Tasks}
  <2>1. Of(Tally(a, b), ph) = Zero BY <1>5 DEF Of, Tally
  <2>2. \A t \in Tasks : PhaseOf[t] # ph BY <1>5
  <2> QED BY <2>1, <2>2 DEF Zero, SomeDone, AllOver, Listing_
<1> QED BY <1>4, <1>5

\* What opens a gate by one tally opens it by another that tells as much.
LEMMA OpenByOne ==
    ASSUME NEW doc, NEW ph, NEW J, NEW F, NEW T, GateOpen(doc, ph, J),
           \A prev : Of(J, prev).done > 0 => Of(F, prev).done > 0 \/ Of(T, prev).done > 0,
           \A prev : Of(J, prev).terminal = Of(J, prev).total =>
                         Of(F, prev).terminal = Of(F, prev).total
    PROVE  GateOpen(doc, ph, F) \/ GateOpen(doc, ph, T)
BY DEF GateOpen

LEMMA OpenMore ==
    ASSUME NEW doc, NEW J, NEW F,
           \A prev : Of(J, prev).done > 0 => Of(F, prev).done > 0,
           \A prev : Of(J, prev).terminal = Of(J, prev).total =>
                         Of(F, prev).terminal = Of(F, prev).total
    PROVE  OpenPhases(doc, J) \subseteq OpenPhases(doc, F)
BY OpenByOne DEF OpenPhases

---------------------------------------------------------------------------
(******************************** The state ********************************)

Shown == UNION {[S -> Statuses \cup {"absent"}] : S \in SUBSET Tasks}

Listings == UNION {[S -> Statuses] : S \in SUBSET Tasks}

Tallies == {Unread} \cup [{PhaseOf[t] : t \in Tasks} -> [total : Nat, done : Nat, terminal : Nat]]

Memory == [pc : {"idle", "list", "listAgain", "show", "judge", "claim", "swap", "load",
                 "publish", "view"},
           edit : Menu \cup {Idle, Claiming, Showing},
           todo : SUBSET Tasks, shown : Shown,
           doc : {Unread} \cup PlanDocs \cup [at : Nat, plan : PlanDocs],
           listing : Listings, tally : Tallies, queue : SUBSET Tasks,
           tries : Nat, target : Nat, fresh : BOOLEAN,
           first : SUBSET Nat, second : SUBSET Nat, since : SUBSET Tasks]

StoreOK ==
    /\ plan \in PlanDocs /\ ValidPlan(plan)
    /\ rev \in Nat \ {0} /\ edits \in 0..MaxEdits
    /\ status \in [Tasks -> Statuses \cup {"absent"}]
    /\ archived \subseteq {t \in Tasks : status[t] \in Terminal}
    /\ my \in [Procs -> Memory]

\* Who is at which step holds what.
InStep(p) ==
    /\ my[p].pc \in {"show", "judge", "claim", "swap"} => my[p].edit = Claiming
    /\ my[p].pc = "show" => my[p].todo # {}
    /\ my[p].queue # {} => my[p].edit = Claiming
    /\ my[p].pc = "list" => my[p].edit = Showing \/ (my[p].edit \in Menu /\ my[p].edit.op = "remove")
    /\ my[p].pc = "listAgain" => my[p].edit.op = "remove"
                                  \/ (my[p].edit \in {Claiming, Showing} /\ my[p].doc \in PlanDocs)
    /\ my[p].pc \in {"load", "publish"} => my[p].edit \in Menu
    /\ my[p].pc = "list" /\ my[p].edit.op # "remove" => my[p].doc \in PlanDocs
    /\ my[p].pc = "publish" <=> my[p].doc \notin PlanDocs \cup {Unread}
    /\ my[p].tally # Unread => my[p].pc \in {"judge", "view"} /\ my[p].doc \in PlanDocs

\* What was found done is done, and the candidates depend on nothing else; the
\* claim under way is of a candidate, open as long as nobody touched it.
Grounded(p) ==
    /\ \A d \in DOMAIN my[p].shown : my[p].shown[d] = "done" => status[d] = "done"
    /\ \A t \in my[p].queue :
          /\ \A d \in DependsOn[t] : status[d] = "done"
          /\ PhaseOf[t] # Outside => my[p].doc \in PlanDocs
    /\ my[p].pc = "swap" => my[p].target \in my[p].queue
    /\ my[p].pc = "swap" /\ my[p].fresh => status[my[p].target] = "open"

\* Between the listings: what was open then is what the first listing says
\* with the archive as it was, which only grows.
Tallied(p) ==
    /\ my[p].pc = "listAgain" /\ my[p].edit.op # "remove" =>
          /\ OpenPhases(my[p].doc, Tally(my[p].listing, <<>>)) \subseteq my[p].first
          /\ my[p].first \subseteq OpenPhases(my[p].doc, Tally(my[p].listing, Listed("archive")))
    /\ my[p].tally # Unread =>
          LET judged == OpenPhases(my[p].doc, my[p].tally)
          IN  /\ judged \subseteq my[p].first \cup my[p].second
              /\ my[p].first \cap my[p].second \subseteq judged

\* A task in the phase to be removed is listed, archived or new.
Vacated(p) ==
    my[p].edit.op = "remove" =>
        /\ my[p].pc = "listAgain" =>
              \A t \in Present : t \in my[p].since \cup DOMAIN my[p].listing \cup archived
        /\ my[p].pc \in {"load", "publish"} =>
              \A t \in Present : PhaseOf[t] = my[p].edit.phase => t \in my[p].since

\* An edit is of the document as it was at some commit, or is.
Based(p) ==
    my[p].pc = "publish" =>
        /\ my[p].doc \in [at : Nat, plan : PlanDocs]
        /\ Takes(my[p].doc.plan, my[p].edit) /\ ValidPlan(my[p].doc.plan)
        /\ my[p].doc.at <= rev /\ (my[p].doc.at = rev => my[p].doc.plan = plan)

ProcOK(p) == InStep(p) /\ Grounded(p) /\ Tallied(p) /\ Vacated(p) /\ Based(p)

SchedInv == StoreOK /\ \A p \in Procs : ProcOK(p)

---------------------------------------------------------------------------
(*************************** The two listings ******************************)

LEMMA PrefixesSplit ==
    ASSUME StoreOK
    PROVE  /\ Listed("issues") = [t \in Present \ archived |-> status[t]]
           /\ Listed("archive") = [t \in archived |-> status[t]]
           /\ archived \subseteq Present
<1>1. "issues" # "archive" OBVIOUS
<1>2. archived \subseteq Present BY DEF StoreOK, Present, Terminal
<1>3. Under("issues") = Present \ archived BY <1>1 DEF Under
<1>4. Under("archive") = Present \cap archived BY DEF Under
<1>5. Under("archive") = archived BY <1>2, <1>4
<1> QED BY <1>2, <1>3, <1>5 DEF Listed

LEMMA ListingsAre ==
    ASSUME StoreOK
    PROVE  /\ Listing_(Listed("issues")) /\ Listing_(Listed("archive")) /\ Listing_(<<>>)
           /\ Listing_([t \in Present |-> status[t]])
           /\ Listed("issues") \in Listings /\ Listed("archive") \in Listings
<1>1. \A S \in SUBSET Present : [t \in S |-> status[t]] \in [S -> Statuses] /\ S \in SUBSET Tasks
  BY DEF StoreOK, Present
<1>2. \A S \in SUBSET Present : Listing_([t \in S |-> status[t]]) BY <1>1 DEF Listing_
<1>3. \A S \in SUBSET Present : [t \in S |-> status[t]] \in Listings BY <1>1 DEF Listings
<1>4. Listing_(<<>>) BY DEF Listing_
<1> QED BY <1>2, <1>3, <1>4, PrefixesSplit

LEMMA ListingsTell == ASSUME NEW a \in Listings PROVE Listing_(a)
BY DEF Listings, Listing_

LEMMA TallyTyped ==
    ASSUME NEW a, NEW b, Listing_(a), Listing_(b)
    PROVE  Tally(a, b) \in Tallies
<1> DEFINE n(l, ph, st) == Cardinality({t \in DOMAIN l : PhaseOf[t] = ph /\ l[t] \in st})
<1>1. ASSUME NEW l, Listing_(l), NEW ph, NEW st PROVE n(l, ph, st) \in Nat
  <2>1. {t \in DOMAIN l : PhaseOf[t] = ph /\ l[t] \in st} \subseteq Tasks BY <1>1 DEF Listing_
  <2> QED BY <2>1, GatesAssumption, FS_Subset, FS_CardinalityType
<1>2. Tally(a, b) = [ph \in {PhaseOf[t] : t \in Tasks} |->
        [total    |-> n(a, ph, Statuses) + n(b, ph, Statuses),
         done     |-> n(a, ph, {"done"}) + n(b, ph, {"done"}),
         terminal |-> n(a, ph, Terminal) + n(b, ph, Terminal)]]
  BY DEF Tally, Statuses
<1> HIDE DEF n
<1>3. \A ph, st : n(a, ph, st) + n(b, ph, st) \in Nat
  <2> SUFFICES ASSUME NEW ph, NEW st PROVE n(a, ph, st) + n(b, ph, st) \in Nat OBVIOUS
  <2>1. n(a, ph, st) \in Nat /\ n(b, ph, st) \in Nat BY <1>1
  <2> QED BY <2>1
<1> QED BY <1>2, <1>3 DEF Tallies

\* The first listing alone tells no more than the whole at that moment, and
\* with the archive as it is then no less.
LEMMA FirstListing ==
    ASSUME StoreOK, NEW doc
    PROVE  /\ OpenPhases(doc, Tally(Listed("issues"), <<>>)) \subseteq OpenPhases(doc, Truth)
           /\ OpenPhases(doc, Truth) \subseteq
                OpenPhases(doc, Tally(Listed("issues"), Listed("archive")))
<1> DEFINE whole == [t \in Present |-> status[t]]
           live == Listed("issues")
           old == Listed("archive")
<1>1. Listing_(whole) /\ Listing_(live) /\ Listing_(old) /\ Listing_(<<>>) BY ListingsAre
<1>2. ASSUME NEW ph
      PROVE  /\ SomeDone(live, <<>>, ph) => SomeDone(whole, <<>>, ph)
             /\ AllOver(live, ph) => AllOver(whole, ph)
             /\ SomeDone(whole, <<>>, ph) => SomeDone(live, old, ph)
             /\ AllOver(whole, ph) => AllOver(live, ph) /\ AllOver(old, ph)
  BY PrefixesSplit DEF SomeDone, AllOver, StoreOK
<1>3. Truth = Tally(whole, <<>>) BY DEF Truth
<1> HIDE DEF whole, live, old
<1>4. OpenPhases(doc, Tally(live, <<>>)) \subseteq OpenPhases(doc, Tally(whole, <<>>))
  BY <1>1, <1>2, TallyTells, OpenMore
<1>5. \A ph : AllOver(<<>>, ph) BY DEF AllOver
<1>6. OpenPhases(doc, Tally(whole, <<>>)) \subseteq OpenPhases(doc, Tally(live, old))
  BY <1>1, <1>2, <1>5, TallyTells, OpenMore
<1> QED BY <1>3, <1>4, <1>6 DEF live, old

\* The second is taken of an archive that has all the archive had, and more.
LEMMA SecondListing ==
    ASSUME StoreOK, NEW doc, NEW a \in Listings
    PROVE  OpenPhases(doc, Tally(a, Listed("archive"))) \subseteq
               OpenPhases(doc, Tally(a, <<>>)) \cup OpenPhases(doc, Truth)
<1> DEFINE whole == [t \in Present |-> status[t]]
           old == Listed("archive")
           J == Tally(a, old)
           F == Tally(a, <<>>)
           T == Tally(whole, <<>>)
<1>1. Listing_(whole) /\ Listing_(a) /\ Listing_(old) /\ Listing_(<<>>) BY ListingsAre, ListingsTell
<1>2. ASSUME NEW ph
      PROVE  /\ SomeDone(a, old, ph) => SomeDone(a, <<>>, ph) \/ SomeDone(whole, <<>>, ph)
             /\ AllOver(<<>>, ph)
  BY PrefixesSplit DEF SomeDone, AllOver
<1>3. Truth = T BY DEF Truth
<1> HIDE DEF whole, old
<1>4. \A prev : Of(J, prev).done > 0 => Of(F, prev).done > 0 \/ Of(T, prev).done > 0
  BY <1>1, <1>2, TallyTells
<1>5. \A prev : Of(J, prev).terminal = Of(J, prev).total => Of(F, prev).terminal = Of(F, prev).total
  BY <1>1, <1>2, TallyTells
<1> HIDE DEF J, F, T
<1>6. OpenPhases(doc, J) \subseteq OpenPhases(doc, F) \cup OpenPhases(doc, T)
  BY <1>4, <1>5, OpenByOne DEF OpenPhases
<1> QED BY <1>3, <1>6 DEF J, F, old

\* The archive only grows, and what is done stays done.
Growing ==
    /\ archived \subseteq archived'
    /\ \A t \in Tasks : status[t] \in Terminal => status'[t] = status[t]

LEMMA ArchiveGrows ==
    ASSUME StoreOK, StoreOK', Growing, NEW doc, NEW a \in Listings
    PROVE  OpenPhases(doc, Tally(a, Listed("archive"))) \subseteq
               OpenPhases(doc, Tally(a, Listed("archive")'))
<1> DEFINE old == Listed("archive")
           now == Listed("archive")'
<1>1. Listing_(old) /\ Listing_(a) BY ListingsAre, ListingsTell
<1>2. Listing_(now) BY DEF StoreOK, Listing_, Listed, Under, Present, Statuses
<1>3. ASSUME NEW ph
      PROVE  /\ SomeDone(a, old, ph) => SomeDone(a, now, ph)
             /\ AllOver(now, ph)
  BY DEF SomeDone, AllOver, Listed, Under, Present, StoreOK, Growing, Terminal
<1> HIDE DEF old, now
<1>4. OpenPhases(doc, Tally(a, old)) \subseteq OpenPhases(doc, Tally(a, now))
  BY <1>1, <1>2, <1>3, TallyTells, OpenMore
<1> QED BY <1>4 DEF old, now

---------------------------------------------------------------------------
(****************************** Bystanders *********************************)

Moving ==
    /\ Growing
    /\ rev <= rev' /\ (rev' = rev => plan' = plan)

\* What a step of somebody else may do to what a process holds, and how it
\* learns of what it should know.
Bystander(q) ==
    /\ my'[q].pc = my[q].pc /\ my'[q].edit = my[q].edit /\ my'[q].shown = my[q].shown
    /\ my'[q].doc = my[q].doc /\ my'[q].listing = my[q].listing /\ my'[q].tally = my[q].tally
    /\ my'[q].todo = my[q].todo /\ my'[q].queue = my[q].queue /\ my'[q].target = my[q].target
    /\ my'[q].first = my[q].first /\ my'[q].second = my[q].second
    /\ my[q].since \subseteq my'[q].since
    /\ my'[q].fresh => my[q].fresh /\ (my[q].pc = "swap" => status'[my[q].target] = status[my[q].target])
    /\ my[q].edit.op = "remove" /\ my[q].pc # "idle" => Present' \ Present \subseteq my'[q].since

LEMMA Aside ==
    ASSUME SchedInv, StoreOK', Moving, NEW q \in Procs, Bystander(q)
    PROVE  ProcOK(q)'
<1> DEFINE r == my[q]
<1>0. /\ r \in Memory /\ ProcOK(q) /\ DependsOn \in [Tasks -> SUBSET Tasks]
      /\ \A t \in Tasks : status[t] = "done" => status'[t] = "done"
  BY SchedulingAssumption DEF SchedInv, StoreOK, Moving, Growing, Terminal
<1>1. InStep(q)' BY <1>0 DEF ProcOK, InStep, Bystander
<1>2. Grounded(q)'
  <2>1. \A d \in DOMAIN r.shown : d \in Tasks BY <1>0 DEF Memory, Shown
  <2>2. r.queue \subseteq Tasks BY <1>0 DEF Memory
  <2> QED BY <1>0, <2>1, <2>2 DEF ProcOK, Grounded, Bystander
<1>3. Tallied(q)'
  <2>1. r.listing \in Listings BY <1>0 DEF Memory
  <2>2. OpenPhases(r.doc, Tally(r.listing, Listed("archive"))) \subseteq
               OpenPhases(r.doc, Tally(r.listing, Listed("archive")'))
    BY <2>1, ArchiveGrows DEF SchedInv, Moving
  <2>3. /\ my'[q].doc = r.doc /\ my'[q].listing = r.listing /\ my'[q].tally = r.tally
        /\ my'[q].first = r.first /\ my'[q].second = r.second
        /\ my'[q].pc = r.pc /\ my'[q].edit = r.edit
    BY DEF Bystander
  <2>4. Tallied(q) BY <1>0 DEF ProcOK
  <2> QED BY <2>2, <2>3, <2>4 DEF Tallied
<1>4. Vacated(q)'
  <2>1. archived \subseteq archived' BY DEF Moving, Growing
  <2>2. Vacated(q) BY <1>0 DEF ProcOK
  <2> QED BY <2>1, <2>2 DEF Vacated, Bystander
<1>5. Based(q)' BY <1>0 DEF ProcOK, Based, Bystander, Moving, StoreOK, SchedInv
<1> QED BY <1>1, <1>2, <1>3, <1>4, <1>5 DEF ProcOK

---------------------------------------------------------------------------
(***************************** The own step ********************************)

LEMMA Quiet ==
    ASSUME SchedInv, NEW p \in Procs, NEW r \in Memory, Set(p, r), edits' \in 0..MaxEdits,
           UNCHANGED <<plan, rev, status, archived>>, my'[p] = r => ProcOK(p)'
    PROVE  SchedInv'
<1>1. my' = [my EXCEPT ![p] = r] BY DEF Set
<1>2. my' \in [Procs -> Memory] /\ my'[p] = r BY <1>1 DEF SchedInv, StoreOK
<1>3. StoreOK' BY <1>2 DEF SchedInv, StoreOK, ValidPlan
<1>4. Moving BY DEF Moving, Growing, SchedInv, StoreOK
<1>5. ASSUME NEW q \in Procs \ {p} PROVE ProcOK(q)'
  <2>1. my'[q] = my[q] BY <1>1 DEF SchedInv, StoreOK
  <2>2. Present' = Present BY DEF Present
  <2>3. Bystander(q) BY <2>1, <2>2 DEF Bystander
  <2> QED BY <1>3, <1>4, <2>3, Aside
<1> QED BY <1>2, <1>3, <1>5 DEF SchedInv

LEMMA Resting == AtRest \in Memory /\ \A p \in Procs : my'[p] = AtRest => ProcOK(p)'
<1>1. <<>> \in Shown /\ <<>> \in Listings
  <2>1. <<>> \in [{} -> Statuses] /\ <<>> \in [{} -> Statuses \cup {"absent"}] OBVIOUS
  <2> QED BY <2>1 DEF Shown, Listings
<1>2. AtRest \in Memory BY <1>1 DEF AtRest, Memory, Tallies
<1>3. ASSUME NEW p \in Procs, my'[p] = AtRest PROVE ProcOK(p)'
  <2>1. /\ my'[p].pc = "idle" /\ my'[p].edit = Idle /\ my'[p].shown = <<>>
        /\ my'[p].doc = Unread /\ my'[p].tally = Unread /\ my'[p].queue = {} /\ my'[p].todo = {}
    BY <1>3 DEF AtRest
  <2>2. Idle.op # "remove" BY DEF Idle
  <2> QED BY <2>1, <2>2 DEF ProcOK, InStep, Grounded, Tallied, Vacated, Based
<1> QED BY <1>2, <1>3

LEMMA Rests ==
    ASSUME SchedInv, NEW p \in Procs, Set(p, AtRest), UNCHANGED <<plan, rev, status, archived, edits>>
    PROVE  SchedInv'
BY Quiet, Resting DEF SchedInv, StoreOK

LEMMA ListingTheOpen ==
    ASSUME SchedInv, NEW p \in Procs, NextList(p)
    PROVE  SchedInv'
<1> DEFINE open == {t \in Under("issues") : status[t] = "open"}
           r == [AtRest EXCEPT !.pc = "show", !.edit = Claiming, !.todo = open]
<1>1. CASE open = {} BY <1>1, Rests DEF NextList
<1>2. CASE open # {}
  <2>1. Set(p, r) /\ UNCHANGED <<plan, rev, status, archived, edits>> BY <1>2 DEF NextList
  <2>2. open \subseteq Tasks BY DEF Under, Present
  <2>3. r \in Memory BY <2>2, Resting DEF Memory
  <2>4. /\ r.pc = "show" /\ r.edit = Claiming /\ r.shown = <<>> /\ r.doc = Unread
        /\ r.tally = Unread /\ r.queue = {} /\ r.todo # {}
    BY <1>2 DEF AtRest
  <2>5. Claiming.op # "remove" BY DEF Claiming
  <2>6. my'[p] = r => ProcOK(p)'
    <3> HIDE DEF r
    <3> QED BY <2>4, <2>5 DEF ProcOK, InStep, Grounded, Tallied, Vacated, Based
  <2>7. edits' \in 0..MaxEdits BY <2>1 DEF SchedInv, StoreOK
  <2> HIDE DEF r
  <2> QED BY <2>1, <2>3, <2>6, <2>7, Quiet
<1> QED BY <1>1, <1>2

LEMMA ShowingOne ==
    ASSUME SchedInv, NEW p \in Procs, NextShow(p)
    PROVE  SchedInv'
<1> DEFINE t == Least(my[p].todo)
           rest == my[p].todo \ {t}
           seen == [u \in DOMAIN my[p].shown \cup {t} |->
                        IF u = t THEN status[t] ELSE my[p].shown[u]]
           r == [my[p] EXCEPT !.shown = seen,
                      !.pc   = IF rest = {} THEN "judge" ELSE "show",
                      !.todo = IF rest # {} THEN rest ELSE
                               {u \in DOMAIN seen : seen[u] = "open"}]
<1>1. Set(p, r) /\ UNCHANGED <<plan, rev, status, archived, edits>> /\ my[p].pc = "show" BY DEF NextShow
<1>2. my[p] \in Memory /\ ProcOK(p) BY DEF SchedInv, StoreOK
<1>3. t \in my[p].todo /\ my[p].todo \subseteq Tasks
  <2>1. my[p].todo # {} BY <1>1, <1>2 DEF ProcOK, InStep
  <2>2. my[p].todo \subseteq Tasks BY <1>2 DEF Memory
  <2> QED BY <2>1, <2>2, LeastIsOne, GatesAssumption
<1>4. DOMAIN seen \subseteq Tasks /\ seen \in Shown
  <2>1. PICK S \in SUBSET Tasks : my[p].shown \in [S -> Statuses \cup {"absent"}]
    BY <1>2 DEF Memory, Shown
  <2>2. seen \in [S \cup {t} -> Statuses \cup {"absent"}] BY <1>3, <2>1 DEF SchedInv, StoreOK
  <2> QED BY <1>3, <2>1, <2>2 DEF Shown
<1>5. \A d \in DOMAIN seen : seen[d] = "done" => status[d] = "done"
  BY <1>2 DEF ProcOK, Grounded
<1> HIDE DEF seen
<1>6. r \in Memory BY ZenonT(60), <1>2, <1>3, <1>4 DEF Memory
<1>7. /\ r.pc \in {"judge", "show"} /\ r.edit = my[p].edit /\ r.shown = seen /\ r.doc = my[p].doc
      /\ r.tally = my[p].tally /\ r.queue = my[p].queue /\ (r.pc = "show" => r.todo # {})
  BY <1>2 DEF Memory
<1>8. Claiming.op # "remove" BY DEF Claiming
<1>9. my'[p] = r => ProcOK(p)'
  <2> HIDE DEF r
  <2> QED BY <1>1, <1>2, <1>5, <1>7, <1>8 DEF ProcOK, InStep, Grounded, Tallied, Vacated, Based
<1>10. edits' \in 0..MaxEdits BY <1>1 DEF SchedInv, StoreOK
<1> HIDE DEF r
<1> QED BY <1>1, <1>6, <1>9, <1>10, Quiet

LEMMA ReadingThePlan ==
    ASSUME SchedInv, NEW p \in Procs, ReadPlan(p)
    PROVE  SchedInv'
<1> DEFINE r == [my[p] EXCEPT !.doc = plan]
<1>1. /\ Set(p, r) /\ UNCHANGED <<plan, rev, status, archived, edits>>
      /\ my[p].pc = "judge" /\ my[p].doc = Unread
  BY DEF ReadPlan, Judging
<1>2. my[p] \in Memory /\ ProcOK(p) /\ plan \in PlanDocs BY DEF SchedInv, StoreOK
<1>3. r \in Memory BY <1>2 DEF Memory
<1>4. /\ r.pc = "judge" /\ r.edit = my[p].edit /\ r.shown = my[p].shown /\ r.doc = plan
      /\ r.tally = my[p].tally /\ r.queue = my[p].queue
  BY <1>1, <1>2 DEF Memory
<1>5. Claiming.op # "remove" /\ Unread \notin PlanDocs BY DEF Claiming, Unread, PlanDocs
<1>6. my[p].tally = Unread BY <1>1, <1>2, <1>5 DEF ProcOK, InStep
<1>7. my'[p] = r => ProcOK(p)'
  <2> HIDE DEF r
  <2> QED BY <1>1, <1>2, <1>4, <1>5, <1>6 DEF ProcOK, InStep, Grounded, Tallied, Vacated, Based
<1>8. edits' \in 0..MaxEdits BY <1>1 DEF SchedInv, StoreOK
<1> HIDE DEF r
<1> QED BY <1>1, <1>3, <1>7, <1>8, Quiet

LEMMA ElementOf == ASSUME NEW S, NEW s \in Seq(S), NEW k \in DOMAIN s PROVE s[k] \in S
OBVIOUS

LEMMA OpenOnesAreIds ==
    ASSUME NEW doc \in PlanDocs, NEW T
    PROVE  OpenPhases(doc, T) \subseteq Nat
<1>1. doc.phases \in Seq([id : Nat \ {0}, gate : Gate]) BY DEF PlanDocs
<1>2. \A k \in DOMAIN doc.phases : doc.phases[k] \in [id : Nat \ {0}, gate : Gate]
  BY <1>1, ElementOf
<1>3. \A k \in DOMAIN doc.phases : doc.phases[k].id \in Nat BY <1>2
<1> QED BY <1>3 DEF OpenPhases, PhaseIds

LEMMA ListingIssues ==
    ASSUME SchedInv, NEW p \in Procs, ListFirst(p)
    PROVE  SchedInv'
<1> DEFINE r == [my[p] EXCEPT !.pc = "listAgain", !.listing = Listed("issues"), !.first = TrulyOpen(p)]
<1>1. /\ Set(p, r) /\ UNCHANGED <<plan, rev, status, archived, edits>>
      /\ my[p].pc \in {"list", "judge"} /\ my[p].tally = Unread
      /\ my[p].pc = "judge" => my[p].doc # Unread
  <2>1. Prefixes[1] = "issues" BY DEF Prefixes
  <2>2. AsksTally(p) => my[p].pc = "judge" /\ my[p].tally = Unread /\ my[p].doc # Unread
    BY DEF AsksTally, Judging, Counted
  <2>3. my[p].pc = "list" => my[p].tally = Unread BY DEF SchedInv, ProcOK, InStep
  <2>4. my[p].pc = "list" \/ AsksTally(p) BY DEF ListFirst
  <2> QED BY <2>1, <2>2, <2>3, <2>4 DEF ListFirst
<1>2. my[p] \in Memory /\ ProcOK(p) /\ Listed("issues") \in Listings /\ StoreOK
  BY ListingsAre DEF SchedInv, StoreOK
<1>3. my[p].doc # Unread => my[p].doc \in PlanDocs BY <1>1, <1>2 DEF ProcOK, InStep
<1>4. TrulyOpen(p) \subseteq Nat BY <1>3, OpenOnesAreIds DEF TrulyOpen
<1>5. r \in Memory BY <1>2, <1>4 DEF Memory
<1>6. /\ r.pc = "listAgain" /\ r.edit = my[p].edit /\ r.shown = my[p].shown /\ r.doc = my[p].doc
      /\ r.tally = Unread /\ r.queue = my[p].queue /\ r.listing = Listed("issues")
      /\ r.first = TrulyOpen(p) /\ r.since = my[p].since
  BY <1>1, <1>2 DEF Memory
<1>7. my[p].edit.op # "remove" => my[p].doc \in PlanDocs
  BY <1>1, <1>2, <1>3 DEF ProcOK, InStep
<1>8. my[p].doc \in PlanDocs =>
         /\ OpenPhases(my[p].doc, Tally(Listed("issues"), <<>>)) \subseteq TrulyOpen(p)
         /\ TrulyOpen(p) \subseteq OpenPhases(my[p].doc, Tally(Listed("issues"), Listed("archive")))
  <2>1. Unread \notin PlanDocs BY DEF Unread, PlanDocs
  <2> QED BY <1>2, <2>1, FirstListing DEF TrulyOpen
<1>9. /\ my[p].edit.op # "remove" =>
           /\ OpenPhases(r.doc, Tally(r.listing, <<>>)) \subseteq r.first
           /\ r.first \subseteq OpenPhases(r.doc, Tally(r.listing, Listed("archive")))
      /\ \A t \in Present : t \in r.since \cup DOMAIN r.listing \cup archived
  BY <1>2, <1>6, <1>7, <1>8, PrefixesSplit
<1>10. Listed("archive")' = Listed("archive") /\ Present' = Present
  BY <1>1 DEF Listed, Under, Present
<1>11. my'[p] = r => ProcOK(p)'
  <2> HIDE DEF r
  <2>1. SUFFICES ASSUME my'[p] = r PROVE ProcOK(p)' OBVIOUS
  <2>2. InStep(p)' BY <1>1, <1>2, <1>6, <1>7, <2>1 DEF ProcOK, InStep
  <2>3. Grounded(p)' BY <1>1, <1>2, <1>6, <2>1 DEF ProcOK, Grounded
  <2>4. Tallied(p)' BY <1>6, <1>9, <1>10, <2>1 DEF Tallied
  <2>5. Vacated(p)' BY <1>1, <1>6, <1>9, <1>10, <2>1 DEF Vacated
  <2>6. Based(p)' BY <1>6, <2>1 DEF Based
  <2> QED BY <2>2, <2>3, <2>4, <2>5, <2>6 DEF ProcOK
<1>12. edits' \in 0..MaxEdits BY <1>1 DEF SchedInv, StoreOK
<1> HIDE DEF r
<1> QED BY <1>1, <1>5, <1>11, <1>12, Quiet

LEMMA ListingArchive ==
    ASSUME SchedInv, NEW p \in Procs, ListSecond(p)
    PROVE  SchedInv'
<1> DEFINE again == Listed("archive")
           both == Tally(my[p].listing, again)
           here == In(my[p].listing, my[p].edit.phase) \cup In(again, my[p].edit.phase)
<1>1. /\ UNCHANGED <<plan, rev, status, archived, edits>> /\ my[p].pc = "listAgain"
      /\ edits' \in 0..MaxEdits
      /\ my[p] \in Memory /\ ProcOK(p) /\ StoreOK /\ my[p].tally = Unread
  BY DEF ListSecond, SchedInv, StoreOK, ProcOK, InStep
<1>0. Prefixes[2] = "archive" BY DEF Prefixes
<1>2. CASE my[p].edit.op = "remove" /\ here # {} BY <1>0, <1>2, Rests DEF ListSecond
<1>3. CASE my[p].edit.op = "remove" /\ here = {}
  <2> DEFINE r == [my[p] EXCEPT !.pc = "load", !.listing = <<>>]
  <2>1. Set(p, r) BY <1>0, <1>3 DEF ListSecond
  <2>2. r \in Memory BY <1>1, Resting DEF Memory, AtRest
  <2>3. /\ r.pc = "load" /\ r.edit = my[p].edit /\ r.shown = my[p].shown /\ r.doc = my[p].doc
        /\ r.tally = my[p].tally /\ r.queue = my[p].queue /\ r.since = my[p].since
    BY <1>1 DEF Memory
  <2>4. my[p].edit \in Menu
    <3>1. Idle.op # "remove" /\ Claiming.op # "remove" /\ Showing.op # "remove"
      BY DEF Idle, Claiming, Showing
    <3> QED BY <1>1, <1>3, <3>1 DEF Memory
  <2>5. \A t \in Present : PhaseOf[t] = r.edit.phase => t \in r.since
    <3> SUFFICES ASSUME NEW t \in Present, PhaseOf[t] = my[p].edit.phase PROVE t \in my[p].since
      BY <2>3
    <3>1. t \in my[p].since \cup DOMAIN my[p].listing \cup archived
      BY <1>1, <1>3 DEF ProcOK, Vacated
    <3>2. t \notin DOMAIN my[p].listing BY <1>3 DEF In
    <3>3. t \notin archived BY <1>1, <1>3, PrefixesSplit DEF In
    <3> QED BY <3>1, <3>2, <3>3
  <2>6. Present' = Present BY <1>1 DEF Present
  <2>7. my'[p] = r => ProcOK(p)'
    <3> HIDE DEF r
    <3> QED BY <1>1, <2>3, <2>4, <2>5, <2>6 DEF ProcOK, InStep, Grounded, Tallied, Vacated, Based
  <2> HIDE DEF r
  <2> QED BY <1>1, <2>1, <2>2, <2>7, Quiet
<1>4. CASE my[p].edit.op # "remove"
  <2> DEFINE to == IF my[p].edit = Showing THEN "view" ELSE "judge"
             r == [my[p] EXCEPT !.pc = to, !.listing = <<>>, !.tally = both, !.second = TrulyOpen(p)]
  <2>1. Set(p, r) BY <1>0, <1>4 DEF ListSecond
  <2>2. my[p].doc \in PlanDocs /\ Unread \notin PlanDocs
    BY <1>1, <1>4 DEF ProcOK, InStep, Unread, PlanDocs
  <2>3. my[p].listing \in Listings BY <1>1 DEF Memory
  <2>4. both \in Tallies BY <1>1, <2>3, ListingsAre, ListingsTell, TallyTyped
  <2>5. TrulyOpen(p) = OpenPhases(my[p].doc, Truth) /\ TrulyOpen(p) \subseteq Nat
    BY <2>2, OpenOnesAreIds DEF TrulyOpen
  <2>. to \in {"view", "judge"} /\ (to = "judge" => my[p].edit # Showing) OBVIOUS
  <2>. <<>> \in Listings BY Resting DEF Memory, AtRest
  <2> HIDE DEF both, to
  <2>6. r \in Memory BY <1>1, <2>4, <2>5 DEF Memory
  <2>7. /\ r.pc \in {"view", "judge"} /\ r.edit = my[p].edit /\ r.shown = my[p].shown /\ r.doc = my[p].doc
        /\ r.tally = both /\ r.queue = my[p].queue /\ r.first = my[p].first
        /\ r.second = TrulyOpen(p) /\ (r.pc = "judge" => my[p].edit # Showing)
    BY <1>1 DEF Memory
  <2>8. /\ OpenPhases(my[p].doc, both) \subseteq my[p].first \cup TrulyOpen(p)
        /\ my[p].first \subseteq OpenPhases(my[p].doc, both)
    <3>1. /\ OpenPhases(my[p].doc, Tally(my[p].listing, <<>>)) \subseteq my[p].first
          /\ my[p].first \subseteq OpenPhases(my[p].doc, both)
      BY <1>1, <1>4 DEF ProcOK, Tallied, both
    <3>2. OpenPhases(my[p].doc, both) \subseteq
               OpenPhases(my[p].doc, Tally(my[p].listing, <<>>)) \cup OpenPhases(my[p].doc, Truth)
      BY <1>1, <2>3, SecondListing DEF both
    <3> QED BY <2>5, <3>1, <3>2
  <2>9. my'[p] = r => ProcOK(p)'
    <3> HIDE DEF r
    <3>1. SUFFICES ASSUME my'[p] = r PROVE ProcOK(p)' OBVIOUS
    <3>2. r.pc = "judge" => r.edit = Claiming
      BY <1>1, <1>4, <2>7 DEF ProcOK, InStep
    <3>3. InStep(p)' BY <1>1, <2>2, <2>7, <3>1, <3>2 DEF ProcOK, InStep
    <3>4. Grounded(p)' BY <1>1, <2>2, <2>7, <3>1 DEF ProcOK, Grounded
    <3>5. Tallied(p)' BY <2>7, <2>8, <3>1 DEF Tallied
    <3> QED BY <2>7, <3>1, <3>3, <3>4, <3>5 DEF ProcOK, Vacated, Based
  <2> HIDE DEF r
  <2> QED BY <1>1, <2>1, <2>6, <2>9, Quiet
<1> QED BY <1>2, <1>3, <1>4

LEMMA ReadingADependency ==
    ASSUME SchedInv, NEW p \in Procs, ReadDependency(p)
    PROVE  SchedInv'
<1> DEFINE d == Least(Unseen(p))
           seen == [u \in DOMAIN my[p].shown \cup {d} |->
                       IF u = d THEN status[d] ELSE my[p].shown[u]]
           r == [my[p] EXCEPT !.shown = seen]
<1>0. my[p] \in Memory /\ ProcOK(p) BY DEF SchedInv, StoreOK
<1>1. /\ Set(p, r) /\ UNCHANGED <<plan, rev, status, archived, edits>> /\ my[p].pc = "judge"
  BY <1>0 DEF ReadDependency, Remember, NeedsDependency, Judging, Memory
<1>2. d \in Tasks
  <2>1. my[p].todo # {} /\ Unseen(p) # {} BY DEF ReadDependency, NeedsDependency, Judging
  <2>2. Judged(p) \in Tasks BY <1>0, <2>1, LeastIsOne, GatesAssumption DEF Judged, Memory
  <2>3. Unseen(p) \subseteq Tasks BY <2>2, SchedulingAssumption DEF Unseen
  <2> QED BY <2>1, <2>3, LeastIsOne, GatesAssumption
<1> HIDE DEF d
<1>3. seen \in Shown
  <2>1. PICK S \in SUBSET Tasks : my[p].shown \in [S -> Statuses \cup {"absent"}]
    BY <1>0 DEF Memory, Shown
  <2>2. seen \in [S \cup {d} -> Statuses \cup {"absent"}] BY <1>2, <2>1 DEF SchedInv, StoreOK
  <2> QED BY <1>2, <2>1, <2>2 DEF Shown
<1>4. \A u \in DOMAIN seen : seen[u] = "done" => status[u] = "done"
  BY <1>0 DEF ProcOK, Grounded
<1> HIDE DEF seen
<1>5. r \in Memory BY <1>0, <1>3 DEF Memory
<1>6. /\ r.pc = "judge" /\ r.edit = my[p].edit /\ r.shown = seen /\ r.doc = my[p].doc
      /\ r.tally = my[p].tally /\ r.queue = my[p].queue /\ r.first = my[p].first
      /\ r.second = my[p].second
  BY <1>0, <1>1 DEF Memory
<1>7. my'[p] = r => ProcOK(p)'
  <2> HIDE DEF r
  <2> QED BY <1>0, <1>1, <1>4, <1>6 DEF ProcOK, InStep, Grounded, Tallied, Vacated, Based
<1>8. edits' \in 0..MaxEdits BY <1>1 DEF SchedInv, StoreOK
<1> HIDE DEF r
<1> QED BY <1>1, <1>5, <1>7, <1>8, Quiet

LEMMA GivingAVerdict ==
    ASSUME SchedInv, NEW p \in Procs, Verdict(p)
    PROVE  SchedInv'
<1> DEFINE t == Judged(p)
<1>0. my[p] \in Memory /\ ProcOK(p) BY DEF SchedInv, StoreOK
<1>1. PICK Q \in {my[p].queue, my[p].queue \cup {t}} :
        /\ Set(p, [my[p] EXCEPT !.todo = my[p].todo \ {t}, !.queue = Q])
        /\ Q # my[p].queue => PlanPasses(p) /\ Unmet(p) = {} /\ Unseen(p) = {}
  <2>1. CASE Set(p, [my[p] EXCEPT !.todo = my[p].todo \ {t}])
    <3>1. [my[p] EXCEPT !.todo = my[p].todo \ {t}]
            = [my[p] EXCEPT !.todo = my[p].todo \ {t}, !.queue = my[p].queue]
      BY <1>0 DEF Memory
    <3> QED BY <2>1, <3>1
  <2>2. CASE /\ PlanPasses(p) /\ Unmet(p) = {} /\ Unseen(p) = {}
             /\ Set(p, [my[p] EXCEPT !.todo = my[p].todo \ {t}, !.queue = my[p].queue \cup {t}])
    BY <2>2
  <2> QED BY <2>1, <2>2 DEF Verdict
<1> DEFINE r == [my[p] EXCEPT !.todo = my[p].todo \ {t}, !.queue = Q]
<1>2. UNCHANGED <<plan, rev, status, archived, edits>> /\ my[p].pc = "judge" /\ my[p].todo # {}
  BY DEF Verdict, Judging
<1>3. t \in Tasks BY <1>0, <1>2, LeastIsOne, GatesAssumption DEF Judged, Memory
<1>4. Q \subseteq Tasks BY <1>0, <1>3 DEF Memory
<1>5. \A u \in Q : /\ \A d \in DependsOn[u] : status[d] = "done"
                   /\ PhaseOf[u] # Outside => my[p].doc \in PlanDocs
  <2>1. ASSUME Q # my[p].queue PROVE \A d \in DependsOn[t] : status[d] = "done"
    BY <1>0, <1>1, <2>1 DEF ProcOK, Grounded, Unmet, Met, Unseen
  <2>2. ASSUME Q # my[p].queue, PhaseOf[t] # Outside PROVE my[p].doc \in PlanDocs
    BY <1>0, <1>1, <1>2, <2>2 DEF PlanPasses, OfPlan, ProcOK, InStep
  <2> QED BY <1>0, <1>1, <2>1, <2>2 DEF ProcOK, Grounded
<1> HIDE DEF t
<1>6. r \in Memory BY <1>0, <1>4 DEF Memory
<1>7. /\ r.pc = "judge" /\ r.edit = my[p].edit /\ r.shown = my[p].shown /\ r.doc = my[p].doc
      /\ r.tally = my[p].tally /\ r.queue = Q /\ r.first = my[p].first
      /\ r.second = my[p].second
  BY <1>0, <1>2 DEF Memory
<1>8. my'[p] = r => ProcOK(p)'
  <2> HIDE DEF r
  <2> QED BY <1>0, <1>2, <1>5, <1>7 DEF ProcOK, InStep, Grounded, Tallied, Vacated, Based
<1>9. edits' \in 0..MaxEdits BY <1>2 DEF SchedInv, StoreOK
<1> HIDE DEF r
<1> QED BY <1>1, <1>2, <1>6, <1>8, <1>9, Quiet DEF r

LEMMA EndingTheSelection ==
    ASSUME SchedInv, NEW p \in Procs, StartClaiming(p)
    PROVE  SchedInv'
<1> DEFINE r == [my[p] EXCEPT !.pc = "claim", !.shown = <<>>, !.tally = Unread,
                            !.first = {}, !.second = {}]
<1>0. my[p] \in Memory /\ ProcOK(p) BY DEF SchedInv, StoreOK
<1>1. Set(p, r) /\ UNCHANGED <<plan, rev, status, archived, edits>> /\ my[p].pc = "judge"
  BY DEF StartClaiming
<1>2. <<>> \in Shown /\ Unread \in Tallies BY Resting DEF Memory, AtRest
<1>3. r \in Memory BY <1>0, <1>2 DEF Memory
<1>4. /\ r.pc = "claim" /\ r.edit = my[p].edit /\ r.shown = <<>> /\ r.doc = my[p].doc
      /\ r.tally = Unread /\ r.queue = my[p].queue
  BY <1>0, <1>1 DEF Memory
<1>5. my'[p] = r => ProcOK(p)'
  <2> HIDE DEF r
  <2> QED BY <1>0, <1>1, <1>4 DEF ProcOK, InStep, Grounded, Tallied, Vacated, Based
<1>6. edits' \in 0..MaxEdits BY <1>1 DEF SchedInv, StoreOK
<1> HIDE DEF r
<1> QED BY <1>1, <1>3, <1>5, <1>6, Quiet

---------------------------------------------------------------------------
(******************************* The claim *********************************)

LEMMA PlacesAreNumbers ==
    ASSUME NEW t \in Tasks, NEW doc, PhaseOf[t] # Outside => doc \in PlanDocs
    PROVE  /\ PlanRank(doc, t) \in 0..3
           /\ Place(doc, t) = <<Place(doc, t)[1], Place(doc, t)[2]>>
           /\ Place(doc, t)[1] \in Nat /\ Place(doc, t)[2] \in Nat
<1> USE GatesAssumption
<1>1. CASE PhaseOf[t] = Outside
  <2>1. 35 - 10 * Priority[t] \in Nat
    <3>1. Priority[t] \in 0..3 OBVIOUS
    <3> QED BY <3>1
  <2> QED BY <1>1, <2>1 DEF PlanRank, Place
<1>2. CASE PhaseOf[t] # Outside
  <2>1. doc.priority \in 0..3 BY <1>2 DEF PlanDocs
  <2>2. SeqOf[t] \in Nat OBVIOUS
  <2>3. ASSUME PhaseOf[t] \in PhaseIds(doc) PROVE At(doc, PhaseOf[t]) \in Nat
    <3>1. doc.phases \in Seq([id : Nat \ {0}, gate : Gate]) BY <1>2 DEF PlanDocs
    <3>2. \E k \in DOMAIN doc.phases : doc.phases[k].id = PhaseOf[t] BY <2>3 DEF PhaseIds
    <3>3. At(doc, PhaseOf[t]) \in DOMAIN doc.phases BY <3>2 DEF At
    <3> QED BY <3>1, <3>3
  <2> QED BY <1>2, <2>1, <2>2, <2>3 DEF PlanRank, Place
<1> QED BY <1>1, <1>2

\* The order of candidates has a first one.
LEMMA SomeFirst ==
    ASSUME NEW Q \in SUBSET Tasks, Q # {}, NEW doc,
           \A t \in Q : PhaseOf[t] # Outside => doc \in PlanDocs
    PROVE  \E t \in Q : \A u \in Q \ {t} : Before(doc, t, u)
<1> DEFINE a(t) == Place(doc, t)
           k1 == [t \in Q |-> 3 - PlanRank(doc, t)]
           k2 == [t \in Q |-> a(t)[1]]
           k3 == [t \in Q |-> a(t)[2]]
           k4 == [t \in Q |-> 3 - Priority[t]]
           k5 == [t \in Q |-> t]
           Q1 == {t \in Q : \A u \in Q : k1[t] <= k1[u]}
           Q2 == {t \in Q1 : \A u \in Q1 : k2[t] <= k2[u]}
           Q3 == {t \in Q2 : \A u \in Q2 : k3[t] <= k3[u]}
           Q4 == {t \in Q3 : \A u \in Q3 : k4[t] <= k4[u]}
<1>1. \A t \in Q : /\ PlanRank(doc, t) \in 0..3 /\ Priority[t] \in 0..3 /\ t \in Nat
                   /\ a(t) = <<a(t)[1], a(t)[2]>> /\ a(t)[1] \in Nat /\ a(t)[2] \in Nat
  BY GatesAssumption, PlacesAreNumbers
<1> HIDE DEF a
<1>2. \A t \in Q : k1[t] \in Nat /\ k2[t] \in Nat /\ k3[t] \in Nat /\ k4[t] \in Nat /\ k5[t] \in Nat
  BY <1>1
<1> HIDE DEF k1, k2, k3, k4, k5
<1>3. Q1 # {} BY <1>2, LeastByKey
<1>4. Q2 # {}
  <2>1. Q1 \subseteq Q OBVIOUS
  <2> HIDE DEF Q1
  <2> QED BY <1>2, <1>3, <2>1, LeastByKey
<1>5. Q3 # {}
  <2>1. Q2 \subseteq Q OBVIOUS
  <2> HIDE DEF Q2
  <2> QED BY <1>2, <1>4, <2>1, LeastByKey
<1>6. Q4 # {}
  <2>1. Q3 \subseteq Q OBVIOUS
  <2> HIDE DEF Q3
  <2> QED BY <1>2, <1>5, <2>1, LeastByKey
<1>7. PICK t \in Q4 : \A u \in Q4 : k5[t] <= k5[u]
  <2>1. Q4 \subseteq Q OBVIOUS
  <2> HIDE DEF Q4
  <2> QED BY <1>2, <1>6, <2>1, LeastByKey
<1>8. t \in Q OBVIOUS
<1>9. ASSUME NEW u \in Q \ {t} PROVE Before(doc, t, u)
  <2>1. k1[t] < k1[u] \/ (k1[t] = k1[u] /\ u \in Q1)
    <3>1. k1[t] <= k1[u] OBVIOUS
    <3>2. k1[t] = k1[u] => u \in Q1 OBVIOUS
    <3> QED BY <1>2, <1>8, <3>1, <3>2
  <2>2. u \in Q1 => k2[t] < k2[u] \/ (k2[t] = k2[u] /\ u \in Q2)
    <3>1. u \in Q1 => k2[t] <= k2[u] OBVIOUS
    <3>2. u \in Q1 /\ k2[t] = k2[u] => u \in Q2 OBVIOUS
    <3> HIDE DEF Q1, Q2
    <3> QED BY <1>2, <1>8, <3>1, <3>2
  <2>3. u \in Q2 => k3[t] < k3[u] \/ (k3[t] = k3[u] /\ u \in Q3)
    <3>1. u \in Q2 => k3[t] <= k3[u] OBVIOUS
    <3>2. u \in Q2 /\ k3[t] = k3[u] => u \in Q3 OBVIOUS
    <3> HIDE DEF Q2, Q3
    <3> QED BY <1>2, <1>8, <3>1, <3>2
  <2>4. u \in Q3 => k4[t] < k4[u] \/ (k4[t] = k4[u] /\ u \in Q4)
    <3>1. u \in Q3 => k4[t] <= k4[u] OBVIOUS
    <3>2. u \in Q3 /\ k4[t] = k4[u] => u \in Q4 OBVIOUS
    <3> HIDE DEF Q3, Q4
    <3> QED BY <1>2, <1>8, <3>1, <3>2
  <2>5. u \in Q4 => t < u
    <3>1. u \in Q4 => k5[t] <= k5[u] BY <1>7
    <3> HIDE DEF Q4
    <3> QED BY <1>1, <1>8, <3>1 DEF k5
  <2> HIDE DEF Q1, Q2, Q3, Q4
  <2>6. /\ k1[t] < k1[u] => PlanRank(doc, t) > PlanRank(doc, u)
        /\ k1[t] = k1[u] => PlanRank(doc, t) = PlanRank(doc, u)
        /\ k2[t] = a(t)[1] /\ k2[u] = a(u)[1] /\ k3[t] = a(t)[2] /\ k3[u] = a(u)[2]
        /\ k4[t] < k4[u] => Priority[t] > Priority[u]
        /\ k4[t] = k4[u] => Priority[t] = Priority[u]
    BY <1>1, <1>8 DEF k1, k2, k3, k4
  <2>7. k2[t] = k2[u] /\ k3[t] = k3[u] => a(t) = a(u)
    <3>1. a(t) = <<k2[t], k3[t]>> /\ a(u) = <<k2[u], k3[u]>> BY <1>1, <1>8, <2>6
    <3> QED BY <3>1
  <2>8. Before(doc, t, u) <=>
          \/ PlanRank(doc, t) > PlanRank(doc, u)
          \/ /\ PlanRank(doc, t) = PlanRank(doc, u)
             /\ \/ a(t)[1] < a(u)[1]
                \/ a(t)[1] = a(u)[1] /\ a(t)[2] < a(u)[2]
                \/ a(t) = a(u) /\ Priority[t] > Priority[u]
                \/ a(t) = a(u) /\ Priority[t] = Priority[u] /\ t < u
    BY DEF Before, a
  <2> QED BY <2>1, <2>2, <2>3, <2>4, <2>5, <2>6, <2>7, <2>8
<1> QED BY <1>8, <1>9

LEMMA FirstIsCandidate ==
    ASSUME SchedInv, NEW p \in Procs, my[p].queue # {}
    PROVE  FirstOf(p) \in my[p].queue
<1>1. my[p].queue \subseteq Tasks BY DEF SchedInv, StoreOK, Memory
<1>2. \A t \in my[p].queue : PhaseOf[t] # Outside => my[p].doc \in PlanDocs
  BY DEF SchedInv, ProcOK, Grounded
<1> QED BY <1>1, <1>2, SomeFirst DEF FirstOf

LEMMA LoadingACandidate ==
    ASSUME SchedInv, NEW p \in Procs, ClaimLoad(p)
    PROVE  SchedInv'
<1> DEFINE t == FirstOf(p)
           r == [my[p] EXCEPT !.pc = "swap", !.tries = @ + 1, !.target = t, !.fresh = TRUE]
           s == [my[p] EXCEPT !.tries = @ + 1, !.queue = @ \ {t}]
<1>0. my[p] \in Memory /\ ProcOK(p) BY DEF SchedInv, StoreOK
<1>1. /\ my[p].pc = "claim" /\ my[p].queue # {}
      /\ Set(p, IF status[t] = "open" THEN r ELSE s)
      /\ UNCHANGED <<plan, rev, status, archived, edits>>
  BY DEF ClaimLoad
<1>2. t \in my[p].queue /\ t \in Tasks /\ t \in Nat
  BY <1>0, <1>1, FirstIsCandidate, GatesAssumption DEF Memory
<1> HIDE DEF t
<1>3. r \in Memory /\ s \in Memory
  <2>1. my[p].tries + 1 \in Nat BY <1>0 DEF Memory
  <2>2. r \in Memory BY <1>0, <1>2, <2>1 DEF Memory
  <2>3. s \in Memory BY <1>0, <1>2, <2>1 DEF Memory
  <2> QED BY <2>2, <2>3
<1>4. /\ r.pc = "swap" /\ r.edit = my[p].edit /\ r.shown = my[p].shown /\ r.doc = my[p].doc
      /\ r.tally = my[p].tally /\ r.queue = my[p].queue /\ r.target = t
  BY <1>0, <1>1 DEF Memory
<1>5. /\ s.pc = "claim" /\ s.edit = my[p].edit /\ s.shown = my[p].shown /\ s.doc = my[p].doc
      /\ s.tally = my[p].tally /\ s.queue \subseteq my[p].queue
  BY <1>0, <1>1 DEF Memory
<1> HIDE DEF r, s
<1>6. Claiming.op # "remove" BY DEF Claiming
<1>7. edits' \in 0..MaxEdits BY <1>1 DEF SchedInv, StoreOK
<1>8. CASE status[t] = "open"
  <2>1. my'[p] = r => ProcOK(p)'
    BY <1>0, <1>1, <1>2, <1>4, <1>6, <1>8 DEF ProcOK, InStep, Grounded, Tallied, Vacated, Based
  <2> QED BY <1>1, <1>3, <1>7, <1>8, <2>1, Quiet
<1>9. CASE status[t] # "open"
  <2>1. my'[p] = s => ProcOK(p)'
    BY <1>0, <1>1, <1>5, <1>6 DEF ProcOK, InStep, Grounded, Tallied, Vacated, Based
  <2> QED BY <1>1, <1>3, <1>7, <1>9, <2>1, Quiet
<1> QED BY <1>8, <1>9

LEMMA Skipping ==
    ASSUME SchedInv, NEW p \in Procs, my[p].pc = "swap", Skip(p),
           UNCHANGED <<plan, rev, status, archived, edits>>
    PROVE  SchedInv'
<1> DEFINE r == [my[p] EXCEPT !.pc = "claim", !.queue = my[p].queue \ {my[p].target},
                              !.target = 0, !.fresh = FALSE]
<1>0. my[p] \in Memory /\ ProcOK(p) /\ edits' \in 0..MaxEdits BY DEF SchedInv, StoreOK
<1>1. Set(p, r) BY <1>0 DEF Skip, Memory
<1>2. r \in Memory BY <1>0 DEF Memory
<1>3. /\ r.pc = "claim" /\ r.edit = my[p].edit /\ r.shown = my[p].shown /\ r.doc = my[p].doc
      /\ r.tally = my[p].tally /\ r.queue \subseteq my[p].queue
  BY <1>0 DEF Memory
<1> HIDE DEF r
<1>4. Claiming.op # "remove" BY DEF Claiming
<1>5. my'[p] = r => ProcOK(p)'
  BY <1>0, <1>3, <1>4 DEF ProcOK, InStep, Grounded, Tallied, Vacated, Based
<1> QED BY <1>0, <1>1, <1>2, <1>5, Quiet

LEMMA StartingAnEdit ==
    ASSUME SchedInv, NEW p \in Procs, StartEdit(p)
    PROVE  SchedInv'
<1>1. PICK edit \in Menu :
        Set(p, [AtRest EXCEPT !.edit = edit, !.pc = IF edit.op = "remove" THEN "list" ELSE "load"])
  BY DEF StartEdit
<1> DEFINE to == IF edit.op = "remove" THEN "list" ELSE "load"
           r == [AtRest EXCEPT !.edit = edit, !.pc = to]
<1>2. /\ Set(p, r) /\ UNCHANGED <<plan, rev, status, archived>>
      /\ edits' \in 0..MaxEdits
  BY <1>1, SchedulingAssumption DEF StartEdit, SchedInv, StoreOK
<1>3. to \in {"list", "load"} /\ (to = "list" <=> edit.op = "remove") OBVIOUS
<1> HIDE DEF to
<1>4. r \in Memory BY <1>3, Resting DEF Memory
<1>5. /\ r.pc = to /\ r.edit = edit /\ r.shown = <<>> /\ r.doc = Unread
      /\ r.tally = Unread /\ r.queue = {}
  BY DEF AtRest
<1> HIDE DEF r
<1>6. my'[p] = r => ProcOK(p)'
  BY <1>3, <1>5 DEF ProcOK, InStep, Grounded, Tallied, Vacated, Based
<1> QED BY <1>2, <1>4, <1>6, Quiet

LEMMA StartingToShow ==
    ASSUME SchedInv, NEW p \in Procs, ShowPlan(p)
    PROVE  SchedInv'
<1> DEFINE r == [AtRest EXCEPT !.pc = "list", !.edit = Showing, !.doc = plan]
<1>1. Set(p, r) /\ UNCHANGED <<plan, rev, status, archived, edits>> BY DEF ShowPlan
<1>2. plan \in PlanDocs /\ edits' \in 0..MaxEdits BY <1>1 DEF SchedInv, StoreOK
<1>3. r \in Memory BY <1>2, Resting DEF Memory
<1>4. /\ r.pc = "list" /\ r.edit = Showing /\ r.shown = <<>> /\ r.doc = plan
      /\ r.tally = Unread /\ r.queue = {}
  BY DEF AtRest
<1> HIDE DEF r
<1>5. Showing.op # "remove" BY DEF Showing
<1>6. my'[p] = r => ProcOK(p)'
  BY <1>1, <1>2, <1>4, <1>5 DEF ProcOK, InStep, Grounded, Tallied, Vacated, Based
<1> QED BY <1>1, <1>2, <1>3, <1>6, Quiet

LEMMA MenuIsOfEdits ==
    \A e \in Menu : /\ e.op \in {"add", "gate", "remove", "advance", "status", "priority"}
                    /\ e # Claiming /\ e # Showing /\ e # Idle
<1>1. ASSUME NEW e \in PlanEdits
      PROVE  e.op \in {"add", "gate", "remove", "advance", "status", "priority"}
  BY DEF PlanEdits
<1>2. Claiming.op = "next" /\ Showing.op = "show" /\ Idle.op = "none" BY DEF Claiming, Showing, Idle
<1> QED BY <1>1, <1>2, SchedulingAssumption

LEMMA LoadingTheDocument ==
    ASSUME SchedInv, NEW p \in Procs, EditLoad(p)
    PROVE  SchedInv'
<1> DEFINE base == [at |-> rev, plan |-> plan]
           r == [my[p] EXCEPT !.pc = "publish", !.tries = @ + 1, !.doc = base]
<1>0. /\ my[p] \in Memory /\ ProcOK(p) /\ my[p].pc = "load" /\ StoreOK
      /\ UNCHANGED <<plan, rev, status, archived, edits>> /\ edits' \in 0..MaxEdits
  BY DEF SchedInv, StoreOK, EditLoad
<1>1. CASE ~Takes(plan, my[p].edit) BY <1>1, Rests DEF EditLoad
<1>2. CASE Takes(plan, my[p].edit)
  <2>1. Set(p, r) BY <1>2 DEF EditLoad
  <2>2. base \in [at : Nat, plan : PlanDocs] BY <1>0 DEF StoreOK
  <2>3. base \notin PlanDocs \cup {Unread} BY DEF PlanDocs, Unread
  <2>4. base.at = rev /\ base.plan = plan /\ rev \in Nat BY <1>0 DEF StoreOK
  <2> HIDE DEF base
  <2>5. r \in Memory
    <3>1. my[p].tries + 1 \in Nat BY <1>0 DEF Memory
    <3> QED BY <1>0, <2>2, <3>1 DEF Memory
  <2>6. /\ r.pc = "publish" /\ r.edit = my[p].edit /\ r.shown = my[p].shown /\ r.doc = base
        /\ r.tally = my[p].tally /\ r.queue = my[p].queue /\ r.since = my[p].since
    BY <1>0 DEF Memory
  <2>7. my[p].doc = Unread \/ my[p].doc \in PlanDocs BY <1>0 DEF ProcOK, InStep
  <2> HIDE DEF r
  <2>8. Present' = Present BY <1>0 DEF Present
  <2>9. my'[p] = r => ProcOK(p)'
    <3>1. SUFFICES ASSUME my'[p] = r PROVE ProcOK(p)' OBVIOUS
    <3>2. InStep(p)' BY <1>0, <2>3, <2>6, <3>1 DEF ProcOK, InStep
    <3>. my[p].queue = {}
      <4>1. my[p].edit \in Menu BY <1>0 DEF ProcOK, InStep
      <4> QED BY <1>0, <4>1, MenuIsOfEdits DEF ProcOK, InStep
    <3>3. Grounded(p)' BY <1>0, <2>6, <3>1 DEF ProcOK, Grounded
    <3>4. Tallied(p)' BY <1>0, <2>6, <3>1 DEF ProcOK, InStep, Tallied
    <3>5. Vacated(p)' BY <1>0, <2>6, <2>8, <3>1 DEF ProcOK, Vacated
    <3>6. Based(p)' BY <1>0, <1>2, <2>2, <2>4, <2>6, <3>1 DEF Based, StoreOK, ValidPlan, Takes, PhaseIds
    <3> QED BY <3>2, <3>3, <3>4, <3>5, <3>6 DEF ProcOK
  <2> QED BY <1>0, <2>1, <2>5, <2>9, Quiet
<1> QED BY <1>1, <1>2

---------------------------------------------------------------------------
(************************** The edits of a plan ****************************)

LEMMA PhasesOfDoc ==
    ASSUME NEW doc \in PlanDocs
    PROVE  /\ doc.phases \in Seq([id : Nat \ {0}, gate : Gate]) /\ Len(doc.phases) \in Nat
           /\ DOMAIN doc.phases = 1..Len(doc.phases)
           /\ \A k \in 1..Len(doc.phases) : /\ doc.phases[k] \in [id : Nat \ {0}, gate : Gate]
                                            /\ doc.phases[k].id \in Nat \ {0}
           /\ \A ph \in PhaseIds(doc) : At(doc, ph) \in 1..Len(doc.phases)
                                        /\ doc.phases[At(doc, ph)].id = ph
<1>1. doc.phases \in Seq([id : Nat \ {0}, gate : Gate]) BY DEF PlanDocs
<1>2. DOMAIN doc.phases = 1..Len(doc.phases) /\ Len(doc.phases) \in Nat BY <1>1
<1>3. \A k \in 1..Len(doc.phases) : doc.phases[k] \in [id : Nat \ {0}, gate : Gate]
  BY <1>1, <1>2, ElementOf
<1>4. \A ph \in PhaseIds(doc) : \E k \in DOMAIN doc.phases : doc.phases[k].id = ph BY DEF PhaseIds
<1>5. \A ph \in PhaseIds(doc) : At(doc, ph) \in DOMAIN doc.phases /\ doc.phases[At(doc, ph)].id = ph
  BY <1>4 DEF At
<1> QED BY <1>1, <1>2, <1>3, <1>5

\* There are more numbers than phases, so there is a first one that is free.
LEMMA NextPhaseIsFree ==
    ASSUME NEW doc \in PlanDocs
    PROVE  NextPhase(doc) \in Nat \ {0} /\ NextPhase(doc) \notin PhaseIds(doc)
<1> DEFINE n == Len(doc.phases)
           free == {m \in 1..n + 1 : m \notin PhaseIds(doc)}
<1>1. n \in Nat BY PhasesOfDoc
<1>2. free # {}
  <2> SUFFICES ASSUME 1..n + 1 \subseteq PhaseIds(doc) PROVE FALSE OBVIOUS
  <2> DEFINE f == [k \in 1..n |-> doc.phases[k].id]
  <2>1. f \in Surjection(1..n, PhaseIds(doc)) BY PhasesOfDoc DEF Surjection, PhaseIds
  <2>2. IsFiniteSet(1..n) /\ Cardinality(1..n) = n
    BY <1>1, FS_Interval
  <2>3. IsFiniteSet(PhaseIds(doc)) /\ Cardinality(PhaseIds(doc)) <= n
    <3> HIDE DEF f
    <3> QED BY <2>1, <2>2, FS_Surjection
  <2>4. 1 \in Int /\ n + 1 \in Int BY <1>1
  <2>5. IsFiniteSet(1..n + 1) /\ Cardinality(1..n + 1) = n + 1
    BY <1>1, <2>4, FS_Interval
  <2>6. Cardinality(1..n + 1) <= Cardinality(PhaseIds(doc)) BY <2>3, FS_Subset
  <2>7. Cardinality(PhaseIds(doc)) \in Nat BY <2>3, FS_CardinalityType
  <2> QED BY <1>1, <2>3, <2>5, <2>6, <2>7
<1>3. free \in SUBSET Nat BY <1>1
<1>4. PICK m \in free : \A y \in free : m <= y
  <2> HIDE DEF free
  <2> QED BY <1>2, <1>3, LeastOne
<1>5. m \in 1..n + 1 /\ m \notin PhaseIds(doc) /\ \A l \in 1..m - 1 : l \in PhaseIds(doc)
  <2>1. ASSUME NEW l \in 1..m - 1, l \notin PhaseIds(doc) PROVE FALSE
    <3>1. l \in free BY <1>1, <2>1
    <3>2. m <= l BY <1>4, <3>1
    <3> QED BY <1>1, <3>2
  <2> QED BY <2>1
<1>6. NextPhase(doc) \in 1..n + 1 /\ NextPhase(doc) \notin PhaseIds(doc)
  BY <1>5, Zenon DEF NextPhase
<1> QED BY <1>1, <1>6

LEMMA PartsOf ==
    ASSUME NEW P, NEW ps \in Seq(P), NEW i \in Nat \ {0}, NEW j \in Int, j <= Len(ps)
    PROVE  /\ SubSeq(ps, i, j) \in Seq(P)
           /\ Len(SubSeq(ps, i, j)) = IF i <= j THEN j - i + 1 ELSE 0
           /\ \A m \in 1..j - i + 1 : SubSeq(ps, i, j)[m] = ps[i + m - 1]
<1>1. \A m \in i..j : ps[m] \in P
  <2>1. \A m \in i..j : m \in DOMAIN ps OBVIOUS
  <2> QED BY <2>1, ElementOf
<1> QED BY <1>1, SubSeqProperties

Insertion(ps, x, k) == SubSeq(ps, 1, k) \o <<x>> \o SubSeq(ps, k + 1, Len(ps))

Removal(ps, k) == SubSeq(ps, 1, k - 1) \o SubSeq(ps, k + 1, Len(ps))

LEMMA InsertAt ==
    ASSUME NEW P, NEW ps \in Seq(P), NEW x \in P, NEW k \in 0..Len(ps), NEW s, s = Insertion(ps, x, k)
    PROVE  /\ s \in Seq(P) /\ Len(s) = Len(ps) + 1
           /\ \A i \in 1..Len(ps) + 1 : i <= k => s[i] = ps[i]
           /\ s[k + 1] = x
           /\ \A i \in 1..Len(ps) + 1 : i > k + 1 => s[i] = ps[i - 1]
<1> DEFINE a == SubSeq(ps, 1, k)
           b == SubSeq(ps, k + 1, Len(ps))
           n == Len(ps)
<1>0. n \in Nat /\ k \in Nat /\ k <= n OBVIOUS
<1>1. a \in Seq(P) /\ Len(a) = k /\ \A m \in 1..k : a[m] = ps[m] BY <1>0, PartsOf
<1>2. b \in Seq(P) /\ Len(b) = n - k /\ \A m \in 1..n - k : b[m] = ps[k + m]
  <2>1. k + 1 \in Nat \ {0} /\ n \in Int /\ n <= Len(ps) BY <1>0
  <2>2. /\ b \in Seq(P) /\ Len(b) = IF k + 1 <= n THEN n - (k + 1) + 1 ELSE 0
        /\ \A m \in 1..n - (k + 1) + 1 : b[m] = ps[k + 1 + m - 1]
    BY <2>1, PartsOf
  <2> QED BY <1>0, <2>2
<1>3. <<x>> \in Seq(P) /\ Len(<<x>>) = 1 /\ <<x>>[1] = x OBVIOUS
<1>4. s = (a \o <<x>>) \o b BY DEF Insertion
<1> HIDE DEF a, b, n
<1>5. /\ a \o <<x>> \in Seq(P) /\ Len(a \o <<x>>) = k + 1
      /\ \A m \in 1..k + 1 : (a \o <<x>>)[m] = IF m <= k THEN ps[m] ELSE x
  <2> DEFINE y == <<x>>
  <2>1. y \in Seq(P) /\ Len(y) = 1 /\ y[1] = x BY <1>3
  <2> HIDE DEF y
  <2>2. /\ a \o y \in Seq(P) /\ Len(a \o y) = Len(a) + Len(y)
        /\ \A m \in 1..Len(a) + Len(y) : (a \o y)[m] = IF m <= Len(a) THEN a[m] ELSE y[m - Len(a)]
    BY <1>1, <2>1, ConcatProperties
  <2>3. \A m \in 1..k + 1 : (a \o y)[m] = IF m <= k THEN ps[m] ELSE x
    BY <1>0, <1>1, <2>1, <2>2
  <2> QED BY <1>1, <2>1, <2>2, <2>3 DEF y
<1>6. /\ s \in Seq(P) /\ Len(s) = (k + 1) + Len(b)
      /\ \A m \in 1..(k + 1) + Len(b) :
            s[m] = IF m <= k + 1 THEN (a \o <<x>>)[m] ELSE b[m - (k + 1)]
  <2> DEFINE c == a \o <<x>>
  <2>1. c \in Seq(P) /\ Len(c) = k + 1 /\ s = c \o b BY <1>4, <1>5
  <2> HIDE DEF c
  <2>2. /\ c \o b \in Seq(P) /\ Len(c \o b) = Len(c) + Len(b)
        /\ \A m \in 1..Len(c) + Len(b) : (c \o b)[m] = IF m <= Len(c) THEN c[m] ELSE b[m - Len(c)]
    BY <1>2, <2>1, ConcatProperties
  <2> QED BY <2>1, <2>2 DEF c
<1>7. Len(s) = n + 1 BY <1>0, <1>2, <1>5, <1>6
<1>8. ASSUME NEW i \in 1..n + 1
      PROVE  s[i] = IF i <= k THEN ps[i] ELSE IF i = k + 1 THEN x ELSE ps[i - 1]
  <2>1. i \in 1..(k + 1) + (n - k) BY <1>0
  <2>2. s[i] = IF i <= k + 1 THEN (a \o <<x>>)[i] ELSE b[i - (k + 1)]
    BY <1>2, <1>6, <2>1
  <2>3. i > k + 1 => b[i - (k + 1)] = ps[i - 1]
    <3>1. i > k + 1 => i - (k + 1) \in 1..n - k /\ k + (i - (k + 1)) = i - 1 BY <1>0
    <3> QED BY <1>2, <3>1
  <2>4. i <= k + 1 => (a \o <<x>>)[i] = IF i <= k THEN ps[i] ELSE x BY <1>0, <1>5
  <2>5. k \in Int /\ i \in Int BY <1>0
  <2>6. PICK c : c = a \o <<x>> OBVIOUS
  <2>7. /\ s[i] = IF i <= k + 1 THEN c[i] ELSE b[i - (k + 1)]
        /\ i <= k + 1 => c[i] = IF i <= k THEN ps[i] ELSE x
    BY <2>2, <2>4, <2>6
  <2>8. CASE i <= k BY <2>5, <2>7, <2>8
  <2>9. CASE i = k + 1 BY <2>5, <2>7, <2>9
  <2>10. CASE i > k + 1 BY <2>3, <2>5, <2>7, <2>10
  <2> QED BY <2>5, <2>8, <2>9, <2>10
<1>9. k + 1 \in 1..n + 1 /\ ~(k + 1 <= k) BY <1>0
<1>10. s[k + 1] = x BY <1>8, <1>9
<1>11. \A i \in 1..n + 1 : i > k + 1 => ~(i <= k) /\ i # k + 1 BY <1>0
<1> QED BY <1>6, <1>7, <1>8, <1>10, <1>11 DEF n

LEMMA DropAt ==
    ASSUME NEW P, NEW ps \in Seq(P), NEW k \in 1..Len(ps), NEW s, s = Removal(ps, k)
    PROVE  /\ s \in Seq(P) /\ Len(s) = Len(ps) - 1
           /\ \A i \in 1..Len(ps) - 1 : s[i] = IF i < k THEN ps[i] ELSE ps[i + 1]
<1> DEFINE a == SubSeq(ps, 1, k - 1)
           b == SubSeq(ps, k + 1, Len(ps))
           n == Len(ps)
<1>0. n \in Nat /\ k \in Nat /\ 1 <= k /\ k <= n OBVIOUS
<1>1. a \in Seq(P) /\ Len(a) = k - 1 /\ \A m \in 1..k - 1 : a[m] = ps[m]
  <2>1. 1 \in Nat \ {0} /\ k - 1 \in Int /\ k - 1 <= Len(ps) BY <1>0
  <2>2. /\ a \in Seq(P) /\ Len(a) = IF 1 <= k - 1 THEN k - 1 - 1 + 1 ELSE 0
        /\ \A m \in 1..k - 1 - 1 + 1 : a[m] = ps[1 + m - 1]
    BY <2>1, PartsOf
  <2> QED BY <1>0, <2>2
<1>2. b \in Seq(P) /\ Len(b) = n - k /\ \A m \in 1..n - k : b[m] = ps[k + m]
  <2>1. k + 1 \in Nat \ {0} /\ n \in Int /\ n <= Len(ps) BY <1>0
  <2>2. /\ b \in Seq(P) /\ Len(b) = IF k + 1 <= n THEN n - (k + 1) + 1 ELSE 0
        /\ \A m \in 1..n - (k + 1) + 1 : b[m] = ps[k + 1 + m - 1]
    BY <2>1, PartsOf
  <2> QED BY <1>0, <2>2
<1>4. s = a \o b BY DEF Removal
<1> HIDE DEF a, b, n
<1>6. /\ s \in Seq(P) /\ Len(s) = Len(a) + Len(b)
      /\ \A m \in 1..Len(a) + Len(b) : s[m] = IF m <= Len(a) THEN a[m] ELSE b[m - Len(a)]
  <2>2. /\ a \o b \in Seq(P) /\ Len(a \o b) = Len(a) + Len(b)
        /\ \A m \in 1..Len(a) + Len(b) : (a \o b)[m] = IF m <= Len(a) THEN a[m] ELSE b[m - Len(a)]
    BY <1>1, <1>2, ConcatProperties
  <2> QED BY <1>4, <2>2
<1>7. Len(s) = n - 1 BY <1>0, <1>1, <1>2, <1>6
<1>8. ASSUME NEW i \in 1..n - 1 PROVE s[i] = IF i < k THEN ps[i] ELSE ps[i + 1]
  <2>1. i \in 1..(k - 1) + (n - k) BY <1>0
  <2>2. s[i] = IF i <= k - 1 THEN a[i] ELSE b[i - (k - 1)] BY <1>1, <1>2, <1>6, <2>1
  <2>3. i >= k => b[i - (k - 1)] = ps[i + 1]
    <3>1. i >= k => i - (k - 1) \in 1..n - k /\ k + (i - (k - 1)) = i + 1 BY <1>0
    <3> QED BY <1>2, <3>1
  <2>4. i < k => a[i] = ps[i] BY <1>0, <1>1
  <2> QED BY <1>0, <2>2, <2>3, <2>4
<1> QED BY <1>6, <1>7, <1>8 DEF n

UniqueIds(ps) == \A i, j \in 1..Len(ps) : ps[i].id = ps[j].id => i = j

Ids(ps) == {ps[i].id : i \in 1..Len(ps)}

\* A phase more, with an id of its own.
LEMMA InsertedIds ==
    ASSUME NEW P, NEW ps \in Seq(P), NEW x \in P, NEW k \in 0..Len(ps),
           UniqueIds(ps), x.id \notin Ids(ps)
    PROVE  /\ Insertion(ps, x, k) \in Seq(P) /\ UniqueIds(Insertion(ps, x, k))
           /\ Ids(ps) \subseteq Ids(Insertion(ps, x, k))
<1> DEFINE n == Len(ps)
<1>1. n \in Nat /\ k \in Int /\ 0 <= k /\ k <= n OBVIOUS
<1>2. PICK s : s = Insertion(ps, x, k) OBVIOUS
<1>3. /\ s \in Seq(P) /\ Len(s) = n + 1
      /\ \A i \in 1..n + 1 : i <= k => s[i] = ps[i]
      /\ s[k + 1] = x
      /\ \A i \in 1..n + 1 : i > k + 1 => s[i] = ps[i - 1]
  <2>1. x \in P /\ k \in 0..Len(ps) OBVIOUS
  <2> HIDE DEF n
  <2>2. /\ s \in Seq(P) /\ Len(s) = Len(ps) + 1
        /\ \A i \in 1..Len(ps) + 1 : i <= k => s[i] = ps[i]
        /\ s[k + 1] = x
        /\ \A i \in 1..Len(ps) + 1 : i > k + 1 => s[i] = ps[i - 1]
    <3>1. s \in Seq(P) BY <1>2, <2>1, InsertAt
    <3>2. Len(s) = Len(ps) + 1 BY <1>2, <2>1, InsertAt
    <3>3. s[k + 1] = x BY <1>2, <2>1, InsertAt
    <3>4. \A i \in 1..Len(ps) + 1 : i <= k => s[i] = ps[i] BY <1>2, <2>1, InsertAt
    <3>5. \A i \in 1..Len(ps) + 1 : i > k + 1 => s[i] = ps[i - 1] BY <1>2, <2>1, InsertAt
    <3> QED BY <3>1, <3>2, <3>3, <3>4, <3>5
  <2> QED BY <2>2 DEF n
<1>4. PICK e : e = [m \in 1..n |-> ps[m].id] OBVIOUS
<1>5. /\ \A m, l \in 1..n : e[m] = e[l] => m = l
      /\ \A m \in 1..n : e[m] # x.id /\ e[m] = ps[m].id
      /\ Ids(ps) = {e[m] : m \in 1..n}
  BY <1>4 DEF UniqueIds, Ids
<1>6. /\ \A m \in 1..n + 1 : m <= k => m \in 1..n /\ s[m].id = e[m]
      /\ s[k + 1].id = x.id
      /\ \A m \in 1..n + 1 : m > k + 1 => m - 1 \in 1..n /\ s[m].id = e[m - 1]
  <2>1. \A m \in 1..n + 1 : m <= k => m \in 1..n BY <1>1
  <2>2. \A m \in 1..n + 1 : m > k + 1 => m - 1 \in 1..n BY <1>1
  <2> QED BY <1>3, <1>5, <2>1, <2>2
<1> HIDE DEF n
<1>7. ASSUME NEW i \in 1..n + 1, NEW j \in 1..n + 1, s[i].id = s[j].id PROVE i = j
  BY <1>1, <1>5, <1>6, <1>7
<1>8. ASSUME NEW i \in 1..n PROVE \E j \in 1..n + 1 : s[j].id = e[i]
  <2>1. CASE i <= k BY <1>1, <1>6, <2>1
  <2>2. CASE i > k
    <3>1. i + 1 \in 1..n + 1 /\ s[i + 1].id = e[i] BY <1>1, <1>6, <2>2
    <3> QED BY <3>1
  <2> QED BY <1>1, <2>1, <2>2
<1>9. UniqueIds(s) BY <1>3, <1>7 DEF UniqueIds
<1>11. Ids(s) = {s[i].id : i \in 1..n + 1} BY <1>3 DEF Ids
<1>10. Ids(ps) \subseteq Ids(s) BY <1>5, <1>8, <1>11
<1> QED BY <1>2, <1>3, <1>9, <1>10

\* One phase less.
LEMMA RemainingIds ==
    ASSUME NEW P, NEW ps \in Seq(P), NEW k \in 1..Len(ps), UniqueIds(ps)
    PROVE  /\ Removal(ps, k) \in Seq(P) /\ UniqueIds(Removal(ps, k))
           /\ Ids(Removal(ps, k)) = Ids(ps) \ {ps[k].id}
<1> DEFINE n == Len(ps)
<1>1. n \in Nat /\ k \in Int /\ 1 <= k /\ k <= n OBVIOUS
<1>2. PICK s : s = Removal(ps, k) OBVIOUS
<1>3. /\ s \in Seq(P) /\ Len(s) = n - 1
      /\ \A i \in 1..n - 1 : s[i] = IF i < k THEN ps[i] ELSE ps[i + 1]
  BY <1>2, DropAt
<1>4. PICK e : e = [m \in 1..n |-> ps[m].id] OBVIOUS
<1>5. /\ \A m, l \in 1..n : e[m] = e[l] => m = l
      /\ \A m \in 1..n : e[m] = ps[m].id
      /\ Ids(ps) = {e[m] : m \in 1..n}
  BY <1>4 DEF UniqueIds, Ids
<1>6. \A m \in 1..n - 1 : s[m].id = IF m < k THEN e[m] ELSE e[m + 1] BY <1>1, <1>3, <1>5
<1> HIDE DEF n
<1>7. ASSUME NEW i \in 1..n - 1, NEW j \in 1..n - 1, s[i].id = s[j].id PROVE i = j
  BY <1>1, <1>5, <1>6, <1>7
<1>8. ASSUME NEW i \in 1..n, i # k PROVE \E j \in 1..n - 1 : s[j].id = e[i]
  <2>1. CASE i < k BY <1>1, <1>6, <2>1
  <2>2. CASE i > k
    <3>1. i - 1 \in 1..n - 1 /\ s[i - 1].id = e[i] BY <1>1, <1>6, <2>2
    <3> QED BY <3>1
  <2> QED BY <1>1, <1>8, <2>1, <2>2
<1>9. ASSUME NEW i \in 1..n - 1 PROVE \E j \in 1..n : j # k /\ s[i].id = e[j]
  <2>1. CASE i < k BY <1>1, <1>6, <2>1
  <2>2. CASE i >= k
    <3>1. i + 1 \in 1..n /\ s[i].id = e[i + 1] BY <1>1, <1>6, <2>2
    <3> QED BY <1>1, <2>2, <3>1
  <2> QED BY <1>1, <2>1, <2>2
<1>10. UniqueIds(s) BY <1>3, <1>7 DEF UniqueIds
<1>11. k \in 1..n /\ e[k] = ps[k].id BY <1>1, <1>5
<1>12. Ids(s) = {s[i].id : i \in 1..n - 1} BY <1>3 DEF Ids
<1>13. Ids(s) = Ids(ps) \ {ps[k].id} BY <1>5, <1>8, <1>9, <1>11, <1>12
<1> QED BY <1>2, <1>3, <1>10, <1>13

PhaseDocs == [id : Nat \ {0}, gate : Gate]

\* The document with other phases, and others opened by hand.
Replanned(doc, s, A) == [doc EXCEPT !.phases = s, !.advanced = A]

LEMMA DocOf ==
    ASSUME NEW doc \in PlanDocs
    PROVE  /\ doc.phases \in Seq(PhaseDocs) /\ PhaseIds(doc) = Ids(doc.phases)
           /\ ValidPlan(doc) <=> UniqueIds(doc.phases) /\ doc.advanced \subseteq Ids(doc.phases)
           /\ doc.advanced \in SUBSET (Nat \ {0})
           /\ \A s \in Seq(PhaseDocs), A \in SUBSET (Nat \ {0}) :
                 /\ Replanned(doc, s, A) \in PlanDocs
                 /\ Replanned(doc, s, A).phases = s /\ Replanned(doc, s, A).advanced = A
<1> DEFINE X == Seq(PhaseDocs)
<1>1. PlanDocs = [status : PlanStatus, priority : 0..3, advanced : SUBSET (Nat \ {0}), phases : X]
  BY DEF PlanDocs, PhaseDocs
<1>2. doc.phases \in Seq(PhaseDocs) BY <1>1
<1>3. DOMAIN doc.phases = 1..Len(doc.phases) BY <1>2
<1>4. PhaseIds(doc) = Ids(doc.phases) BY <1>3 DEF PhaseIds, Ids
<1>5. ValidPlan(doc) <=> UniqueIds(doc.phases) /\ doc.advanced \subseteq Ids(doc.phases)
  BY <1>3 DEF ValidPlan, UniqueIds, Ids
<1> HIDE DEF X
<1>6. ASSUME NEW s \in X, NEW A \in SUBSET (Nat \ {0})
      PROVE  /\ Replanned(doc, s, A) \in PlanDocs
             /\ Replanned(doc, s, A).phases = s /\ Replanned(doc, s, A).advanced = A
  BY <1>1 DEF Replanned
<1>7. doc.advanced \in SUBSET (Nat \ {0}) BY <1>1
<1> QED BY <1>2, <1>4, <1>5, <1>6, <1>7 DEF X

\* What an edit needs to give a valid document that keeps what is open.
LEMMA SoundWith ==
    ASSUME NEW doc \in PlanDocs, ValidPlan(doc), NEW s \in Seq(PhaseDocs), UniqueIds(s),
           NEW A \in SUBSET (Nat \ {0}), A \subseteq Ids(s), doc.advanced \cap Ids(s) \subseteq A
    PROVE  /\ Replanned(doc, s, A) \in PlanDocs /\ ValidPlan(Replanned(doc, s, A))
           /\ doc.advanced \cap PhaseIds(Replanned(doc, s, A)) \subseteq Replanned(doc, s, A).advanced
<1> DEFINE next == Replanned(doc, s, A)
<1>1. next \in PlanDocs /\ next.phases = s /\ next.advanced = A BY DocOf
<1> SUFFICES /\ next \in PlanDocs /\ ValidPlan(next)
             /\ doc.advanced \cap PhaseIds(next) \subseteq next.advanced
  OBVIOUS
<1> HIDE DEF next
<1>2. ValidPlan(next) /\ PhaseIds(next) = Ids(s) BY <1>1, DocOf
<1> QED BY <1>1, <1>2

LEMMA EditsAreSound ==
    ASSUME NEW doc \in PlanDocs, ValidPlan(doc), NEW e \in Menu, Takes(doc, e)
    PROVE  /\ Edited(doc, e) \in PlanDocs /\ ValidPlan(Edited(doc, e))
           /\ doc.advanced \cap PhaseIds(Edited(doc, e)) \subseteq Edited(doc, e).advanced
<1> DEFINE ps == doc.phases
<1>0. /\ ps \in Seq(PhaseDocs) /\ UniqueIds(ps) /\ PhaseIds(doc) = Ids(ps)
      /\ doc.advanced \in SUBSET (Nat \ {0}) /\ doc.advanced \subseteq Ids(ps)
      /\ \A ph \in Ids(ps) : At(doc, ph) \in 1..Len(ps) /\ ps[At(doc, ph)].id = ph
      /\ Ids(ps) \subseteq Nat \ {0}
  <2>1. \A k \in 1..Len(ps) : ps[k].id \in Nat \ {0} BY PhasesOfDoc
  <2>2. Ids(ps) \subseteq Nat \ {0} BY <2>1 DEF Ids
  <2>3. /\ ps \in Seq(PhaseDocs) /\ UniqueIds(ps) /\ PhaseIds(doc) = Ids(ps)
        /\ doc.advanced \in SUBSET (Nat \ {0}) /\ doc.advanced \subseteq Ids(ps)
    BY DocOf, Zenon
  <2>4. \A ph \in Ids(ps) : At(doc, ph) \in 1..Len(ps) /\ ps[At(doc, ph)].id = ph
    BY <2>3, PhasesOfDoc
  <2> QED BY <2>2, <2>3, <2>4
<1>1. CASE e.op = "add"
  <2>1. e.gate \in Gate /\ e.after \in BOOLEAN /\ e.phase \in Ids(ps) \cup {0}
    <3>1. e \in [op : {"add"}, phase : Nat, after : BOOLEAN, gate : Gate]
      BY <1>1, SchedulingAssumption DEF PlanEdits
    <3>2. e.phase \in PhaseIds(doc) \cup {0} BY <1>1 DEF Takes, Outside
    <3> QED BY <1>0, <3>1, <3>2
  <2> DEFINE x == [id |-> NextPhase(doc), gate |-> e.gate]
             k == IF e.phase = Outside THEN Len(ps) ELSE At(doc, e.phase) - (IF e.after THEN 0 ELSE 1)
             s == Insertion(ps, x, k)
  <2>2. x \in PhaseDocs /\ x.id \notin Ids(ps) BY <1>0, <2>1, NextPhaseIsFree DEF PhaseDocs
  <2>3. k \in 0..Len(ps)
    <3>1. Len(ps) \in Nat BY <1>0
    <3>2. e.phase # Outside => At(doc, e.phase) \in 1..Len(ps) BY <1>0, <2>1 DEF Outside
    <3> QED BY <2>1, <3>1, <3>2
  <2>4. Edited(doc, e) = [doc EXCEPT !.phases = s] BY <1>1 DEF Edited, Inserted, Insertion
  <2> HIDE DEF x, k
  <2>5. s \in Seq(PhaseDocs) /\ UniqueIds(s) /\ Ids(ps) \subseteq Ids(s)
    <3> HIDE DEF ps
    <3> QED BY <1>0, <2>2, <2>3, InsertedIds
  <2> HIDE DEF s
  <2>6. Edited(doc, e) = Replanned(doc, s, doc.advanced)
    BY <2>4 DEF PlanDocs, Replanned
  <2> QED BY <1>0, <2>5, <2>6, SoundWith
<1>2. CASE e.op = "remove"
  <2>1. e.phase \in Ids(ps) BY <1>0, <1>2 DEF Takes
  <2> DEFINE k == At(doc, e.phase)
             s == Removal(ps, k)
             A == doc.advanced \ {e.phase}
  <2>2. k \in 1..Len(ps) /\ ps[k].id = e.phase BY <1>0, <2>1
  <2>3. Edited(doc, e) = Replanned(doc, s, A)
    BY <1>2 DEF Edited, Without, Removal, PlanDocs, Replanned
  <2> HIDE DEF k
  <2>4. s \in Seq(PhaseDocs) /\ UniqueIds(s) /\ Ids(s) = Ids(ps) \ {e.phase}
    <3> HIDE DEF ps
    <3> QED BY <1>0, <2>2, RemainingIds
  <2> HIDE DEF s
  <2>5. A \in SUBSET (Nat \ {0}) /\ A \subseteq Ids(s) /\ doc.advanced \cap Ids(s) \subseteq A
    BY <1>0, <2>4
  <2> HIDE DEF A
  <2> QED BY <2>3, <2>4, <2>5, SoundWith
<1>3. CASE e.op = "gate"
  <2>1. e.gate \in Gate /\ e.phase \in Ids(ps)
    <3>1. e \in [op : {"gate"}, phase : Nat, gate : Gate]
      BY <1>3, SchedulingAssumption DEF PlanEdits
    <3>2. e.phase \in PhaseIds(doc) BY <1>3 DEF Takes
    <3> QED BY <1>0, <3>1, <3>2
  <2> DEFINE k == At(doc, e.phase)
             s == [ps EXCEPT ![k].gate = e.gate]
  <2>2. k \in 1..Len(ps) BY <1>0, <2>1
  <2>3. Edited(doc, e) = [doc EXCEPT !.phases = s] BY <1>3 DEF Edited
  <2> HIDE DEF k
  <2>4. \A i \in 1..Len(ps) : ps[i] \in PhaseDocs BY <1>0, ElementOf
  <2>5. \A i \in 1..Len(ps) : s[i] \in PhaseDocs /\ s[i].id = ps[i].id
    BY <2>1, <2>2, <2>4 DEF PhaseDocs
  <2>6. s \in Seq(PhaseDocs) /\ Len(s) = Len(ps)
    <3>1. DOMAIN s = 1..Len(ps) /\ Len(ps) \in Nat BY <1>0
    <3>2. \A i \in 1..Len(ps) : s[i] \in PhaseDocs BY <2>5
    <3>3. s = [i \in 1..Len(ps) |-> s[i]] BY <1>0
    <3> HIDE DEF s, ps
    <3> QED BY <3>1, <3>2, <3>3
  <2>7. UniqueIds(s) /\ Ids(s) = Ids(ps)
    <3> HIDE DEF s
    <3> QED BY <1>0, <2>5, <2>6 DEF UniqueIds, Ids
  <2> HIDE DEF s
  <2>8. Edited(doc, e) = Replanned(doc, s, doc.advanced)
    BY <2>3 DEF PlanDocs, Replanned
  <2> QED BY <1>0, <2>6, <2>7, <2>8, SoundWith
<1>4. CASE e.op = "advance"
  <2>1. e.phase \in Ids(ps) BY <1>0, <1>4 DEF Takes
  <2> DEFINE A == doc.advanced \cup {e.phase}
  <2>2. Edited(doc, e) = Replanned(doc, ps, A) BY <1>4 DEF Edited, PlanDocs, Replanned
  <2>3. /\ A \in SUBSET (Nat \ {0}) /\ A \subseteq Ids(ps)
        /\ doc.advanced \cap Ids(ps) \subseteq A
    BY <1>0, <2>1
  <2> HIDE DEF A
  <2> QED BY <1>0, <2>2, <2>3, SoundWith
<1>5. CASE e.op \in {"status", "priority"}
  <2>1. e \in [op : {"status"}, status : PlanStatus] \cup [op : {"priority"}, priority : 0..3]
    BY <1>5, SchedulingAssumption DEF PlanEdits
  <2>2. /\ Edited(doc, e) \in PlanDocs /\ Edited(doc, e).phases = ps
        /\ Edited(doc, e).advanced = doc.advanced
    <3> DEFINE X == Seq([id : Nat \ {0}, gate : Gate])
    <3>1. PlanDocs = [status : PlanStatus, priority : 0..3, advanced : SUBSET (Nat \ {0}), phases : X]
      BY DEF PlanDocs
    <3> HIDE DEF X
    <3>2. CASE e.op = "status"
      <4>1. e.status \in PlanStatus BY <2>1, <3>2
      <4>2. Edited(doc, e) = [doc EXCEPT !.status = e.status] BY <3>2 DEF Edited
      <4> QED BY <3>1, <4>1, <4>2
    <3>3. CASE e.op = "priority"
      <4>1. e.priority \in 0..3 BY <2>1, <3>3
      <4>2. Edited(doc, e) = [doc EXCEPT !.priority = e.priority] BY <3>3 DEF Edited
      <4> QED BY <3>1, <4>1, <4>2
    <3> QED BY <1>5, <3>2, <3>3
  <2>3. PICK next : next = Edited(doc, e) OBVIOUS
  <2>4. next \in PlanDocs /\ next.phases = ps /\ next.advanced = doc.advanced BY <2>2, <2>3
  <2>5. ValidPlan(next) BY <1>0, <2>4, DocOf
  <2> QED BY <2>3, <2>4, <2>5
<1> QED BY <1>1, <1>2, <1>3, <1>4, <1>5, MenuIsOfEdits

---------------------------------------------------------------------------
(************************ Steps of the document ****************************)

LEMMA Publishing ==
    ASSUME SchedInv, NEW p \in Procs, EditSwap(p), rev' # rev
    PROVE  /\ SchedInv'
           /\ my[p].edit \in Menu /\ plan' = Edited(plan, my[p].edit) /\ Takes(plan, my[p].edit)
<1> DEFINE next == Edited(my[p].doc.plan, my[p].edit)
<1>1. /\ Current(p) /\ plan' = next /\ rev' = rev + 1 /\ Set(p, AtRest)
      /\ UNCHANGED <<status, archived, edits>> /\ my[p].pc = "publish"
  BY DEF EditSwap
<1>2. /\ my[p] \in Memory /\ ProcOK(p) /\ StoreOK BY DEF SchedInv, StoreOK
<1>3. /\ my[p].doc.plan = plan /\ my[p].edit \in Menu /\ Takes(plan, my[p].edit)
  BY <1>1, <1>2 DEF ProcOK, InStep, Based, Current
<1>4. plan' \in PlanDocs /\ ValidPlan(plan')
  <2>1. plan \in PlanDocs /\ ValidPlan(plan) BY <1>2 DEF StoreOK
  <2>2. PICK new : new = Edited(plan, my[p].edit) OBVIOUS
  <2>3. new \in PlanDocs /\ ValidPlan(new) BY <1>3, <2>1, <2>2, EditsAreSound
  <2>4. plan' = new BY <1>1, <1>3, <2>2
  <2> QED BY <2>3, <2>4
<1>5. my' \in [Procs -> Memory] /\ my'[p] = AtRest
  BY <1>1, <1>2, Resting DEF Set, StoreOK
<1>6. StoreOK'
  <2>1. PICK new : new = plan' OBVIOUS
  <2>2. ValidPlan(plan)' BY <1>4 DEF ValidPlan
  <2> QED BY <1>1, <1>2, <1>4, <1>5, <2>2 DEF StoreOK
<1>7. Moving BY <1>1, <1>2 DEF Moving, Growing, StoreOK
<1>8. ASSUME NEW q \in Procs \ {p} PROVE ProcOK(q)'
  <2>1. my'[q] = my[q] BY <1>1, <1>2 DEF Set, StoreOK
  <2>2. Present' = Present BY <1>1 DEF Present
  <2>3. Bystander(q) BY <1>1, <2>1, <2>2 DEF Bystander
  <2> QED BY <1>6, <1>7, <2>3, Aside
<1>9. ProcOK(p)' BY <1>5, Resting
<1> QED BY <1>1, <1>3, <1>6, <1>8, <1>9 DEF SchedInv

LEMMA NotPublishing ==
    ASSUME SchedInv, NEW p \in Procs, EditSwap(p), rev' = rev
    PROVE  SchedInv'
<1> DEFINE r == [my[p] EXCEPT !.pc = "load", !.doc = Unread]
<1>1. /\ Set(p, r) \/ Set(p, AtRest)
      /\ UNCHANGED <<plan, rev, status, archived, edits>> /\ my[p].pc = "publish"
  <2>1. rev + 1 # rev BY DEF SchedInv, StoreOK
  <2> QED BY <2>1 DEF EditSwap
<1>2. my[p] \in Memory /\ ProcOK(p) /\ edits' \in 0..MaxEdits BY <1>1 DEF SchedInv, StoreOK
<1>3. r \in Memory BY <1>2 DEF Memory
<1>4. /\ r.pc = "load" /\ r.edit = my[p].edit /\ r.shown = my[p].shown /\ r.doc = Unread
      /\ r.tally = my[p].tally /\ r.queue = my[p].queue /\ r.since = my[p].since
  BY <1>2 DEF Memory
<1> HIDE DEF r
<1>5. Present' = Present BY <1>1 DEF Present
<1>6. my[p].queue = {} /\ my[p].tally = Unread
  BY <1>1, <1>2, MenuIsOfEdits DEF ProcOK, InStep
<1>7. my'[p] = r => ProcOK(p)'
  BY <1>1, <1>2, <1>4, <1>5, <1>6 DEF ProcOK, InStep, Grounded, Tallied, Vacated, Based
<1> QED BY <1>1, <1>2, <1>3, <1>7, Quiet, Rests

LEMMA EditedByOthers ==
    ASSUME SchedInv, OtherEdit
    PROVE  /\ SchedInv'
           /\ \E e \in Menu : plan' = Edited(plan, e) /\ Takes(plan, e)
<1>1. PICK e \in Menu : Takes(plan, e) /\ plan' = Edited(plan, e) BY DEF OtherEdit
<1>2. /\ rev' = rev + 1 /\ edits' = edits + 1 /\ edits < MaxEdits
      /\ UNCHANGED <<status, archived, my>> /\ StoreOK
  BY DEF OtherEdit, SchedInv
<1>3. plan' \in PlanDocs /\ ValidPlan(plan)'
  <2>1. plan \in PlanDocs /\ ValidPlan(plan) BY <1>2 DEF StoreOK
  <2>2. PICK new : new = Edited(plan, e) OBVIOUS
  <2>3. new \in PlanDocs /\ ValidPlan(new) BY <1>1, <2>1, <2>2, EditsAreSound
  <2>4. plan' = new BY <1>1, <2>2
  <2> QED BY <2>3, <2>4 DEF ValidPlan
<1>4. StoreOK' BY <1>2, <1>3, SchedulingAssumption DEF StoreOK
<1>5. Moving BY <1>2 DEF Moving, Growing, StoreOK
<1>6. ASSUME NEW q \in Procs PROVE ProcOK(q)'
  <2>1. Present' = Present BY <1>2 DEF Present
  <2>2. Bystander(q) BY <1>2, <2>1 DEF Bystander
  <2> QED BY <1>4, <1>5, <2>2, Aside
<1> QED BY <1>1, <1>4, <1>6 DEF SchedInv

---------------------------------------------------------------------------
(************************** Steps of the tasks *****************************)

\* Task t becomes st; what is over stays as it is.
LEMMA Touching ==
    ASSUME SchedInv, NEW t \in Tasks, NEW st \in Statuses, status[t] \notin Terminal, Touch(t, st),
           UNCHANGED <<plan, rev, archived, edits>>
    PROVE  SchedInv'
<1>1. status' = [status EXCEPT ![t] = st] /\ StoreOK BY DEF Touch, SchedInv
<1>2. ASSUME NEW q \in Procs
      PROVE  /\ my'[q] = [my[q] EXCEPT !.fresh = my[q].fresh /\ my[q].target # t,
                              !.since = IF status[t] = "absent" /\ my[q].pc # "idle"
                                           /\ my[q].edit.op = "remove"
                                        THEN my[q].since \cup {t} ELSE my[q].since]
             /\ my[q] \in Memory
  BY <1>1 DEF Touch, StoreOK, Memory
<1>3. ASSUME NEW q \in Procs
      PROVE  \E f \in BOOLEAN, s \in SUBSET Tasks :
                /\ my'[q] = [my[q] EXCEPT !.fresh = f, !.since = s]
                /\ f => my[q].fresh /\ my[q].target # t
                /\ my[q].since \subseteq s
                /\ status[t] = "absent" /\ my[q].pc # "idle" /\ my[q].edit.op = "remove" => t \in s
  <2> DEFINE f == my[q].fresh /\ my[q].target # t
             s == IF status[t] = "absent" /\ my[q].pc # "idle" /\ my[q].edit.op = "remove"
                  THEN my[q].since \cup {t} ELSE my[q].since
  <2>1. f \in BOOLEAN /\ s \in SUBSET Tasks /\ my[q].since \subseteq s BY ZenonT(60), <1>2 DEF Memory
  <2>2. my'[q] = [my[q] EXCEPT !.fresh = f, !.since = s] BY <1>2
  <2>3. f => my[q].fresh /\ my[q].target # t OBVIOUS
  <2>4. status[t] = "absent" /\ my[q].pc # "idle" /\ my[q].edit.op = "remove" => t \in s OBVIOUS
  <2> HIDE DEF f, s
  <2> QED BY <2>1, <2>2, <2>3, <2>4
<1>4. my' \in [Procs -> Memory]
  <2>1. my' = [q \in Procs |-> my'[q]] BY DEF Touch
  <2>2. ASSUME NEW q \in Procs PROVE my'[q] \in Memory
    <3>1. PICK f \in BOOLEAN, s \in SUBSET Tasks :
             my'[q] = [my[q] EXCEPT !.fresh = f, !.since = s]
      BY <1>3
    <3>2. my[q] \in Memory BY <1>2
    <3> QED BY <3>1, <3>2 DEF Memory
  <2> QED BY <2>1, <2>2
<1>5. StoreOK'
  <2>1. status' \in [Tasks -> Statuses \cup {"absent"}] BY <1>1 DEF StoreOK
  <2>2. t \notin archived BY <1>1 DEF StoreOK
  <2>3. archived \subseteq {u \in Tasks : status'[u] \in Terminal} BY <1>1, <2>2 DEF StoreOK
  <2> QED BY <1>1, <1>4, <2>1, <2>3 DEF StoreOK, ValidPlan
<1>6. Moving BY <1>1 DEF Moving, Growing, StoreOK
<1>7. Present' \ Present \subseteq {t} /\ (Present' # Present => status[t] = "absent")
  BY <1>1 DEF Present, StoreOK, Statuses
<1>8. ASSUME NEW q \in Procs PROVE ProcOK(q)'
  <2>0. PICK f \in BOOLEAN, s \in SUBSET Tasks :
                /\ my'[q] = [my[q] EXCEPT !.fresh = f, !.since = s]
                /\ f => my[q].fresh /\ my[q].target # t
                /\ my[q].since \subseteq s
                /\ status[t] = "absent" /\ my[q].pc # "idle" /\ my[q].edit.op = "remove" => t \in s
    BY <1>3
  <2>1. /\ my'[q].pc = my[q].pc /\ my'[q].edit = my[q].edit /\ my'[q].shown = my[q].shown
        /\ my'[q].doc = my[q].doc /\ my'[q].listing = my[q].listing /\ my'[q].tally = my[q].tally
        /\ my'[q].todo = my[q].todo /\ my'[q].queue = my[q].queue /\ my'[q].target = my[q].target
        /\ my'[q].first = my[q].first /\ my'[q].second = my[q].second
        /\ my'[q].fresh = f /\ my'[q].since = s
    BY ZenonT(60), <1>2, <2>0 DEF Memory
  <2>2. my'[q].fresh => my[q].fresh /\ my[q].target # t BY <2>0, <2>1
  <2>3. /\ my[q].since \subseteq my'[q].since
        /\ status[t] = "absent" /\ my[q].pc # "idle" /\ my[q].edit.op = "remove" => t \in my'[q].since
    BY <2>0, <2>1
  <2>4. my[q].pc = "swap" => my[q].target \in Tasks
    BY <1>2 DEF SchedInv, ProcOK, Grounded, Memory
  <2>5. Bystander(q) BY <1>1, <1>7, <2>1, <2>2, <2>3, <2>4 DEF Bystander, StoreOK
  <2> QED BY <1>5, <1>6, <2>5, Aside
<1> QED BY <1>5, <1>8 DEF SchedInv

LEMMA Archiving ==
    ASSUME SchedInv, NEW t \in Tasks, Archive(t)
    PROVE  SchedInv'
<1>1. /\ archived' = archived \cup {t} /\ status[t] \in Terminal
      /\ UNCHANGED <<plan, rev, status, my, edits>> /\ StoreOK
  BY DEF Archive, SchedInv
<1>2. StoreOK' BY <1>1 DEF StoreOK, ValidPlan
<1>3. Moving BY <1>1 DEF Moving, Growing, StoreOK
<1>4. ASSUME NEW q \in Procs PROVE ProcOK(q)'
  <2>1. Present' = Present BY <1>1 DEF Present
  <2>2. Bystander(q) BY <1>1, <2>1 DEF Bystander
  <2> QED BY <1>2, <1>3, <2>2, Aside
<1> QED BY <1>2, <1>4 DEF SchedInv

\* The claim that wins: its process rests, for the others the task is touched.
LEMMA WinningTheClaim ==
    ASSUME SchedInv, NEW p \in Procs, ClaimSwap(p), my[p].fresh
    PROVE  /\ SchedInv'
           /\ \A d \in DependsOn[my[p].target] : status[d] = "done"
<1>1. PICK t : t = my[p].target OBVIOUS
<1>2. /\ StoreOK /\ my[p].pc = "swap" /\ t \in my[p].queue /\ status[t] = "open" /\ t \in Tasks
      /\ \A d \in DependsOn[t] : status[d] = "done"
  BY <1>1 DEF SchedInv, ProcOK, Grounded, ClaimSwap, StoreOK, Memory
<1>3. /\ status' = [status EXCEPT ![t] = "claimed"] /\ UNCHANGED <<plan, rev, archived, edits>>
      /\ my' = [q \in Procs |-> IF q = p THEN AtRest ELSE
                                [my[q] EXCEPT !.fresh = @ /\ my[q].target # t]]
  BY <1>1 DEF ClaimSwap
<1>4. my'[p] = AtRest BY <1>3
<1>5. ASSUME NEW q \in Procs, q # p
      PROVE  /\ my[q] \in Memory
             /\ \E f \in BOOLEAN : /\ my'[q] = [my[q] EXCEPT !.fresh = f]
                                   /\ f => my[q].fresh /\ my[q].target # t
  <2> DEFINE f == my[q].fresh /\ my[q].target # t
  <2>1. my[q] \in Memory BY <1>2 DEF StoreOK
  <2>2. my'[q] = [my[q] EXCEPT !.fresh = f] BY <1>3, <1>5
  <2>3. f \in BOOLEAN BY <2>1 DEF Memory
  <2>4. f => my[q].fresh /\ my[q].target # t OBVIOUS
  <2> HIDE DEF f
  <2> QED BY <2>1, <2>2, <2>3, <2>4
<1>6. my' \in [Procs -> Memory]
  <2>1. my' = [q \in Procs |-> my'[q]] BY <1>3
  <2>2. ASSUME NEW q \in Procs, q # p PROVE my'[q] \in Memory
    <3>1. PICK f \in BOOLEAN : my'[q] = [my[q] EXCEPT !.fresh = f] BY <1>5, <2>2
    <3>2. my[q] \in Memory BY <1>5, <2>2
    <3> QED BY <3>1, <3>2 DEF Memory
  <2> QED BY <1>4, <2>1, <2>2, Resting
<1>7. StoreOK'
  <2>1. status' \in [Tasks -> Statuses \cup {"absent"}] BY <1>2, <1>3 DEF StoreOK, Statuses
  <2>2. t \notin archived BY <1>2 DEF StoreOK, Terminal
  <2>3. archived \subseteq {u \in Tasks : status'[u] \in Terminal} BY <1>2, <1>3, <2>2 DEF StoreOK
  <2> QED BY <1>2, <1>3, <1>6, <2>1, <2>3 DEF StoreOK, ValidPlan
<1>8. Moving BY <1>2, <1>3 DEF Moving, Growing, StoreOK, Terminal
<1>9. Present' = Present BY <1>2, <1>3 DEF Present, StoreOK
<1>10. ASSUME NEW q \in Procs, q # p PROVE ProcOK(q)'
  <2>0. PICK f \in BOOLEAN : /\ my'[q] = [my[q] EXCEPT !.fresh = f]
                             /\ f => my[q].fresh /\ my[q].target # t
    BY <1>5, <1>10
  <2>1. /\ my'[q].pc = my[q].pc /\ my'[q].edit = my[q].edit /\ my'[q].shown = my[q].shown
        /\ my'[q].doc = my[q].doc /\ my'[q].listing = my[q].listing /\ my'[q].tally = my[q].tally
        /\ my'[q].todo = my[q].todo /\ my'[q].queue = my[q].queue /\ my'[q].target = my[q].target
        /\ my'[q].first = my[q].first /\ my'[q].second = my[q].second
        /\ my'[q].since = my[q].since /\ my'[q].fresh = f
    BY <1>5, <1>10, <2>0 DEF Memory
  <2>2. my'[q].fresh => my[q].fresh /\ my[q].target # t BY <2>0, <2>1
  <2>3. my[q].pc = "swap" => my[q].target \in Tasks
    BY <1>5, <1>10 DEF SchedInv, ProcOK, Grounded, Memory
  <2>4. Bystander(q) BY <1>2, <1>3, <1>9, <2>1, <2>2, <2>3 DEF Bystander, StoreOK
  <2> QED BY <1>7, <1>8, <2>4, Aside
<1>11. ProcOK(p)' BY <1>4, Resting
<1> QED BY <1>1, <1>2, <1>7, <1>10, <1>11 DEF SchedInv

---------------------------------------------------------------------------
(****************************** The theorems *******************************)

LEMMA StartsSound == ASSUME Init PROVE SchedInv
<1>1. \A p \in Procs : my[p] = AtRest BY DEF Init
<1>2. AtRest \in Memory BY Resting
<1>3. StoreOK
  <2>1. plan \in PlanDocs /\ ValidPlan(plan) /\ 0 \in 0..MaxEdits BY SchedulingAssumption DEF Init
  <2>2. my \in [Procs -> Memory] BY <1>2 DEF Init
  <2>3. status \in [Tasks -> Statuses \cup {"absent"}] BY DEF Init, Statuses
  <2> QED BY <2>1, <2>2, <2>3 DEF Init, StoreOK
<1>4. ASSUME NEW p \in Procs PROVE ProcOK(p)
  <2>1. /\ my[p].pc = "idle" /\ my[p].edit = Idle /\ my[p].shown = <<>>
        /\ my[p].doc = Unread /\ my[p].tally = Unread /\ my[p].queue = {} /\ my[p].todo = {}
    BY <1>1 DEF AtRest
  <2>2. Idle.op # "remove" BY DEF Idle
  <2> QED BY <2>1, <2>2 DEF ProcOK, InStep, Grounded, Tallied, Vacated, Based
<1> QED BY <1>3, <1>4 DEF SchedInv

\* Every command of a process, and every step of the others.
LEMMA CommandsKeep ==
    ASSUME SchedInv, NEW p \in Procs, Schedule(p) \/ Edit(p)
    PROVE  SchedInv'
<1>1. CASE NextList(p) BY <1>1, ListingTheOpen
<1>2. CASE NextShow(p) BY <1>2, ShowingOne
<1>3. CASE ReadPlan(p) BY <1>3, ReadingThePlan
<1>4. CASE ListFirst(p) BY <1>4, ListingIssues
<1>5. CASE ListSecond(p) BY <1>5, ListingArchive
<1>6. CASE ReadDependency(p) BY <1>6, ReadingADependency
<1>7. CASE Verdict(p) BY <1>7, GivingAVerdict
<1>8. CASE StartClaiming(p) BY <1>8, EndingTheSelection
<1>9. CASE ClaimLoad(p) BY <1>9, LoadingACandidate
<1>10. CASE ClaimSwap(p)
  <2>1. CASE my[p].fresh BY <1>10, <2>1, WinningTheClaim
  <2>2. CASE ~my[p].fresh BY <1>10, <2>2, Skipping DEF ClaimSwap
  <2> QED BY <2>1, <2>2
<1>11. CASE NextEnds(p) BY <1>11, Rests DEF NextEnds
<1>12. CASE StartEdit(p) BY <1>12, StartingAnEdit
<1>13. CASE EditLoad(p) BY <1>13, LoadingTheDocument
<1>14. CASE EditSwap(p) BY <1>14, Publishing, NotPublishing
<1>15. CASE ShowPlan(p) BY <1>15, StartingToShow
<1>16. CASE ViewShown(p) BY <1>16, Rests DEF ViewShown
<1> QED BY <1>1, <1>2, <1>3, <1>4, <1>5, <1>6, <1>7, <1>8, <1>9, <1>10, <1>11, <1>12, <1>13,
           <1>14, <1>15, <1>16 DEF Schedule, Edit, Listing

LEMMA OthersKeep ==
    ASSUME SchedInv, NEW t \in Tasks, AddTask(t) \/ Work(t) \/ Archive(t)
    PROVE  SchedInv'
<1>1. CASE AddTask(t)
  <2>1. status[t] \notin Terminal /\ "open" \in Statuses BY <1>1 DEF AddTask, Terminal, Statuses
  <2>2. Touch(t, "open") /\ UNCHANGED <<plan, rev, archived, edits>> BY <1>1 DEF AddTask
  <2> QED BY <2>1, <2>2, Touching
<1>2. CASE Work(t)
  <2>1. PICK st \in Statuses : Touch(t, st) /\ status[t] \in {"open", "claimed"}
    BY <1>2 DEF Work, Take, Finish, Return, Cancel, Statuses
  <2>2. status[t] \notin Terminal /\ UNCHANGED <<plan, rev, archived, edits>>
    BY <1>2, <2>1 DEF Work, Terminal
  <2> QED BY <2>1, <2>2, Touching
<1>3. CASE Archive(t) BY <1>3, Archiving
<1> QED BY <1>1, <1>2, <1>3

LEMMA StepsKeep == ASSUME SchedInv, [Next]_vars PROVE SchedInv'
<1>1. CASE UNCHANGED vars
  <2>1. UNCHANGED <<plan, rev, status, archived, my, edits>> BY <1>1 DEF vars
  <2>2. StoreOK' BY <2>1 DEF SchedInv, StoreOK, ValidPlan
  <2>3. Moving BY <2>1 DEF Moving, Growing, SchedInv, StoreOK
  <2>4. Present' = Present BY <2>1 DEF Present
  <2>5. \A q \in Procs : Bystander(q) BY <2>1, <2>4 DEF Bystander
  <2>6. \A q \in Procs : ProcOK(q)' BY <2>2, <2>3, <2>5, Aside
  <2> QED BY <2>2, <2>6 DEF SchedInv
<1>2. CASE Next
  <2>1. Schedulers \subseteq Procs /\ Editors \subseteq Procs BY DEF Procs
  <2> QED BY <1>2, <2>1, CommandsKeep, OthersKeep, EditedByOthers DEF Next
<1> QED BY <1>1, <1>2

\* The invariant of the scheduler and the edits, which the others follow from.
THEOREM SchedulerIsSound == Spec => []SchedInv
<1>1. Init => SchedInv BY StartsSound
<1>2. SchedInv /\ [Next]_vars => SchedInv' BY StepsKeep
<1> QED BY <1>1, <1>2, PTL DEF Spec

\* phaseCounts and ShowPlanView list issues/ and archive/ apart; a gate is
\* taken for open only if it was open at one of the two moments, and for
\* closed only if it was closed at one.
THEOREM GatesAreJudgedAsSeen == Spec => []JudgedAsSeen
<1>1. SchedInv => JudgedAsSeen BY DEF SchedInv, ProcOK, Tallied, JudgedAsSeen
<1> QED BY <1>1, SchedulerIsSound, PTL

\* RemovePhase looks for tasks long before its CAS; no task that was there
\* when the command began loses its phase.
THEOREM PhasesAreRemovedEmpty == Spec => RemovedWasEmpty
<1> DEFINE Left ==
        \A p \in Editors :
          my[p].pc = "publish" /\ my[p].edit.op = "remove" /\ rev' # rev
          /\ my'[p].pc = "idle" =>
              \A t \in Present : PhaseOf[t] = my[p].edit.phase => t \in my[p].since
<1>1. SchedInv => Left BY DEF SchedInv, ProcOK, Vacated, Procs
<1>2. [][Left]_vars => RemovedWasEmpty BY PTL DEF RemovedWasEmpty
<1> QED BY <1>1, <1>2, SchedulerIsSound, PTL

\* The statuses of dependencies are cached before the claim; all the same they
\* are done when it is made.
THEOREM ClaimsRestOnDone == Spec => DependenciesDone
<1> DEFINE Rested ==
        \A p \in Schedulers :
          ClaimSwap(p) /\ my[p].fresh =>
              \A d \in DependsOn[my[p].target] : status[d] = "done"
<1>1. SchedInv => Rested BY WinningTheClaim DEF Procs
<1>2. [][Rested]_vars => DependenciesDone BY PTL DEF DependenciesDone
<1> QED BY <1>1, <1>2, SchedulerIsSound, PTL

LEMMA OnlyEditsPublish ==
    ASSUME Next, rev' # rev
    PROVE  (\E p \in Procs : EditSwap(p)) \/ OtherEdit
BY DEF Next, Procs, Schedule, Edit, Listing, NextList, NextShow, ReadPlan, ListFirst, ListSecond,
       ReadDependency, Verdict, StartClaiming, ClaimLoad, ClaimSwap, NextEnds, StartEdit, EditLoad,
       ShowPlan, ViewShown, AddTask, Work, Archive

\* MutatePlan publishes a whole document: what it publishes is one edit of the
\* document that is there, and leaves what was opened by hand open.
THEOREM EditsAreNotLost == Spec => NoEditLost
<1> DEFINE Kept ==
        rev' # rev =>
        /\ ValidPlan(plan')
        /\ \E edit \in Menu : plan' = Edited(plan, edit)
        /\ plan.advanced \cap PhaseIds(plan') \subseteq plan'.advanced
<1>1. SchedInv /\ [Next]_vars => Kept
  <2> SUFFICES ASSUME SchedInv, [Next]_vars, rev' # rev
               PROVE  /\ ValidPlan(plan')
                      /\ \E edit \in Menu : plan' = Edited(plan, edit)
                      /\ plan.advanced \cap PhaseIds(plan') \subseteq plan'.advanced
    OBVIOUS
  <2>1. (\E p \in Procs : EditSwap(p)) \/ OtherEdit BY OnlyEditsPublish DEF vars
  <2>2. PICK e \in Menu : plan' = Edited(plan, e) /\ Takes(plan, e)
    BY <2>1, Publishing, EditedByOthers
  <2>3. plan \in PlanDocs /\ ValidPlan(plan) BY DEF SchedInv, StoreOK
  <2>4. /\ ValidPlan(Edited(plan, e))
        /\ plan.advanced \cap PhaseIds(Edited(plan, e)) \subseteq Edited(plan, e).advanced
    BY <2>2, <2>3, EditsAreSound
  <2> QED BY <2>2, <2>4
<1>2. [][Kept]_vars => NoEditLost BY PTL DEF NoEditLost
<1> QED BY <1>1, <1>2, SchedulerIsSound, PTL DEF Spec
===========================================================================
