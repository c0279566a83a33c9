--------------------------- MODULE MCScheduling ---------------------------
(* A small instance of Scheduling: a plan of two phases with three tasks,  *)
(* one of them outside the plan or added later, and a dependency.          *)
EXTENDS Scheduling

CONSTANTS x1

MCPhaseOf   == <<1, 2, 1>>
MCOutside   == <<1, 2, 0>>
MCSeqOf     == <<20, 10, 10>>
MCPriority  == <<1, 2, 3>>
MCDependsOn == <<{}, {1}, {}>>

\* Two phases; the gate of the first counts once another is put in front.
MCPlan(g) == [status |-> "active", priority |-> 2, advanced |-> {},
              phases |-> <<[id |-> 1, gate |-> "manual"], [id |-> 2, gate |-> g]>>]

OnePlan == {MCPlan("any_done")}
BothPlans == {MCPlan("any_done"), MCPlan("all_done")}

MCMenu == {[op |-> "add", phase |-> 1, after |-> FALSE, gate |-> "all_done"],
           [op |-> "gate", phase |-> 2, gate |-> "all_done"],
           [op |-> "remove", phase |-> 1], [op |-> "advance", phase |-> 1],
           [op |-> "status", status |-> "closed"]}
===========================================================================
