------------------------------ MODULE MCPlanr -----------------------------
EXTENDS PlanFiles

CONSTANTS p1, p2

Planned(deps) == [status |-> "planned", title |-> "title", deps |-> deps]

\* Two phases of which the second needs the first, or one phase.
MCDrafts == { [i \in Phases |-> CASE i = 0 -> Planned({})
                                  [] i = 1 /\ two -> Planned({0})
                                  [] OTHER -> Absent] : two \in BOOLEAN }

MCDepLists == {{}, {0}, {1}}
===========================================================================
