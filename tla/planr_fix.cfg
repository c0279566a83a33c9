SPECIFICATION PlanFilesSpec
CONSTANTS
 p1 = p1 p2 = p2
 Procs = {p1, p2}
 Phases = {0, 1, 2}
 Absent = Absent
 PlanMd = PlanMd
 Nobody = Nobody
 Drafts <- MCDrafts
 DepLists <- MCDepLists
 Editors = {p1}
 Forceful = {p2}
 FixBeside = TRUE
 MaxCommands = 3
PROPERTIES FixOnlyRebuilds
CHECK_DEADLOCK FALSE
