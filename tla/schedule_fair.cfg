SPECIFICATION FairSpec
CONSTANTS
    x1 = x1
    Tasks = {1, 2, 3}
    PhaseOf <- MCOutside
    SeqOf <- MCSeqOf
    Priority <- MCPriority
    DependsOn <- MCDependsOn
    Plans <- BothPlans
    Schedulers = {x1}
    Editors = {}
    AddedLater = {3}
    MaxAttempts = 2
    CASAttempts = 1
    Unruly = {1}
    Menu <- MCMenu
    MaxEdits = 0
PROPERTIES NothingLeftLying
