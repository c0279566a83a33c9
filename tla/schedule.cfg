SPECIFICATION Spec
CONSTANTS
    x1 = x1
    Tasks = {1, 2, 3}
    PhaseOf <- MCPhaseOf
    SeqOf <- MCSeqOf
    Priority <- MCPriority
    DependsOn <- MCDependsOn
    Plans <- OnePlan
    Schedulers = {x1}
    Editors = {x1}
    AddedLater = {3}
    MaxAttempts = 2
    CASAttempts = 1
    Unruly = {1}
    Menu <- MCMenu
    MaxEdits = 2
INVARIANTS  JudgedAsSeen
PROPERTIES RemovedWasEmpty DependenciesDone NoEditLost
