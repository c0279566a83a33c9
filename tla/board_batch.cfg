SPECIFICATION FairSpec
CONSTANTS
    s1 = s1  s2 = s2  a1 = a1  a2 = a2  p1 = p1  p2 = p2  p3 = p3
    Sessions = {s1, s2}
    Agents = {a1, a2}
    Procs = {p1, p2}
    Nobody = Nobody
    SessionOf <- MCSessionOf
    AgentOf <- MCAgentOf
    NumIds = 2
    LockAttempts = 2
    MaxRetry = 1
    MaxCommands = 3
    MineMayForce = FALSE
PROPERTIES
    MineKeepsWorking
    CommandsReturn
CHECK_DEADLOCK FALSE
