SPECIFICATION ReapSpec
CONSTANTS
    s1 = s1  s2 = s2  s3 = s3  a1 = a1  a2 = a2
    p1 = p1  p2 = p2  p3 = p3  w1 = w1  w2 = w2  w3 = w3
    Sessions = {s1, s3}
    Agents = {a1, a2}
    Nobody = Nobody
    Worktrees = {w1, w2, w3}
    Procs = {p1, p3}
    SessionOf <- OneEach
    WorktreeOf <- Apart
    AgentOf <- MCAgentOf
    HookSessions = {s1}
    TTL = 0
    MaxClock = 1
    MaxTools = 1
    TornWrites = TRUE
    Ids = {1}
    Reapers = {p3}
    MaxReaps = 1
    SlowReads = FALSE
INVARIANTS
    DeadIsTargeted
PROPERTIES
    AliveKeepsIssue
CHECK_DEADLOCK FALSE
