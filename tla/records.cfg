SPECIFICATION RecordsSpec
CONSTANTS
    Parts = {"leases", "numbers", "dependencies"}
    s1 = s1  s2 = s2  s3 = s3  a1 = a1  a2 = a2
    p1 = p1  p2 = p2  p3 = p3  p4 = p4  w1 = w1  w2 = w2
    n1 = n1  n2 = n2  i1 = i1  i2 = i2  i3 = i3
    Agents = {a1, a2}
    Worktrees = {w1, w2}
    HookSessions = {s1}
    TTL = 1
    MaxClock = 2
    MaxTools = 1
    TornWrites = FALSE
    Adders = {n1, n2}
    Kinds = {"issue", "plan", "decision"}
    MaxTries = 2
    MaxDocs = 3
    Ids = {i1, i2, i3}
    Procs = {p1, p2}
    Sessions = {s1}
    Nobody = Nobody
    SessionOf <- OneSession
    Blockers = {p1}

    
PROPERTIES
    SearchEnds
    
    ExclusiveWorktree
    NothingLost
    GivesUpCrowded
CHECK_DEADLOCK FALSE
