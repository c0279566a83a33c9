SPECIFICATION TrafficSpec
CONSTANTS
 c1 = c1 c2 = c2 c3 = c3 k1 = k1 k2 = k2 r1 = r1 r2 = r2
 n1 = n1 n2 = n2
 Parts = {"sessions", "control", "delivery", "ledger"}
 Controls = {k1, k2}
 Clients = {c1, c3}
 Routes = {r1, r2}
 RouteOf <- MCRouteOf
 NoControl = NoControl
 Sources = {c1, c2}
 Deadlines = {"timer", "owner"}
 Readers = {c1, c2, c3}
 Budget = 2
 MaxCorrections = 2
 Nodes = {n1, n2}
 None = None
 Lease = 0
 Conns = {c1, c2, c3}
 KindOf <- MCKindOf
 Roaming = {c1, c2}
 Limit = 2
 Ids = {1, 2, 3, 4}
 MaxTimers = 1
 Mortal = {n2}
 StallsShared = FALSE
INVARIANTS
 OpenIsListed WaitingIsWatched 
PROPERTIES LostIsClosed  IsOwnerTable
 StalledControlCloses MessageEnds
CHECK_DEADLOCK FALSE
