\* Bob goes back to the value he started from.
CONSTANTS
    o1 = o1  o2 = o2  alice = alice  bob = bob  k1 = k1
    d1 = d1  d2 = d2  t1 = t1
    p1 = p1  p2 = p2  b1 = b1  x1 = x1
    i1 = i1  i2 = i2
    Missing = Missing  NoBranch = NoBranch  NoRequest = NoRequest
    Keys = {k1}
    Values = {d1, d2, t1}
    Kind <- Kinds
    Owner <- Overlays
    Events = {1, 2, 3, 4, 5}
    Urgent = {4}
    Projects = {p1, p2}
    ActiveProject = p1
    MaxOverlays = 2
    MaxConflicts = 2
    MaxBranches = 1
    MaxLinks = 1
    LeaseResources = {x1}
    Holders = {alice, bob}
    Branches = {b1}
    Times = {0, 1, 2}
    PageLimits = {1, 2}
    Offered <- Alternating
    Instances = {i1, i2}
    Starts <- OneStart
    Empty <- NoSpace
    Valid <- ValidSpace
    Apply <- ApplySpace
    Requests <- OfferedRequests
    MaxRoots = 11
    MaxFaults = 0
SPECIFICATION SnapshotsSpec
CHECK_DEADLOCK FALSE
INVARIANT NoLostUpdate
