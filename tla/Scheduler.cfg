\* Three agents at the limits of their lanes and of the queue, and waits
\* shorter and longer than the lease.
CONSTANTS
    g1 = g1  g2 = g2  g3 = g3
    a1 = a1  a2 = a2  a3 = a3
    j1 = j1  j2 = j2  j3 = j3  h1 = h1
    Grants = {g1, g2, g3}
    Agents = {a1, a2, a3}
    Jobs <- ThreeAgentJobs
    HostJobs <- OneHostJob
    Size <- UnequalSizes
    Waits = {1, 2}
    Leases = {1}
    MaxAgents = 3
    MaxAgentJobs = 4
    MaxAgentBytes = 4
    MaxHostJobs = 1
    MaxHostBytes = 1
    LaneJobs = 2
    LaneBytes = 2
    MaxClock = 1
SPECIFICATION SchedulerSpec
SYMMETRY Interchangeable
CHECK_DEADLOCK FALSE
INVARIANTS TurnsAreExact BytesAreExact CancelIsDefinitive
PROPERTIES ReadyIsCovered NobodyOvertakes
