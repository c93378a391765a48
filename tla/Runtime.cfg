\* Two connections and two agents with room for one lane: grants compete, are
\* replaced and end while requests are admitted, run and drained.
CONSTANTS
    g1 = g1  g2 = g2  a1 = a1  a2 = a2  j1 = j1  j2 = j2  h1 = h1
    NoJob = NoJob  NoGrant = NoGrant
    Grants = {g1, g2}
    Agents = {a1, a2}
    Jobs <- TwoConnections
    HostJobs <- OneHostJob
    Size <- UnitSizes
    Waits = {1}
    Leases = {1}
    ClockReads = {0, 1}
    HostCommands <- GrantCommands
    MaxAgents = 1
    MaxAgentJobs = 4
    MaxAgentBytes = 4
    MaxHostJobs = 1
    MaxHostBytes = 1
    LaneJobs = 2
    LaneBytes = 2
    MaxClock = 1
SPECIFICATION RuntimeSpec
SYMMETRY Interchangeable
CHECK_DEADLOCK FALSE
INVARIANTS GrantsMatchLanes NotDispatchedNeverRan NothingStranded
