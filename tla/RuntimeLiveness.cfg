\* One connection, one agent and every command of the host: what may run, who
\* waits, and shutdown from every side, under fairness.
CONSTANTS
    g1 = g1  g2 = g2  a1 = a1  a2 = a2  j1 = j1  j2 = j2  h1 = h1
    NoJob = NoJob  NoGrant = NoGrant
    Grants = {g1, g2}
    Agents = {a1}
    Jobs <- OneConnection
    HostJobs <- OneHostJob
    Size <- UnitSizesOfOne
    Waits = {1}
    Leases = {1}
    ClockReads = {0}
    HostCommands <- AllCommands
    MaxAgents = 1
    MaxAgentJobs = 2
    MaxAgentBytes = 2
    MaxHostJobs = 1
    MaxHostBytes = 1
    LaneJobs = 1
    LaneBytes = 1
    MaxClock = 1
SPECIFICATION FairRuntimeSpec
CHECK_DEADLOCK FALSE
PROPERTIES NobodyStarves HostCallReturns ShutdownCompletes
