\* One agent, one source derived from another, one restart, leases that end.
CONSTANTS
    agent = agent  raw = raw  derived = derived  page = page  note = note
    NoSource = NoSource  NoReview = NoReview
    Agents = {agent}
    Sources = {raw, derived}
    Nodes = {page, note}
    Reviews = {"release"}
    Scope <- ReadsDerived
    Writable <- ReadsDerived
    Offers <- SmallOffers
    Drafts <- SmallDrafts
    Relations <- TwoRelations
    Never = 9
    Lease = 1
    TicketLifetime = 2
    ProposalLifetime = 1
    StagingLease = 1
    MaxAgents = 1
    MaxTickets = 1
    MaxOwnTickets = 1
    MaxProposals = 1
    MaxStaged = 1
    MaxRetained = 3
    MaxOwnRetained = 3
    LastVersion <- FewVersions
    MaxIssued = 3
    MaxEpoch = 2
    MaxTime = 1
SPECIFICATION Spec
CHECK_DEADLOCK FALSE
INVARIANTS
    CheckpointRestores ServedIsDurable
    RetainedWithinBounds NothingOutlivesItsGrant
PROPERTIES HandoffIsFresh
