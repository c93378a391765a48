\* Two risky intents under one idempotency key, retried after a proof or under
\* the key, and one worker that may die: one of them acts at most once, what is
\* claimed is settled and what is ambiguous and due is looked up, twice if need be.
CONSTANTS
    Originals = {}
    Children = {}
    Effects = {e1, e2}
    Workers = {w1}
    Intent <- SharedKeyIntent
    Compensates <- NoCompensation
    ApprovalExpiries = {1}
    GrantSets <- AllOrNothing
    MaxDispatch = 1
    MaxAttempts = 2
    MaxReconciliations = 2
    MaxClock = 2
SPECIFICATION FairSpec
INVARIANTS
    RecordVerifies
    AtMostOneMutation
    SuccessIsReal
PROPERTIES
    DispatchingEnds
    UnknownIsLookedUp
CHECK_DEADLOCK FALSE
