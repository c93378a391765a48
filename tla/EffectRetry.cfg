\* One effect, retried only after a proof of non-execution; two workers.
CONSTANTS
    Originals = {}
    Children = {}
    Effects = {e1}
    Workers = {w1, w2}
    Intent <- ReconcileIntent
    Compensates <- NoCompensation
    ApprovalExpiries = {}
    GrantSets <- AllOrNothing
    MaxDispatch = 1
    MaxAttempts = 2
    MaxReconciliations = 2
    MaxClock = 2
SPECIFICATION Spec
INVARIANTS
    OneSendPerAttempt
    AtMostOneMutation
    ClosedMeansNotExecuted
PROPERTIES
    SendsAreCurrent
    ImplementsLogicalEffect
SYMMETRY WorkerSymmetry
CHECK_DEADLOCK FALSE
