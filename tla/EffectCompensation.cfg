\* Two originals compete for one child.
CONSTANTS
    Originals = {o1, o2}
    Children = {c1}
    Effects = {o1, o2, c1}
    Workers = {w1, w2}
    Intent <- CompensationIntent
    Compensates <- CompensationPairs
    ApprovalExpiries = {}
    GrantSets <- Everything
    MaxDispatch = 1
    MaxAttempts = 1
    MaxReconciliations = 0
    MaxClock = 0
SPECIFICATION Spec
INVARIANTS
    ChildCompensatesOne
    CompensatedIsReal
SYMMETRY CompensationSymmetry
CHECK_DEADLOCK FALSE
