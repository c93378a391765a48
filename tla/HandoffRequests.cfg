\* Retries of one request on two daemons, which share a repository and may end.
CONSTANTS
    created = created  accepted = accepted  recorded = recorded
    create = create  createAgain = createAgain
    accept = accept  acceptChanged = acceptChanged
    acceptElse = acceptElse  revoke = revoke
    report = report  reportAgain = reportAgain  revokeAfter = revokeAfter
    merge = merge  mergeAgain = mergeAgain
    parent = parent  child = child  other = other  i1 = i1  i2 = i2
    NoCall = NoCall  Failure = Failure  NoRequest = NoRequest
    Instances = {i1, i2}
    Calls <- AllCalls
    Key <- KeyOf
    Digest <- RequestOf
    Request <- RequestOf
    Daemon <- DaemonOf
    Live <- LiveCalls
    Starts <- Histories
    Empty <- NoHandoffs
    Valid <- ValidHandoffs
    Apply <- ApplyHandoff
    Requests <- HandoffCalls
    MaxCasRetries = 2
    MaxRoots = 5
    MaxFaults = 1
SPECIFICATION FairSpec
CHECK_DEADLOCK FALSE
INVARIANTS ActsOnce AnswerIsExact AcceptedOnce
PROPERTIES RevocationStopsUse CallsReturn
