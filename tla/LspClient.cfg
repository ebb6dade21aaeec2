SPECIFICATION Spec
CONSTANTS
    MaxChildren = 3
    MaxRequests = 1
    MaxPending = 2
    MaxVersion = 2
    MaxOutput = 1
INVARIANTS PendingIsExact AnswersReachTheirRequests DocumentIsSynchronized RecoveryIsBounded
CHECK_DEADLOCK FALSE
