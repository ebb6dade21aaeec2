SPECIFICATION Spec
CONSTANTS
    HeadTask = head
    RouterTask = router
    Slots = {s1, s2}
    Others = {}
    Tasks = {head, router, s1, s2}
    Paths = {p}
    MaxTasks = 4
    MaxWorkers = 2
    MaxRoutes = 1
    ResponseChunks = 2
    MaxSlices = 1
    WaitsFail = FALSE
SYMMETRY Symmetry
INVARIANTS HandlerOwnsItsExchange AnswerMatchesVerdict QuietWhenDown
PROPERTIES UsesPoolWithinContract ImplementsHttpService
