\* A wait of the pool that fails is taken for one that ended: stop returns while a
\* task of the server still runs. The invariant fails.
SPECIFICATION Spec
CONSTANTS
    HeadTask = head
    RouterTask = router
    Slots = {s1}
    Others = {}
    Tasks = {head, router, s1}
    Paths = {p}
    MaxTasks = 3
    MaxWorkers = 2
    MaxRoutes = 1
    ResponseChunks = 2
    MaxSlices = 1
    WaitsFail = TRUE
INVARIANTS QuietWhenDown
