SPECIFICATION FairSpec
CONSTANTS
    HeadTask = head
    RouterTask = router
    Slots = {s1}
    Others = {o1}
    Tasks = {head, router, s1, o1}
    Paths = {p}
    MaxTasks = 3
    MaxWorkers = 2
    MaxRoutes = 1
    ResponseChunks = 1
    MaxSlices = 1
    WaitsFail = FALSE
PROPERTIES RequestsAreAnswered CallsReturn
