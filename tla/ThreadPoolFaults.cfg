\* Three slots for four tasks, two waiting clients; the locks of the workers and
\* of shutdown may fail, and so may every wait, creation and join: what still holds.
SPECIFICATION Spec
CONSTANTS
    Tasks = {t1, t2, t3, t4}
    Clients = {c1, c2}
    MaxTasks = 3
    MaxWorkers = 2
    Faults = {"lock", "wait", "create", "join"}
    NULL = NULL
SYMMETRY Symmetry
INVARIANTS
    TypeOK
    ReadyIsExact
    OneWorkerPerTask
    YieldAlwaysHasRoom
    CancelRequestIsKept
    StoppedPoolHasNoWorker
    NoLostCompletion
PROPERTIES
    VerdictIsFinal
