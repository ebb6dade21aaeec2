\* Locks and joins succeed; workers may fail to start or to wait. Progress, and
\* therefore no symmetry.
SPECIFICATION FairSpec
CONSTANTS
    Tasks = {t1, t2, t3}
    Clients = {c1}
    MaxTasks = 3
    MaxWorkers = 2
    Faults = {"wait", "create"}
    NULL = NULL
INVARIANTS
    RunningTaskHasWorker
    RegistryIsExact
    StoppingDrains
    NoLostWakeup
    NoWorkerOutlivesPool
PROPERTIES
    WaitOfEndedTaskReturns
    LifecycleCallsReturn
    ImplementsFairTaskQueue
