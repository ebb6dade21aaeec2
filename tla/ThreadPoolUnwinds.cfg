\* A second worker that cannot be created and a first one that cannot be joined:
\* init clears the storage under the first one. The invariant fails.
SPECIFICATION Spec
CONSTANTS
    Tasks = {t1}
    Clients = {c1}
    MaxTasks = 1
    MaxWorkers = 2
    Faults = {"create", "join"}
    NULL = NULL
INVARIANTS
    NoWorkerOutlivesPool
