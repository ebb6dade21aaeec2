SPECIFICATION RingSpec
CONSTANTS
    Tasks = {t1, t2, t3, t4, t5}
    MaxTasks = 4
    NULL = NULL
PROPERTY ImplementsFifo
