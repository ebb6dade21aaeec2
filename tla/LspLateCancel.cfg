SPECIFICATION Spec
CONSTANTS
    a = a  b = b  c = c
    Ids = {a}
    Scripts <- SymbolFirst
    w1 = w1  w2 = w2
    Workers = {w1}
    QueueSize = 1
    MaxTracked = 2
PROPERTIES ReusedIdsAreNotPoisoned
