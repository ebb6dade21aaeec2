SPECIFICATION Spec
CONSTANTS
    a = a  b = b  c = c
    Ids = {b}
    Scripts <- Reused
    w1 = w1  w2 = w2
    Workers = {w1, w2}
    QueueSize = 1
    MaxTracked = 1
SYMMETRY Symmetric
INVARIANTS RequestStatesAreExact
PROPERTIES ImplementsLspService
