SPECIFICATION FairSpec
CONSTANTS
    a = a  b = b  c = c
    Ids = {a, b, c}
    Scripts <- FreshOrReused
    w1 = w1  w2 = w2
    Workers = {w1}
    QueueSize = 1
    MaxTracked = 1
INVARIANTS RequestStatesAreExact
PROPERTIES ImplementsLspService NothingHangs
