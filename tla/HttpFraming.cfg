SPECIFICATION FairSpec
CONSTANTS
    SizeMax = 15
    Base = 10
    Capacity = 4
    IoChunk = 2
    Digits = {0, 1, 6}
    MaxDigits = 2
    MaxHeaders = 3
    MaxSent = 6
INVARIANT FramingIgnoresChunks
PROPERTIES FramingIsDecided
CHECK_DEADLOCK FALSE
