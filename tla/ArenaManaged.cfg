SPECIFICATION Spec
CONSTANTS
    Regions = {1, 2}
    Page = 4
    RegionHeader = 1
    Header = 2
    MinimumFreeSpan = 3
    MaxRegionSize = 16
    RegionSizes = {8}
    Thresholds = {0, 4}
    Sizes = {1, 4}
    Alignments = {1, 4}
    ReallocsDirect = FALSE
INVARIANTS HeapIsWellFormed LiveMemoryIsIntact NothingLeftBehind
