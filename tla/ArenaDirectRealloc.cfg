SPECIFICATION Spec
CONSTANTS
    Regions = {1, 2, 3}
    Page = 4
    RegionHeader = 1
    Header = 2
    MinimumFreeSpan = 3
    MaxRegionSize = 8
    RegionSizes = {8}
    Thresholds = {5}
    Sizes = {1, 6}
    Alignments = {1}
    ReallocsDirect = TRUE
INVARIANT LiveMemoryIsIntact
