SPECIFICATION Spec
CONSTANTS
    References = {1, 2}
    Names = {1, 2, 3}
    Processes = {p1}
    MaxRelease = 2
    MaxEdition = 2
    Unsound <- UnsoundArchives
    MaxRequested = 2
    Manifest <- Sources
    Offered <- Written
PROPERTIES
    PinsAreKept
