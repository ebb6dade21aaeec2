SPECIFICATION Spec
CONSTANTS
    a = a  b = b  c = c
    Files = {a, b, c}
    TextsOf <- MCTextsOf
    ImportsOf <- MCImportsOf
    Openable = {a, c}
    Changeable = {b, c}
    Creations = FALSE
    Races = FALSE
    IgnoredOpens = FALSE
    MaxVersion = 2
INVARIANTS GraphIsConsistent SnapshotsAreCurrent
