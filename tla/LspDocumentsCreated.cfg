SPECIFICATION Spec
CONSTANTS
    a = a  b = b  c = c
    Files = {a, b, c}
    TextsOf <- MCTextsOf
    ImportsOf <- MCImportsOf
    Openable = {a, b, c}
    Changeable = {a, b, c}
    Creations = TRUE
    Races = FALSE
    IgnoredOpens = FALSE
    MaxVersion = 2
INVARIANT SnapshotsAreCurrent
