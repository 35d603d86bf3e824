SPECIFICATION Spec
CONSTANTS
    Path = {a, b, c, d}
    NoPath = NoPath
    FileId = {1, 2, 3, 4}
    NoFile = NoFile
    MaxChanges = 5
    MaxLoads = 3
SYMMETRY Renaming
INVARIANTS
    KeysHold
    IdentityIsExact
PROPERTY NamesSurvive
CHECK_DEADLOCK FALSE
