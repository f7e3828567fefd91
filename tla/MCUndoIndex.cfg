SPECIFICATION Spec
CONSTANTS
    Key = {k1, k2}
    Data = {d1, d2}
    Null = Null
    MaxId = 3
    MaxDepth = 3
    MaxRevision = 3
INVARIANTS
    IInv
    UndoTotal
PROPERTY
    ImplementsVersions
