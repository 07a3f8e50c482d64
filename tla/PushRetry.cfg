SPECIFICATION LooseSpec
CONSTANTS
    Note = {n1}
    Device = {d1, d2}
    Edit = {1, 2, 3}
    Content <- AnyText
    Life = {"active", "deleted"}
    None = None
    Base = {0}
    BatchLimit = 1
    MaxRevision = 4
    Loose = {"busy"}
SYMMETRY Symmetry
INVARIANTS AcceptanceOrConflict
