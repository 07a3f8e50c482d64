SPECIFICATION SyncSpec
CONSTANTS
    Note = {n1}
    Device = {d1, d2}
    Edit = {1, 2, 3}
    Content <- AnyText
    Life = {"active", "trashed", "deleted"}
    None = None
    Base = {0}
    BatchLimit = 1
    MaxRevision = 3
    Loose = {"merge", "conflict", "late"}
SYMMETRY Symmetry
PROPERTIES OnlyOvertakenChange
