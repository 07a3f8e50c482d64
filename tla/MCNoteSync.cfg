SPECIFICATION SyncSpec
CONSTANTS
    Note = {n1, n2}
    Device = {d1, d2}
    Edit = {1, 2, 3}
    Content <- AnyText
    Life = {"active", "trashed", "deleted"}
    None = None
    Base = {0}
    BatchLimit = 2
    MaxRevision = 3
    Loose = {}
SYMMETRY Symmetry
INVARIANTS NoEditLost SyncedMeansServerCopy NoOwnConflict BaseMeansSeen
PROPERTY PendingEditsStay
