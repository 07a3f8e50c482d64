SPECIFICATION AndroidSpec
CONSTANTS
    Note = {n1, n2}
    Phone = phone
    Other = other
    Device <- BothDevices
    Edit = {1, 2, 3}
    Content <- AnyText
    Life = {"active", "trashed", "deleted"}
    None = None
    Base = {0}
    BatchLimit = 2
    MaxRevision = 10
    MaxDeaths = 1
    Loose = {}
SYMMETRY Symmetry
INVARIANTS NoEditLost ConflictShowsNote SyncedMeansServerCopy
PROPERTIES NeverSilentlyOverwritten
