SPECIFICATION LiveSpec
CONSTANTS
    Note = {n1}
    Device = {d1, d2}
    Edit = {1, 2, 3}
    Content <- AnyText
    Life = {"active", "deleted"}
    None = None
    Base = {0}
    BatchLimit = 1
    MaxRevision = 5
    Loose = {"orphan", "save"}
    MaxAborts = 1
INVARIANT NoEditLost
PROPERTIES NeverSilentlyOverwritten EventuallyAgree
