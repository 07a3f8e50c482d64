SPECIFICATION AndroidSpec
CONSTANTS
    Note = {n1}
    Phone = phone
    Other = other
    Device <- BothDevices
    Edit = {1, 2, 3}
    Content <- AnyText
    Life = {"active", "trashed", "deleted"}
    None = None
    Base = {0}
    BatchLimit = 1
    MaxRevision = 10
    MaxDeaths = 0
    Loose = {"mark"}
PROPERTIES NewerEditStaysPending
