SPECIFICATION MirrorSpec
CONSTANTS
    Entity = {n1}
    None = None
    MaxEdits = 3
    PageLimit = 2
    MaxAborts = 0
    Loose = {"delete"}
PROPERTY NothingOverwritten
