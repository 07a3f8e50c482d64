SPECIFICATION FeedSpec
CONSTANTS
    Note = {n1, n2}
    Device = {d1}
    Content = {c1}
    Life = {"active", "deleted"}
    None = None
    Base = {0, 1, 2, 3}
    BatchLimit = 1
    MaxRevision = 4
    PageLimit = 2
    Users = {1, 2}
    Budget = 10
    EstimatedNoteBytes = 4
    NoteBytes <- OneUnit
    LargestNote = 1
    EntryBytes = 1
    OtherBytes = {0, 3}
SYMMETRY Symmetry
INVARIANTS CursorCoversStore PagesAdvance VersionNamesOneRecord LogMatchesStore
    AlwaysRoomToDelete
PROPERTY NeverOlder
