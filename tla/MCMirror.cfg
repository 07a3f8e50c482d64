SPECIFICATION MirrorSpec
CONSTANTS
    Entity = {n1, n2}
    None = None
    MaxEdits = 3
    PageLimit = 2
    MaxAborts = 1
    Loose = {}
SYMMETRY MCSymmetry
INVARIANTS CursorHonest AgreeAfterRun
PROPERTY MergesOnly
