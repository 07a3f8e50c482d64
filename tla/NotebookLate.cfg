SPECIFICATION NotebookSpec
CONSTANTS
    Device = {d1, d2}
    Notebook = {b1}
    Note = {n1}
    Name = {1, 2}
    None = None
    MaxOps = 5
    MaxPurges = 0
    MaxLost = 0
    Loose = {"late"}
SYMMETRY MCSymmetry
CHECK_DEADLOCK FALSE
INVARIANTS NoDanglingRefs
