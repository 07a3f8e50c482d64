SPECIFICATION NotebookSpec
CONSTANTS
    Device = {d1, d2}
    Notebook = {b1, b2}
    Note = {n1}
    Name = {1, 2}
    None = None
    MaxOps = 3
    MaxPurges = 2
    MaxLost = 2
    Loose = {}
SYMMETRY MCSymmetry
CHECK_DEADLOCK FALSE
INVARIANTS NamesUnique NoDanglingRefs
