SPECIFICATION Spec
CONSTANTS
    CellBytes = 8
    Cpus = {c1, c2}
    Values = {0, 1}
    Accesses <- Overlapping
    MaxHeld = 2
SYMMETRY CpuSymmetry
INVARIANTS
    CellInvariant
    LoadsSeeStores
