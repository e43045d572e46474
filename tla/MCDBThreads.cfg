SPECIFICATION SpecDB

CONSTANTS
    Keys = {1}
    Compactors = {c1, c2}
    Flusher = flusher
    NumLevels = 3
    MinMerge = 1
    MaxBuffers = 2
    L0Trigger = 1
    L0Stop = 2
    MinFill = 1
    MaxFill = 1
    Faults = {}
    MaxSeq = 3
    MaxCrashes = 1
    MaxFailures = 0

SYMMETRY Symmetry

INVARIANTS
    CompactionInputsStay
    NeededFilesExist

PROPERTY
    IsStore

CHECK_DEADLOCK FALSE
