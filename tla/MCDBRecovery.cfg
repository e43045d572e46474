SPECIFICATION SpecDB

CONSTANTS
    Keys = {1}
    Compactors = {c1}
    Flusher = flusher
    NumLevels = 2
    MinMerge = 2
    MaxBuffers = 3
    L0Trigger = 1
    L0Stop = 2
    MinFill = 1
    MaxFill = 1
    Faults = {"log", "newlog", "table"}
    MaxSeq = 4
    MaxCrashes = 2
    MaxFailures = 1

INVARIANTS
    TypeOKDB
    NeededFilesExist

PROPERTIES
    IsStore

CHECK_DEADLOCK FALSE
