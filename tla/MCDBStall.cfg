SPECIFICATION FairDB

CONSTANTS
    Keys = {1}
    Compactors = {c1}
    Flusher = flusher
    NumLevels = 2
    MinMerge = 2
    MaxBuffers = 3
    L0Trigger = 2
    L0Stop = 2
    MinFill = 1
    MaxFill = 1
    Faults = {"table", "manifest"}
    MaxSeq = 6
    MaxCrashes = 0
    MaxFailures = 1

PROPERTIES
    StalledWriteEnds

CHECK_DEADLOCK FALSE
