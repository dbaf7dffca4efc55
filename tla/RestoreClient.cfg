SPECIFICATION RestoreFairSpec
CONSTANTS
    LastItem = 2
    PageSize = 1
    UserContents = {u1}
    Wanted = wanted
    Partial = partial
    Directory = directory
    Missing = missing
    MaxEdits = 2
    MaxFaults = 2
INVARIANTS RestoreTypeOK WholeFiles UserFilesKept NothingDestroyed SeededIsWhole CompletedIsComplete
PROPERTY Continues
CHECK_DEADLOCK FALSE
