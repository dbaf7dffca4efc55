SPECIFICATION SupervisorFairSpec
CONSTANTS
    Roots = {r1, r2}
    Disturbed = {r1}
    MaxChanges = 2
    MaxFaults = 1
INVARIANTS SupervisorTypeOK ErrorsReported
PROPERTIES ChangesScanned OneForAll
CHECK_DEADLOCK FALSE
