SPECIFICATION SupervisorFairSpec
CONSTANTS
    Roots = {r1}
    Disturbed = {r1}
    MaxChanges = 1
    MaxFaults = 0
PROPERTY StopsWithoutRoot
CHECK_DEADLOCK FALSE
