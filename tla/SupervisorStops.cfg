SPECIFICATION SupervisorFairSpec
CONSTANTS
    Roots = {r1}
    Disturbed = {r1}
    MaxChanges = 1
    MaxFaults = 0
PROPERTY Stops
CHECK_DEADLOCK FALSE
