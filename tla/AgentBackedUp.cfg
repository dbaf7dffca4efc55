SPECIFICATION FairSpec
CONSTANTS
    Paths = {p1}
    MaxEdits = 3
    MaxFaults = 0
PROPERTY BackedUp
