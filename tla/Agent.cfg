SPECIFICATION FairSpec
CONSTANTS
    Paths = {p1}
    MaxEdits = 3
    MaxFaults = 1
INVARIANTS TypeOK OneLive InFlightOwned NewestWins NothingForgotten
PROPERTIES DeletesAreReal Settles
