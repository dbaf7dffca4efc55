SPECIFICATION RegistrationSpec
CONSTANTS
    d1 = d1
    d2 = d2
    a1 = a1
    a2 = a2
    a3 = a3
    Devices = {d1, d2}
    Agents = {a1, a2, a3}
    DeviceOf <- TwoAndOne
    Paths <- Selectable
    StateDir <- HomeState
    StateFiles <- AgentDatabase
    MaxLaunches = 3
    MaxFaults = 1
SYMMETRY Symmetry
CONSTRAINT RestoresOfBase
INVARIANTS RegistrationTypeOK SameFolder RootsApart
PROPERTY AnchorKept
CHECK_DEADLOCK FALSE
