SPECIFICATION EngineSpec
CONSTANTS
    d1 = d1
    h1 = h1
    p1 = p1
    o1 = o1
    o2 = o2
    o3 = o3
    Devices = {d1}
    Owners = {d1}
    Paths = {p1}
    NoPath = NoPath
    Hashes = {h1}
    NoHash = NoHash
    Size <- OneByte
    Ops = {o1, o2, o3}
    NoOp = NoOp
    Origin <- OneDevice
    Restores = {}
    Target <- NoTargets
    Workers = {w1, w2}
    Unstable <- Puts
    Intents <- Intended
CONSTRAINT InTurn
SYMMETRY Symmetry
INVARIANTS EngineTypeOK NoCommittedDataLoss VerifiedStored GarbageStaysGarbage
CHECK_DEADLOCK FALSE
