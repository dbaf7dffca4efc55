SPECIFICATION HistorySpec
CONSTANTS
    d1 = d1
    d2 = d2
    h1 = h1
    h2 = h2
    o1 = o1
    o2 = o2
    o3 = o3
    Devices = {d1, d2}
    Owners = {d1}
    Paths = {p1, p2}
    NoPath = NoPath
    Hashes = {h1}
    NoHash = NoHash
    Size <- SmallSizes
    Ops = {o1, o2, o3}
    NoOp = NoOp
    Origin <- TwoDevices
    Restores = {r1}
    Target <- RestoreOnD2
SYMMETRY Symmetry
INVARIANTS RestorableHistory ManifestIntact UnreadRetained
PROPERTY ImplementsFolderLog
CHECK_DEADLOCK FALSE
