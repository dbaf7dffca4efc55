SPECIFICATION QuotaSpec
CONSTANTS
    d1 = d1
    h1 = h1
    h2 = h2
    Devices = {d1}
    Owners = {d1}
    Paths = {p1, p2}
    NoPath = NoPath
    Hashes = {h1, h2}
    NoHash = NoHash
    Size <- OneAndTwoBytes
    Ops = {o1, o2, o3}
    NoOp = NoOp
    Origin <- OneDevice
    Restores = {}
    Target <- NoTargets
    MaxPendingUploadSize = 2
    MaxLiveSize = 2
SYMMETRY Symmetry
INVARIANTS TypeOK NoLostUpdate AtMostOnce RetainedAvailable
INVARIANTS UsageExact LiveWithinLimit NoReservationLeak
PROPERTY OutcomesAreFinal
CHECK_DEADLOCK FALSE
