SPECIFICATION Spec
CONSTANTS
    Sentinels = {s1, s2}
    Instances = {m, r}
    FirstMaster = m
    Priority <- AllPromotable
    Quorum = 2
    ParallelSyncs = 1
    NoOne = NoOne
    MaxEpoch = 2
    Limits <- Scenarios
    MaxFaults = 1
INVARIANTS TypeOK ElectionSafe ConfigAgreement PromotedKnown
SYMMETRY Sym
CHECK_DEADLOCK FALSE
