SPECIFICATION Spec
CONSTANTS
    Kinds = {"issueList"}
    Items = {i1, i2}
    NoData = NoData
    Mutations = {m1}
    MaxWrites = 2
    MaxTouches = 1
    MaxDrops = 1
    MaxFailures = 0
    MaxMutations = 0
    MaxUpsets = 2
INVARIANTS
    ReconnectRecovers
CHECK_DEADLOCK FALSE
