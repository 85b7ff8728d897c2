SPECIFICATION FairSpec
CONSTANTS
    Kinds = {"inbox", "timeline", "roomMessages", "issueDetail", "agentMemories"}
    Items = {i1}
    NoData = NoData
    Mutations = {m1, m2}
    MaxWrites = 2
    MaxTouches = 1
    MaxDrops = 1
    MaxFailures = 1
    MaxMutations = 2
    MaxUpsets = 2
INVARIANTS
    TypeOK
    RefetchedStaysFresh
    NoSpinner
    NoOptimisticResidue
PROPERTIES CatchesUp
CHECK_DEADLOCK FALSE
