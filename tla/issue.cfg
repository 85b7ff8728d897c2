SPECIFICATION Spec
CONSTANTS
    NULL = NULL
    Agents = {a1}
    Issues = {i1}
    Chats = {}
    Runtimes = {r1}
    ApiRuntimes = {}
    Claimers = {p1, p2}
    Handlers = {h1}
    Limit = 2
    MaxAttempts = 2
    MaxTasks = 4
    MaxEnqueues = 2
    Settable = {}
    Flaky = {}
SYMMETRY Symmetry
INVARIANTS TypeOK IssueSerial  SnapshotHolds
PROPERTIES ImplementsWorkQueue
