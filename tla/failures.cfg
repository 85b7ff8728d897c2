SPECIFICATION Spec
CONSTANTS
    NULL = NULL
    Agents = {a1}
    Issues = {i1}
    Chats = {c1}
    Runtimes = {r1, m1}
    ApiRuntimes = {m1}
    Claimers = {p1}
    Handlers = {h1, h2}
    Limit = 2
    MaxAttempts = 3
    MaxTasks = 3
    MaxEnqueues = 1
    Settable = {"in_progress"}
    Flaky = {r1}
SYMMETRY Symmetry
INVARIANTS RetryOnce
PROPERTIES FinishedForGood
