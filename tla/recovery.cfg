SPECIFICATION LiveSpec
CHECK_DEADLOCK FALSE
CONSTANTS
    NULL = NULL
    Agents = {a1}
    Issues = {i1}
    Chats = {}
    Runtimes = {r1}
    ApiRuntimes = {}
    Claimers = {p1}
    Handlers = {h1}
    Limit = 2
    MaxAttempts = 2
    MaxTasks = 4
    MaxEnqueues = 2
    Settable = {"in_progress"}
    Flaky = {}
PROPERTIES QueuedServed InfraFailureFollowed SweptIssueReleased
