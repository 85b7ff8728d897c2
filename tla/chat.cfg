\* Two tasks, one send from this window, and one upset: a send or a cancellation
\* elsewhere, a retry, a refusal, a lost event or a change of session.
SPECIFICATION Spec
CONSTANTS
    None = None
    Temp = Temp
    MaxTasks = 2
    MaxWire = 3
    MaxSends = 1
    MaxUpsets = 1
INVARIANTS
    TypeOK
    PillSettles
    RepliesShown
CHECK_DEADLOCK FALSE
