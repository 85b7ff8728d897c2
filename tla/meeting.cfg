\* Two meetings, one upload, two server processes of which one restarts, one retry,
\* two starts, two upsets.
SPECIFICATION FairSpec
CONSTANTS
    Nodes = {n1, n2}
    Assets = {a1}
    Meetings = {m1, m2}
    None = None
    MaxTries = 1
    MaxRestarts = 1
    MaxStarts = 2
    MaxUpsets = 2
INVARIANTS
    TypeOK
    InsertedOnce
    MicReleased
    OwnMeeting
PROPERTIES MicFollowsMeeting
CHECK_DEADLOCK FALSE
