SPECIFICATION LiveSpec
CONSTANTS
    NONE = NONE
    Runtimes = {r1, r2}
    Legacy = {r1}
    Claimers = {p1, p2}
    Rows = {t1, t2}
    MaxVersion = 2
    RedisFails = TRUE
INVARIANTS TypeOK NeverHidden SampleHolds
 
