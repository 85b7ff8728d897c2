\* A notification of the other workspace is clicked.
SPECIFICATION Spec
CONSTANTS
    Slugs = {a, b}
    None = None
    Pages = {"root", "issues"}
    MaxTabs = 2
    MaxHistory = 2
    MaxUpsets = 1
INVARIANTS
    NoLeakage
CHECK_DEADLOCK FALSE
SYMMETRY Symmetry
