\* Two workspaces, two tabs, three history entries each, three upsets.
SPECIFICATION Spec
CONSTANTS
    Slugs = {a, b}
    None = None
    Pages = {"root"}
    MaxTabs = 2
    MaxHistory = 3
    MaxUpsets = 3
INVARIANTS
    TypeOK
    GroupsValid
    ScopedTabs
    NeverStranded
    ButtonsWork
CHECK_DEADLOCK FALSE
SYMMETRY Symmetry
