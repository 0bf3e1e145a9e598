CONSTANTS
    None = None
    Kinds = {"settle", "sweep"}
    Amount = 2
    Skim = 1
    Side = 1
    Funds = 2
    Required = 2
    Pinned = TRUE
    Proxy = TRUE
    MinConfirmations = 2
    TagLag = 0
    Flips = FALSE
    MaxDepth = 3
    MaxHeight = 3
    MaxReorgs = 0
SPECIFICATION Spec
INVARIANTS VerdictIsTrue
CHECK_DEADLOCK FALSE
