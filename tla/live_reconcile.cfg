CONSTANTS
    None = None
    Kinds = {"settle", "gift", "replay", "fee", "upgrade"}
    Amount = 2
    Skim = 1
    Side = 2
    Funds = 2
    Required = 2
    Pinned = TRUE
    Proxy = TRUE
    MinConfirmations = 1
    TagLag = 0
    Flips = FALSE
    MaxDepth = 3
    MaxHeight = 3
    MaxReorgs = 1
SPECIFICATION Spec
INVARIANTS TypeOK OneSnapshot VerdictIsTrue OnlyReviewedCode
CHECK_DEADLOCK FALSE
