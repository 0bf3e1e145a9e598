CONSTANTS
    Kinds = {"upgrade", "patch", "redeploy"}
    Amount = 1
    Skim = 0
    Side = 0
    Funds = 0
    Flips = FALSE
    MaxDepth = 3
    MaxHeight = 3
    MaxReorgs = 1
    None = None
    TagLag = 1
    Names <- MCNames
    Domains <- MCDomains
    KnownNames = {"USD Coin", "USDC"}
    KnownVersions = {"1", "2"}
SPECIFICATION Spec
INVARIANTS TypeOK CaptureIsTrue ReportIsTrue MatchMeansReviewed
CHECK_DEADLOCK FALSE
