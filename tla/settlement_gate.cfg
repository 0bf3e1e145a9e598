CONSTANTS
    None = None
    Kinds = {"settle", "fee"}
    Amount = 2
    Skim = 1
    Side = 2
    Funds = 2
    Required = 2
    AuthorizedMax = 1
    MinConfirmations = 2
    MaxDepth = 1
    Flips = TRUE
    MaxHeight = 4
    MaxReorgs = 2
SPECIFICATION FairSpec
INVARIANTS TypeOK CreditSurvives GradesAreTrue
PROPERTIES GateCatchesUp
CHECK_DEADLOCK FALSE
