CONSTANTS
    Order = {o1}
    Auth = {a1, a2}
    Thread = {t1}
    None = None
    Executable = {a1}
    Unsafe = {}
    IdempotentPay = TRUE
    ReconciliationEnabled = TRUE
    ConfirmWithoutWaiting = {FALSE, TRUE}
    RepriceOnPay = FALSE
    Price = 100
    FairPrices = {100}
    TolNum = 2
    TolDen = 100
    QuoteTtl = 1
    EventModes = {0, 1}
    RunReconcile = TRUE
    Faults = {"sendLost", "receipt", "logs"}
    MaxClock = 0
    MaxAttempts = 2
    MaxRestores = 1
    MaxReorgs = 1
SPECIFICATION FairSpec
PROPERTIES CreditsGetBooked ImplementsLedger
CHECK_DEADLOCK FALSE
