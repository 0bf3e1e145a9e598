CONSTANTS
    Order = {o1}
    Auth = {a1}
    Thread = {t1}
    None = None
    Executable = {a1}
    Unsafe = {}
    IdempotentPay = TRUE
    ReconciliationEnabled = TRUE
    ConfirmWithoutWaiting = {FALSE}
    RepriceOnPay = FALSE
    Price = 100
    FairPrices = {100}
    TolNum = 2
    TolDen = 100
    QuoteTtl = 1
    EventModes = {0}
    RunReconcile = TRUE
    Faults = {}
    MaxClock = 0
    MaxAttempts = 2
    MaxRestores = 0
    MaxReorgs = 0
SPECIFICATION Spec
INVARIANTS NoDoubleBooking
CHECK_DEADLOCK FALSE
