CONSTANTS
    Order = {o1, o2}
    Auth = {a1, a2}
    Thread = {t1, t2}
    None = None
    Executable = {a1, a2}
    Unsafe = {}
    IdempotentPay = FALSE
    ReconciliationEnabled = FALSE
    ConfirmWithoutWaiting = {FALSE}
    RepriceOnPay = FALSE
    Price = 100
    FairPrices = {100}
    TolNum = 2
    TolDen = 100
    QuoteTtl = 1
    EventModes = {0}
    RunReconcile = FALSE
    Faults = {"gasPrice", "logs"}
    MaxClock = 0
    MaxAttempts = 2
    MaxRestores = 0
    MaxReorgs = 0
SPECIFICATION Spec
INVARIANTS TypeOK PaidIsBacked NoSharedSettlement OutcomeIsTrue
PROPERTIES ImplementsLedger
SYMMETRY Symmetry
CHECK_DEADLOCK FALSE
