CONSTANTS
    Order = {o1, o2}
    Auth = {a1, a2}
    Thread = {t1}
    None = None
    Executable = {a1, a2}
    Unsafe = {}
    IdempotentPay = TRUE
    ReconciliationEnabled = FALSE
    ConfirmWithoutWaiting = {FALSE}
    RepriceOnPay = TRUE
    Price = 100
    FairPrices = {100, 103}
    TolNum = 2
    TolDen = 100
    QuoteTtl = 0
    EventModes = {0}
    RunReconcile = FALSE
    Faults = {"read", "send", "receipt"}
    MaxClock = 1
    MaxAttempts = 2
    MaxRestores = 0
    MaxReorgs = 0
SPECIFICATION FairSpec
INVARIANTS SettledAtMostOnce NoStrandedSettlement StatusNamesTheSettlement
PROPERTIES BookingIsStable SettlementsGetConfirmed
CHECK_DEADLOCK FALSE
