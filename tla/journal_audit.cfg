CONSTANTS
    Runs = {"x", "y", "z"}
    Stem <- SharedStem
    None = None
    MaxSuffix = 2
    MaxShort = 1
    MaxKills = 1
SPECIFICATION Spec
INVARIANTS TypeOK AuditLossIsConfined EntriesResolve
PROPERTIES RecordsKept AllExit
CHECK_DEADLOCK FALSE
