CONSTANTS
    Runs = {"x", "y"}
    Stem <- SharedStem
    None = None
    MaxSuffix = 2
    MaxShort = 1
    MaxKills = 0
SPECIFICATION Spec
INVARIANTS EntriesStayIntact
CHECK_DEADLOCK FALSE
