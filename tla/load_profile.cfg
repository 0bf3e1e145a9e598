CONSTANTS
    Profiles <- SmallProfiles
    MaxSamples = 1
    MaxFailures = 3
SPECIFICATION Spec
INVARIANTS TypeOK EachOnce EvidenceIsTrue
PROPERTIES RunEnds
CHECK_DEADLOCK FALSE
