\* A disk that refuses, and recovers.
SPECIFICATION SpoolSpec
CONSTANTS
    MemMax = 1
    SpoolMax = 2
    DiskFaults = {"refused"}
    MaxFaults = 2
    MaxEvents = 6
INVARIANTS Complete Ordered
PROPERTIES HealthyRefines
CHECK_DEADLOCK FALSE
