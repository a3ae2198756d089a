SPECIFICATION CnpgSpec
CONSTANTS
    c1 = c1
    b1 = b1
    b2 = b2
    Cluster = {c1}
    Suspended = {}
    Name = {b1, b2}
    MinAge = 0
    StuckRunning = 1
    MaxAge = 1
    Period = 1
    MaxMishap = 1
INVARIANT CnpgTypeOK
PROPERTIES
    ReleasesOnlyStuck
    GreenMeansFresh
    DeadScheduleIsRed
