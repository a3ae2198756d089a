SPECIFICATION SeaSpec
CONSTANTS
    v1 = v1
    v2 = v2
    v3 = v3
    s1 = s1
    s2 = s2
    b1 = b1
    b2 = b2
    Vol = {v1, v2, v3}
    Server = {s1, s2}
    Sealed = {v2}
    Stuck = {v3}
    MaxGarbage = 2
    HeadSize = 2
    Shortages <- Disks
    Bucket = {b1, b2}
    MaxQuota = 2
    Want <- GitQuotas
    Budgets <- StoreBudgets
INVARIANT SeaTypeOK
PROPERTIES
    GreenMeansReclaimed
    WalkResumes
    BacklogDrains
    QuotasFollowGit
    GreenMeansQuotas
    UnrulesOnlyUnknown
