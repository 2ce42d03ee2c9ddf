SPECIFICATION FairSpec
CONSTANTS
    Thread = {t1, t2}
    Subject = {a, b}
    Nobody = Nobody
    RequireEmail = TRUE
    RequireVerified = TRUE
    HasAllowlist = TRUE
    RateLimit = 1
    Hour = 1
    MaxTime = 2
    MaxRequest = 3
    MaxCrash = 2
CHECK_DEADLOCK FALSE
INVARIANTS
    TypeOK
    SerialsUnique
    QuotaExact
    HitsBounded
PROPERTIES
    OwnQuotaSpent
    RequestsAnswered
    CountsSerials
