SPECIFICATION FairSpec
CONSTANTS
    Workers = {w1}
    Devices = {d1, d2}
    NoDate = NoDate
    LicenseEnds = {NoDate, 1}
    Register = TRUE
    Renew = TRUE
    RentingDays = 2
    RenewDays = 1
    RenewFromNow = FALSE
    RenewExpired = TRUE
    GoofyMode = FALSE
    CertDate = NoDate
    StartTime = 0
    Failures = FALSE
    MaxTime = 3
    MaxDate = 3
    MaxEvents = 4
INVARIANTS EndsAgree CountExact
PROPERTIES CancellationTakesEffect
CHECK_DEADLOCK FALSE
