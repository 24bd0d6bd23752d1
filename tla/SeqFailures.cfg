SPECIFICATION Spec
CONSTANTS
    Workers = {w1}
    Devices = {d1}
    NoDate = NoDate
    LicenseEnds = {NoDate, 2}
    Register = TRUE
    Renew = TRUE
    RentingDays = 3
    RenewDays = 1
    RenewFromNow = TRUE
    RenewExpired = TRUE
    GoofyMode = FALSE
    CertDate = 1
    StartTime = 1
    Failures = TRUE
    MaxTime = 4
    MaxDate = 3
    MaxEvents = 3
PROPERTIES FinalIsFinal UpdatesMoveForward LifecycleSpec
CHECK_DEADLOCK FALSE
