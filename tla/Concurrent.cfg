SPECIFICATION Spec
CONSTANTS
    Workers = {w1, w2}
    Devices = {d1}
    NoDate = NoDate
    LicenseEnds = {1}
    Register = TRUE
    Renew = TRUE
    RentingDays = 2
    RenewDays = 1
    RenewFromNow = FALSE
    RenewExpired = TRUE
    GoofyMode = FALSE
    CertDate = NoDate
    StartTime = 1
    Failures = TRUE
    MaxTime = 2
    MaxDate = 3
    MaxEvents = 3
SYMMETRY Symmetry
INVARIANTS EndWithinMaximum LicenseEndPermitted CountNeverOverstates EventsExplainStatus
CHECK_DEADLOCK FALSE
