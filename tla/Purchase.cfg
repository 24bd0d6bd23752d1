SPECIFICATION FairSpec
CONSTANTS
    Workers = {w1}
    Licenses = {l1, l2, l3}
    Ends = {1, 2}
    Nil = Nil
    Failures = TRUE
INVARIANTS DeliveredIsRecorded EndFollowsLicense
PROPERTIES LicenseIdKept LicenseDelivered
CHECK_DEADLOCK FALSE
