SPECIFICATION FairSpec
CONSTANTS
    Licenses = {l1}
    Contents = {c1, c2}
    Workers = {w1}
    Adders = {a1}
    Ends = {1}
    Nil = Nil
    Notifies = TRUE
    Failures = TRUE
    MaxPrint = 0
    MaxTime = 2
INVARIANTS CreatedMeansDocument UpdatesKept DatesInOrder
PROPERTIES EveryLicenseNotified
CHECK_DEADLOCK FALSE
