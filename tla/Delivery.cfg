SPECIFICATION FairSpec
CONSTANTS
    Clients = {c1}
    Ends = {1, 2}
    Configs <- MCConfigs
    MaxFaults = 1
    MaxVersion = 2
    MaxTime = 3
INVARIANTS EmbeddedNotOlder  StaleIsAnnounced StaleChecksumIsOlder DeliveredDocument
PROPERTIES CopiesCatchUp
CHECK_DEADLOCK FALSE
