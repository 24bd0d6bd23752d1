SPECIFICATION FairSpec
CONSTANTS
    Workers = {w1, w2}
    Masters = {m1}
    MaxContents = 4
    MaxPeople = 2
    MaxPurchases = 2
    MaxRequests = 4
    MaxFaults = 1
    PerPage = 2
    MaxDocs = 3
    MaxDevices = 1
INVARIANTS NothingHalfAdded LicenseOfPurchase LinesUnique NextLinksReachAll
PROPERTIES ViewRefreshed
