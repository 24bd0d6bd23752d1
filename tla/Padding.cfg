SPECIFICATION FairSpec
CONSTANTS
    Size = 3
    MaxLen = 7
    Inputs <- MCInputs
    Fillers = {1, 3}
    Failures = TRUE
INVARIANTS PrefixWritten Recovered
PROPERTIES Ends
CHECK_DEADLOCK FALSE
