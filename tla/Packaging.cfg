SPECIFICATION Spec
CONSTANTS
    FileName <- MCFileName
    Packages <- MCPackages
    Spaced = {"a b.mp3", "a b.html"}
    QueryUnescape <- MCQueryUnescape
    MaxOrder = 2
    Failures = TRUE
INVARIANTS SealedAsDue MarkedIffSealed Delivered FailureReported
CHECK_DEADLOCK FALSE
