SPECIFICATION Spec
CONSTANTS
    FileName <- MCFileName
    Packages <- MCPackages
    Spaced = {"a b.mp3", "a b.html"}
    QueryUnescape <- MCQueryUnescape
    MaxOrder = 1
    Failures = FALSE
INVARIANT MarkedInManifest
CHECK_DEADLOCK FALSE
