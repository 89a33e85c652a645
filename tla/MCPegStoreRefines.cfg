\* Two files with two contents, two commits.
SPECIFICATION Spec
CONSTANTS
    p1 = p1
    p2 = p2
    a = a
    b = b
    Paths <- MCPaths
    NoPath = NoPath
    Bytes = {a, b}
    Junk = Junk
    Contents <- TwoContents
    MaxCommits = 2
    MaxCrashes = 0
    CrashPoints <- QuietPoints
SYMMETRY Symmetry
PROPERTIES
    ImplementsVersionStore
