\* One file, three commits, one crash at a point where nothing was being replaced.
SPECIFICATION FairSpec
CONSTANTS
    p1 = p1
    p2 = p2
    a = a
    b = b
    Paths <- OnePath
    NoPath = NoPath
    Bytes = {a, b}
    Junk = Junk
    Contents <- TwoContents
    MaxCommits = 3
    MaxCrashes = 1
    CrashPoints <- QuietPoints
PROPERTIES
    ImplementsVersionStore
    CommandsFinish
