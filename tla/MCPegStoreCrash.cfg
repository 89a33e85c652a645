\* Every command may die at every step, once, in a store of two files and
\* two commits.
SPECIFICATION Spec
CONSTANTS
    p1 = p1
    p2 = p2
    a = a
    b = b
    Paths <- MCPaths
    NoPath = NoPath
    Bytes = {a, b}
    Junk = Junk
    Contents <- OneContent
    MaxCommits = 2
    MaxCrashes = 1
    CrashPoints <- AllPoints
SYMMETRY Symmetry
INVARIANTS
    TypeOK
    DiskReadable
    StageReadable
    CommitsTile
    OneLiveEntryPerPath
    AtMostOneHead
PROPERTIES
    HistoryKept
    HeadKept
