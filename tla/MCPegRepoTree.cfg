\* A file in a directory and one beside it, two commits, one edit or kill.
SPECIFICATION FairSpec
CONSTANTS
    p1 = p1
    p2 = p2
    d1 = d1
    d2 = d2
    Paths <- MCPaths
    Dirs = {d1}
    Root = Root
    DirOf <- Below
    NoDir = NoDir
    Contents = {a}
    Empty = Empty
    Absent = Absent
    RacyEdits = FALSE
    MaxCommits = 2
    MaxEvents = 1
PROPERTIES
    CheckOutRestores
    ImplementsVersionStore
    CheckOutEnds
