\* What the documents say: InsertAddsAllModified.
SPECIFICATION Spec
CONSTANTS
    p1 = p1
    p2 = p2
    d1 = d1
    d2 = d2
    Paths <- MCPaths
    Dirs = {}
    Root = Root
    DirOf <- Flat
    NoDir = NoDir
    Contents = {a, Empty}
    Empty = Empty
    Absent = Absent
    RacyEdits = FALSE
    MaxCommits = 2
    MaxEvents = 2
PROPERTIES
    InsertAddsAllModified
