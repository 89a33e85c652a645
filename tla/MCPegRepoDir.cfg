\* What the documents say: OnlyChangesStaged.
SPECIFICATION Spec
CONSTANTS
    p1 = p1
    p2 = p2
    d1 = d1
    d2 = d2
    Paths <- MCPaths
    Dirs = {d1}
    Root = Root
    DirOf <- Below
    NoDir = NoDir
    Contents = {a, Empty}
    Empty = Empty
    Absent = Absent
    RacyEdits = FALSE
    MaxCommits = 1
    MaxEvents = 2
PROPERTIES
    OnlyChangesStaged
