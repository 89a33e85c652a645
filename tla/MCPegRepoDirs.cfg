\* A file in each of two directories, two commits, one edit or kill; files may
\* be written twice within a second.
SPECIFICATION Spec
CONSTANTS
    p1 = p1
    p2 = p2
    d1 = d1
    d2 = d2
    Paths <- MCPaths
    Dirs = {d1, d2}
    Root = Root
    DirOf <- Apart
    NoDir = NoDir
    Contents = {a}
    Empty = Empty
    Absent = Absent
    RacyEdits = TRUE
    MaxCommits = 2
    MaxEvents = 1
SYMMETRY Symmetry
PROPERTIES
    CommitRecordsWork
    InsertFindsChanges
    UnchangedOnlyAsDeleted
    NothingLostSilently
