\* Two processes, three commands, one cut write.  The system stops when no
\* command is left.
SPECIFICATION Spec
CONSTANTS
    p1 = p1
    p2 = p2
    Proc <- MCProc
    MaxCommands = 3
    MaxCuts = 1
SYMMETRY Symmetry
INVARIANTS
    HistoryKept
    StagedKept
    CommitsAreGenuine
CHECK_DEADLOCK FALSE
