\* All pairs of files of up to four lines, and all pairs of commits of up to
\* three short files.
SPECIFICATION Spec
CONSTANTS
    a = a
    b = b
    NL = NL
    p = p
    q = q
    r = r
    Paths = {p, q, r}
    NoPath = NoPath
    Byte = {a, b, NL}
    Line <- MCLine
    Files <- MCFiles
    Cases <- MCCases
INVARIANTS
    ReadsWrittenCells
    EditScript
    LongestCommon
    MarksFit
    QuietChange
    FilesNamed
    OwnLines
CHECK_DEADLOCK FALSE
