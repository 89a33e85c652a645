\* Three calls of status() on every directory, a checkout and reverts of
\* directories; readdir in every order.
SPECIFICATION FairSpec
CONSTANTS
    d1 = d1
    d2 = d2
    d3 = d3
    d4 = d4
    f0 = f0
    f1 = f1
    f2 = f2
    f3 = f3
    f4 = f4
    Root = Root
    Dirs <- MCDirs
    Files <- MCFiles
    Links <- MCLinks
    Committed <- MCCommitted
    Parent <- MCParent
    Within <- MCWithin
    MaxWalks = 3
INVARIANTS
    NothingLostOrTwice
    LeavesOutFirstDirectory
    WorkTreeSound
PROPERTIES
    WalkEnds
\* The process ends after the last call.
CHECK_DEADLOCK FALSE
