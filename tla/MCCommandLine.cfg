SPECIFICATION FairSpec
CONSTANTS
    Letter <- MCLetter
    Digit <- MCDigit
    Stray <- MCStray
    UserName <- MCUserName
    UserEmail <- MCUserEmail
    Commands <- MCCommands
    CommandTypes <- MCCommandTypes
    Invocations <- MCInvocations
    HelpWord <- MCHelpWord
    CreateWord <- MCCreateWord
    NoFile <- MCNoFile
    Room = 3
    MinStart = 64
    MaxRuns = 2
INVARIANTS ConfigRead MadeByOne SuggestsNearest ActsOnNamed PathsNamed CommitsReadBack
PROPERTY EveryProcessEnds
CHECK_DEADLOCK FALSE
