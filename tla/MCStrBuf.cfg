SPECIFICATION Spec
CONSTANTS
    Char <- MCChar
    Blank <- MCBlank
    NUL = "NUL"
    Junk = "junk"
    Slack = 1
    ReadChunk = 3
    FormatChunk = 2
    MaxLen = 5
    MaxData = 3
INVARIANT BufferHoldsText
