\* Two loggers; documents that add, change, repeat and remove them.
CONSTANTS
    Threads = {t1, t2}
    NoThread = NoThread
    Names = {1, 2}
    Documents <- MCDocuments
    MessageLevels = {3}
    ProgramLevels = {4}
    Formats <- MCFormats
    MaxCalls = 3
    FormatItems = {"m"}
    Alphabet <- MCAlphabet
    MaxPattern = 4
SPECIFICATION FairSpec
INVARIANTS AcceptedWritten ConfigApplied FormatterGrammar
PROPERTY CallsReturn
CHECK_DEADLOCK FALSE
