SPECIFICATION RuntimeSpec
CONSTANTS
    Leader = Leader
    Descendant = {d1}
    Stream = {pty}
    None = None
    MaxOutput = 1
    MaxChunk = 1
    QueueDepth = 1
    MaxWritten = 2
INVARIANTS
    NothingSurvives
    TerminalIsTrue
PROPERTIES
    ExecutionReturns
CHECK_DEADLOCK FALSE
