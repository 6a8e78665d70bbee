SPECIFICATION ReadingSpec
CONSTANTS
    c1 = c1
    c2 = c2
    Cmds <- TwoCmds
    DoReconnect = TRUE
    MaxBreaks = 1
    Window = 3
INVARIANTS TypeOK OffsetsExact SentIsOut
PROPERTIES KeepsPromise EveryCallReturns
\* After stop() the loop ends.
CHECK_DEADLOCK FALSE
