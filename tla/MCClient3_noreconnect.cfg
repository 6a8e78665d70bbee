SPECIFICATION ReadingSpec
CONSTANTS
    c1 = c1
    c2 = c2
    Cmds <- TwoCmds
    DoReconnect = FALSE
    MaxBreaks = 1
    Window = 2
PROPERTIES EveryCallReturns
\* After stop() the loop ends.
CHECK_DEADLOCK FALSE
