SPECIFICATION FairSpec
CONSTANTS
    c1 = c1
    c2 = c2
    Cmds <- TwoCmds
    DoReconnect = TRUE
    MaxBreaks = 0
    Window = 2
PROPERTIES EveryCallReturns
\* After stop() the loop ends.
CHECK_DEADLOCK FALSE
