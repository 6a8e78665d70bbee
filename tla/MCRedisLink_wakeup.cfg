SPECIFICATION Spec
CONSTANTS
    Channels <- TheChannels
    MaxMsgs = 3
    MaxFaults = 3
CHECK_DEADLOCK FALSE
INVARIANTS
    WriteScheduled
