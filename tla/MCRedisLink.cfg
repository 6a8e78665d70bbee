SPECIFICATION Spec
CONSTANTS
    Channels <- TheChannels
    MaxMsgs = 2
    MaxFaults = 3
CHECK_DEADLOCK FALSE
INVARIANTS
    TypeOK
    FlagsTell
    CallbacksMatch
    InOrderOnce
PROPERTIES
    SubscriptionHolds
    IsRelay
