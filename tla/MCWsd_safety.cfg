SPECIFICATION Spec
CONSTANTS
    Fds = {1, 2, 3}
    FdLimit = 2
    Uids = {1, 2}
    Sessions = {s1, s2}
    Owner <- TwoOwners
    NoSession = NoSession
    OutMax = 0
    MaxCheck = 1
    MaxBacklog = 1
    MaxConnects = 2
    MaxChan = 1
    Relogin = TRUE
    Resets = FALSE
    PassportFails = FALSE
    s1 = s1
    s2 = s2
INVARIANTS
    TypeOK
    AuthSound
    UsersListComplete
    ViewAccurate
    HeldSlotsLive
PROPERTIES
    PrivateDelivery
    CloseIsFinal
