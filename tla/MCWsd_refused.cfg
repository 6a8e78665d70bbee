SPECIFICATION FairSpec
CONSTANTS
    Fds = {1}
    FdLimit = 1
    Uids = {1}
    Sessions = {s1}
    Owner <- OneOwner
    NoSession = NoSession
    OutMax = 0
    MaxCheck = 1
    MaxBacklog = 1
    MaxConnects = 1
    MaxChan = 0
    Relogin = FALSE
    Resets = FALSE
    PassportFails = FALSE
    s1 = s1
    s2 = s2
PROPERTIES
    RefusedIsClosed
