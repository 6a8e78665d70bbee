SPECIFICATION Spec
CONSTANTS
    Fds = {1, 2}
    FdLimit = 2
    Uids = {1, 2}
    Sessions = {s1, s2}
    Owner <- TwoOwners
    NoSession = NoSession
    OutMax = 1
    MaxCheck = 1
    MaxBacklog = 1
    MaxConnects = 3
    MaxChan = 0
    Relogin = FALSE
    Resets = FALSE
    PassportFails = TRUE
    s1 = s1
    s2 = s2
INVARIANTS
    AuthSound
