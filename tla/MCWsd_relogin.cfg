SPECIFICATION Spec
CONSTANTS
    Fds = {1, 2}
    FdLimit = 2
    Uids = {1}
    Sessions = {s1}
    Owner <- OneOwner
    NoSession = NoSession
    OutMax = 1
    MaxCheck = 1
    MaxBacklog = 1
    MaxConnects = 3
    MaxChan = 0
    Relogin = TRUE
    Resets = FALSE
    PassportFails = FALSE
    s1 = s1
    s2 = s2
INVARIANTS
    UsersListExact
