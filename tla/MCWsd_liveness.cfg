SPECIFICATION FairSpec
CONSTANTS
    Fds = {1, 2}
    FdLimit = 2
    Uids = {1}
    Sessions = {s1}
    Owner <- OneOwner
    NoSession = NoSession
    OutMax = 0
    MaxCheck = 1
    MaxBacklog = 1
    MaxConnects = 2
    MaxChan = 0
    Relogin = FALSE
    Resets = TRUE
    PassportFails = TRUE
    s1 = s1
    s2 = s2
INVARIANTS
    UsersListExact
PROPERTIES
    HandshakeTimeout
    PeerGoneIsClosed
    SessionIsAnswered
