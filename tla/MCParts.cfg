SPECIFICATION PartsSpec
CONSTANTS
    Bytes = {"a", "b"}
    MinSize = 2
    MaxData = 3
    MaxLen = 5
    Keys = {"a", "b", "c", "d", "e"}
    Values = {1, 2}
    Hash <- TableHash
    InitialSize = 2
    Uids = {1, 2}
    Cids = {0, 1, 2}
    MaxListed = 3
    Chars = {"a"}
    Span <- StringSpans
    MaxPrealloc = 4
    MaxArg = 2
    MaxString = 5
    MaxFd = 3
    MaxAddrs = 2
    Retries = 3
    MaxCells = 3
    StartingCapacity = 1
    MaxNesting = 1
    Names <- MemberNames
    Scalars <- JsonScalars
    Base = 4
    Len16 = 2
    TextFrame = 1
    PongFrame = 2
    ClosingFrame = 3
    Xor <- ByteXor
    Inputs <- KindsOfFrames
    PingWord <- Ping
    CloseWord <- Close
    Hellos <- HelloWords
    Outputs <- MessagesOut
    WrongMessage <- RawText
    MaxOutBuff = 4
    MaxRead = 8
    MaxFrames = 3
    Letters <- FormatLetters
    Pieces <- FormatPieces
    Vectors <- FormatVectors
    MaxSize = 10
    MaxCount = 2
CHECK_DEADLOCK FALSE
INVARIANTS
    TypeOK
    Terminated
    RepliesInOrder
    CommandsWhole
    UsedCounts
    UsersTypeOK
    ListedOnce
    StringKept
    DescriptorsAccounted
    ErrorsTold
    OneOwner
    TextKept
    DotSetReaches
    FramesInStep
PROPERTIES
    IsQueue
    IsMap
    IsUsersList
