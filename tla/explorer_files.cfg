\* Files read, written, copied and renamed while others use them; every call may fail.
CONSTANTS
    Names = {"a", "b"}
    LinkTo = "a"
    MaxInode = 2
    MaxSize = 4
    MaxPath = 1
    Descriptors = {"3", "4"}
    InitKinds = {"file"}
    InitContents <- OneContent
    Aliases = FALSE
    Paths <- RelativePaths
    Texts <- OneText
    Offsets = {0, 1}
    IO_BUF_SIZE = 2
    LseekBytes = 1
    MaxFaults = 1
    OtherActs = {"append", "unlink"}
    MaxOtherActs = 1
    MenuChoices = {"create", "read", "write", "lseek", "copy"}
SPECIFICATION HFairSpec
INVARIANTS
    TypeOK
    OnlyHeldAreOpen
    
PROPERTIES
    TransfersFaithfully
    AppendsOnly
    TransfersEnd
