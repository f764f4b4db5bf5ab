\* Two names of one file, copied one onto the other.
CONSTANTS
    Names = {"a", "b"}
    LinkTo = "a"
    MaxInode = 2
    MaxSize = 4
    MaxPath = 2
    Descriptors = {"3", "4"}
    InitKinds = {"file"}
    InitContents <- OneContent
    Aliases = TRUE
    Paths <- RelativePaths
    Texts <- OneText
    Offsets = {0, 1}
    IO_BUF_SIZE = 2
    LseekBytes = 1
    MaxFaults = 1
    OtherActs = {}
    MaxOtherActs = 0
    MenuChoices = {"copy"}
SPECIFICATION HSpec
INVARIANTS
    CopiedWhole
