\* Directories made, removed, renamed, entered and listed while others change them.
CONSTANTS
    Names = {"a", "b"}
    LinkTo = "a"
    MaxInode = 2
    MaxSize = 0
    MaxPath = 2
    Descriptors = {"3", "4"}
    InitKinds = {"file", "dir", "link"}
    InitContents = {}
    Aliases = FALSE
    Paths <- ManyPaths
    Texts <- OneText
    Offsets = {0, 1}
    IO_BUF_SIZE = 2
    LseekBytes = 1
    MaxFaults = 1
    OtherActs = {"create", "unlink", "rmdir", "link"}
    MaxOtherActs = 1
    MenuChoices = {"cwd", "list", "chdir", "mkdir", "rmdir", "rename", "info"}
SPECIFICATION HFairSpec
INVARIANTS
    ListsEachOnce
PROPERTIES
    LosesNoFile
    OperationsReturn
    EndOfInputEnds
