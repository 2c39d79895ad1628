SPECIFICATION Spec
CONSTANTS
    Texts <- OneText
    Configs <- TwoConfigs
    Sizes <- ThreeSizes
    Modes <- SomeModes
    Args <- SmallArgs
    MaxOps = 5
INVARIANTS
    LinesExist
    ErasedStaysErased
PROPERTIES
    ResizeKeepsText
    AlternateLeavesMain
CHECK_DEADLOCK FALSE
