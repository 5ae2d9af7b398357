CHECK_DEADLOCK FALSE
SPECIFICATION Spec
SYMMETRY ArgSymmetry
CONSTANTS
    gameThread = gameThread
    audioThread = audioThread
    long = long
    short = short
    Nothing = Nothing
    Walker = gameThread
    Threads <- MCThreads
    Loaders <- MCLoaders
    FallBack <- MCFallBack
    Cap <- MCCap
    Lookers = {gameThread}
    Args <- MCArgs
    this = this
    that = that
    MaxDepth <- MCMaxDepth
    Variants <- MCVariants
    Size <- MCSize
    Slots = {1, 2}
    SlotSize = 2
    MaxOffset = 2
PROPERTIES
    WalkedVariantIsActive
