\* A two-line screen, with LY and LCDC writes at any time; comparisons with two
\* lines of it, on a colour machine; transfers on a map of twelve blocks.
SPECIFICATION MCFairSpec
CONSTANTS
    ScreenHeight = 2
    VblankLines = 2
    TickCycles = {4, 24, 44}
    LycValues = {0, 1}
    StatWrites <- SomeEnables
    Cgb = TRUE
    PageBlocks = 1
    VramBegin = 2
    XramBegin = 5
    WramBegin = 7
    BankedBegin = 8
    EchoBegin = 9
    OamBegin = 11
    OamBlocks = 1
    WorkBanks = 3
    DisabledBit = 2
    HdmaPages = {1, 8}
    StoredBlocks = {4, 10, 11}
INVARIANTS LineOnScreen VblankClocksAgree
PROPERTIES FramesComplete StatInterruptsOnce ScreenComesOn FramesGoOn TransferDelivers
