\* One colour machine in all four speeds, or two that exchange bytes; two-bit
\* transfers.
SPECIFICATION MCFairSpec
CONSTANTS
    Bytes = {"open", "data"}
    OpenLine = "open"
    BaseRate = 64
    TransferBits = 2
    ShiftMod = 128
    TickCycles = {20, 44}
    Cgb = TRUE
PROPERTIES EndsOnTime MasterCompletes ImplementsCable
