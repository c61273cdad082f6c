\* A program that leaves the screen on and never stops the machine; keys go down
\* between two frames.
SPECIFICATION FairSpec
CONSTANTS
    Sources = {"lcd_vblank", "timer", "joypad"}
    OrdinaryCycles = {24}
    ClockMod = 16
    TimaMod = 2
    TacSelects = {1}
    ScreenHeight = 1
    VblankLines = 1
    Program = {"ordinary", "TAC", "HALT", "IE"}
    EnableWrites = {{"lcd_vblank", "timer"}}
PROPERTIES FrameReturns HaltsEnd
