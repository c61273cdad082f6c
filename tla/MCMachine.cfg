\* A program that switches the screen on and off, and stops the machine.
SPECIFICATION MCSpec
CONSTANTS
    Sources = {"lcd_vblank", "joypad"}
    OrdinaryCycles = {24}
    ClockMod = 4
    TimaMod = 2
    TacSelects = {1}
    ScreenHeight = 1
    VblankLines = 1
    Program = {"LCDC", "LY", "IE", "RETI", "STOP"}
    EnableWrites = {{"joypad"}}
PROPERTIES ImplementsCpu OneFrameAtATime
