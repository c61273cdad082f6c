\* Two sources of different rank, all of the instruction mix, CGB.
SPECIFICATION MCFairSpec
CONSTANTS
    Sources = {"joypad", "timer"}
    OrdinaryCycles = {4, 16}
    Cgb = TRUE
INVARIANTS DelayIsOneInstruction NoMissedWakeup
PROPERTIES HandlerShielded SleepEnds
