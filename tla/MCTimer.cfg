\* Every instruction length, the interrupt dispatch included.
SPECIFICATION FairSpec
CONSTANTS
    ClockMod = 64
    TimaMod = 4
    TickCycles <- AllCycles
    TacSelects = {1, 2}
INVARIANTS LockIsInstructionLocal
PROPERTIES WindowEndsAtNextTick ImplementsIdeal RunningTimerInterrupts
