\* Every range at its smallest that keeps its edges; two or three stores.
SPECIFICATION MCSpec
CONSTANTS
    FrequencyLimit = 4
    LowRange = 2
    LengthRange = 2
    MaxVolume = 2
    DefaultPeriod = 2
    PulseScale = 1
    WaveScale = 1
    Samples = 2
    NoisePeriods = {1, 2}
    TimerRange = 4
    WideBit = 3
    NarrowBit = 1
    ByteMax = 7
    frame_sequence_count = 2
    down_sample_count = 2
    sample_size = 4
    TickCycles = {3}
    MaxStores <- MCMaxStores
    Program <- MCProgram
INVARIANTS TypeOK SilentWhenDisabled NoteLength NoiseKeepsRunning
PROPERTIES ConstantRate DisabledFallsSilent
