---------------------------- MODULE WaveChannel ----------------------------
(***************************************************************************)
(* The wave channel (gameboy/src/apu/wave_channel.cpp), as operators on a  *)
(* record.  Of the pattern a sample is some level, of the output level     *)
(* only whether it mutes.                                                  *)
(***************************************************************************)
EXTENDS Integers

CONSTANTS
    FrequencyLimit,   \* frequencies are below 2048
    LowRange,         \* the low byte of a frequency has 256 values
    WaveScale,        \* 2 cycles to a step of the lowest wave period
    Samples           \* 32 samples in the pattern

reset_timer(c) == [c EXCEPT !.timer = (FrequencyLimit - c.frequency) * WaveScale]

\* A defect the checks notice: a channel that is off does not take a sample.
tickHoldsLevel(c, pattern) ==
    IF c.timer > 1 THEN [c EXCEPT !.timer = @ - 1]
    ELSE LET d == [reset_timer(c) EXCEPT !.index = (@ + 1) % Samples]
         IN  [d EXCEPT !.output = IF ~d.enabled THEN @
                                  ELSE IF d.dac_enabled /\ ~d.muted
                                          /\ d.index \in pattern THEN 1 ELSE 0]
\* pattern is the set of samples that are not zero.
tick(c, pattern) ==
    IF c.timer > 1 THEN [c EXCEPT !.timer = @ - 1]
    ELSE LET d == [reset_timer(c) EXCEPT !.index = (@ + 1) % Samples]
         IN  [d EXCEPT !.output = IF d.enabled /\ d.dac_enabled /\ ~d.muted
                                     /\ d.index \in pattern THEN 1 ELSE 0]

length_click(c) ==
    IF c.length_counter > 0 /\ c.use_counter
    THEN [c EXCEPT !.length_counter = @ - 1,
                   !.enabled = @ /\ c.length_counter > 1]
    ELSE c

\* The length is counted as written, not as what is left of 256.
restart(c) ==
    reset_timer([c EXCEPT !.enabled = TRUE, !.index = 0,
                          !.length_counter = c.sound_length])

disable(c) == [c EXCEPT !.length_counter = 0, !.enabled = FALSE]

-----------------------------------------------------------------------------
\* on_write(), by register.
WriteEnable(c, on) == [c EXCEPT !.dac_enabled = on]
WriteSoundLength(c, length) == [c EXCEPT !.sound_length = length]
WriteOutputLevel(c, muted) == [c EXCEPT !.muted = muted]
WriteFreqData(c, low) ==
    [c EXCEPT !.frequency = (@ \div LowRange) * LowRange + low]
WriteFreqControl(c, trigger, use_counter, high) ==
    LET d == [c EXCEPT !.use_counter = use_counter,
                       !.frequency = high * LowRange + (@ % LowRange)]
    IN  IF trigger THEN restart(d) ELSE d
=============================================================================
