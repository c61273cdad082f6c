---------------------------- MODULE PulseChannel ----------------------------
(***************************************************************************)
(* A pulse channel (gameboy/src/apu/pulse_channel.cpp), as operators on a  *)
(* record that has its registers by field and its counters.  The widths of *)
(* the registers are constants, so that small instances have every edge.   *)
(***************************************************************************)
EXTENDS Integers

CONSTANTS
    FrequencyLimit,   \* frequencies are below 2048
    LowRange,         \* the low byte of a frequency has 256 values
    LengthRange,      \* lengths of pulse and noise are below 64
    MaxVolume,        \* 15
    DefaultPeriod,    \* 8, the period of a sweep or envelope without one
    PulseScale        \* 4 cycles to a step of the lowest pulse period

\* waveform, a row for each duty.
waveform == <<{7}, {0, 7}, {0, 5, 6, 7}, {1, 2, 3, 4, 5, 6}>>

Period(period) == IF period = 0 THEN DefaultPeriod ELSE period
reset_timer(c) == [c EXCEPT !.timer = (FrequencyLimit - c.frequency) * PulseScale]
adjust_waveform_duty_index(c) == [c EXCEPT !.level = c.index \in waveform[c.duty + 1]]
adjust_output_volume(c) ==
    [c EXCEPT !.output = IF c.enabled /\ c.dac_enabled /\ c.level THEN c.volume ELSE 0]

\* A defect the checks notice: the end of a note leaves the last level standing.
silenceLate(c) == [c EXCEPT !.enabled = FALSE]
silence(c) == [c EXCEPT !.enabled = FALSE, !.output = 0]

tick(c) ==
    IF c.timer > 1 THEN [c EXCEPT !.timer = @ - 1]
    ELSE adjust_output_volume(adjust_waveform_duty_index(
            reset_timer([c EXCEPT !.index = (@ + 1) % 8])))

length_click(c) ==
    IF c.length_counter > 0 /\ c.use_counter
    THEN LET d == [c EXCEPT !.length_counter = @ - 1]
         IN  IF d.length_counter = 0 THEN silence(d) ELSE d
    ELSE c

SweepFrequency(c) ==
    LET delta == c.shadow \div 2^c.sweep_shift
    IN  IF c.sweep_down THEN c.shadow - delta ELSE c.shadow + delta
\* The calculation only silences the channel; its value is for sweep_click.
sweep_calculation(c) ==
    IF SweepFrequency(c) >= FrequencyLimit THEN silence(c) ELSE c

\* A defect the checks notice: the frequency is taken before it is checked.
sweepClickUnchecked(c) ==
    IF c.sweep_timer > 1 THEN [c EXCEPT !.sweep_timer = @ - 1]
    ELSE LET d == [c EXCEPT !.sweep_timer = Period(c.sweep_period)]
         IN  IF d.sweep_enabled /\ d.sweep_period > 0 /\ d.sweep_shift > 0
             THEN sweep_calculation([d EXCEPT !.shadow = SweepFrequency(d),
                                              !.frequency = SweepFrequency(d)])
             ELSE d
sweep_click(c) ==
    IF c.sweep_timer > 1 THEN [c EXCEPT !.sweep_timer = @ - 1]
    ELSE LET d == [c EXCEPT !.sweep_timer = Period(c.sweep_period)]
             moved == SweepFrequency(d) < FrequencyLimit /\ d.sweep_shift > 0
         IN  IF ~(d.sweep_enabled /\ d.sweep_period > 0) THEN d
             ELSE sweep_calculation(
                    IF moved
                    THEN sweep_calculation([d EXCEPT !.shadow = SweepFrequency(d),
                                                     !.frequency = SweepFrequency(d)])
                    ELSE sweep_calculation(d))

\* The same in noise_channel.cpp.
envelope_click(c) ==
    IF c.envelope_timer > 1 THEN [c EXCEPT !.envelope_timer = @ - 1]
    ELSE [c EXCEPT !.envelope_timer = Period(c.envelope_period),
                   !.volume = CASE c.envelope_period # 0 /\ c.envelope_up /\ @ < MaxVolume -> @ + 1
                                [] c.envelope_period # 0 /\ ~c.envelope_up /\ @ > 0 -> @ - 1
                                [] OTHER -> @]

restart(c) ==
    LET d == reset_timer(
               [c EXCEPT !.enabled = TRUE,
                         !.length_counter = LengthRange - c.sound_length,
                         !.volume = c.initial_volume,
                         !.envelope_timer = c.envelope_period,
                         !.sweep_enabled = c.sweep_period > 0 \/ c.sweep_shift > 0,
                         !.sweep_timer = Period(c.sweep_period),
                         !.shadow = c.frequency])
    IN  adjust_output_volume(IF c.sweep_shift > 0 THEN sweep_calculation(d) ELSE d)

disable(c) == [silence(c) EXCEPT !.length_counter = 0]

-----------------------------------------------------------------------------
\* on_write(), by register.
WriteSweep(c, period, down, shift) ==
    [c EXCEPT !.sweep_period = period, !.sweep_down = down, !.sweep_shift = shift]
WriteWaveData(c, duty, length) ==
    adjust_output_volume(adjust_waveform_duty_index(
        [c EXCEPT !.duty = duty, !.sound_length = length]))
WriteEnvelope(c, initial, up, period) ==
    adjust_output_volume([c EXCEPT !.dac_enabled = initial > 0 \/ up,
                                   !.initial_volume = initial, !.envelope_up = up,
                                   !.envelope_period = period,
                                   !.envelope_timer = period, !.volume = initial])
WriteFreqData(c, low) ==
    [c EXCEPT !.frequency = (@ \div LowRange) * LowRange + low]
WriteFreqControl(c, trigger, use_counter, high) ==
    LET d == [c EXCEPT !.use_counter = use_counter,
                       !.frequency = high * LowRange + (@ % LowRange)]
    IN  IF trigger THEN restart(d) ELSE d

Channel(sweep, down, duty, initial, period, on) ==
    [sweep_period |-> sweep, sweep_down |-> down, sweep_shift |-> sweep,
     duty |-> duty, sound_length |-> LengthRange - 1,
     initial_volume |-> initial, envelope_up |-> FALSE, envelope_period |-> period,
     frequency |-> FrequencyLimit - 1, use_counter |-> FALSE,
     sweep_enabled |-> FALSE, sweep_timer |-> 0, shadow |-> 0, envelope_timer |-> 0,
     timer |-> 0, index |-> 0, level |-> FALSE, length_counter |-> 0, volume |-> 0,
     output |-> 0, enabled |-> on, dac_enabled |-> FALSE]
=============================================================================
