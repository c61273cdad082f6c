-------------------------------- MODULE Apu --------------------------------
(***************************************************************************)
(* The sound unit (gameboy/src/apu/apu.cpp): four channels, the frame      *)
(* sequencer that clicks their lengths, sweep and envelopes, the power     *)
(* switch and the buffer of samples handed to the audio output.            *)
(*                                                                         *)
(* gameboy::tick hands over the cycles of an instruction with apu::tick,   *)
(* whose loop takes them one at a time; the program's stores to the        *)
(* registers come between two such calls.  What a sample is worth is left  *)
(* out, with the volume and routing registers NR50 and NR51 one value.     *)
(***************************************************************************)
EXTENDS Integers

CONSTANTS
    FrequencyLimit, LowRange, LengthRange, MaxVolume, DefaultPeriod,
    PulseScale, WaveScale, Samples, NoisePeriods, TimerRange, WideBit, NarrowBit,
    ByteMax,                \* 255, what reset() leaves in two length registers
    frame_sequence_count,   \* 8192 cycles to a step of the frame sequencer
    down_sample_count,      \* 4194304 / 44100 cycles to a sample
    sample_size,            \* 4096, two to a sample
    TickCycles,             \* what instructions report
    Program                 \* the stores the program makes, see Store

\* What on_write() takes from the byte stored, by channel and register.
Period3 == 0..DefaultPeriod - 1
Stores ==
    [channel : {1}, reg : {"sweep"}, period : Period3, down : BOOLEAN, shift : Period3]
    \cup [channel : {1, 2}, reg : {"wave_data"}, duty : 0..3, length : 0..LengthRange - 1]
    \cup [channel : {1, 2, 4}, reg : {"envelope"}, initial : 0..MaxVolume, up : BOOLEAN,
          period : Period3]
    \cup [channel : {1, 2, 3}, reg : {"freq_data"}, low : 0..LowRange - 1]
    \cup [channel : 1..4, reg : {"freq_control"}, trigger : BOOLEAN,
          use_counter : BOOLEAN, high : 0..(FrequencyLimit \div LowRange) - 1]
    \cup [channel : {3}, reg : {"enable"}, on : BOOLEAN]
    \cup [channel : {3}, reg : {"sound_length"}, length : 0..ByteMax]
    \cup [channel : {3}, reg : {"output_level"}, muted : BOOLEAN]
    \cup [channel : {4}, reg : {"sound_length"}, length : 0..LengthRange - 1]
    \cup [channel : {4}, reg : {"polynomial_counter"}, period : NoisePeriods,
          narrow : BOOLEAN]

ASSUME ApuAssumption ==
    /\ {FrequencyLimit, LowRange, LengthRange, PulseScale, WaveScale, Samples,
        ByteMax, TimerRange, frame_sequence_count, down_sample_count, sample_size}
           \subseteq Nat \ {0}
    /\ FrequencyLimit % LowRange = 0
    /\ LengthRange <= ByteMax
    /\ MaxVolume \in Nat
    /\ DefaultPeriod \in 1..8
    /\ NoisePeriods # {} /\ NoisePeriods \subseteq 1..TimerRange - 1
    /\ WideBit \in 1..14 /\ NarrowBit \in 1..WideBit - 2
    /\ sample_size % 2 = 0
    /\ TickCycles \subseteq Nat \ {0}
    /\ Program \subseteq Stores

VARIABLES
    power_on,
    channel_1, channel_2, channel_3, channel_4,
    control,                  \* NR50 and NR51
    wave_pattern,             \* the samples heard at the output level
    frame_sequencer_counter, frame_sequencer,
    down_sample_counter, buffer_fill_amount,
    cycles                    \* what is left of those handed to tick()

channels == <<channel_1, channel_2, channel_3, channel_4>>
sequencer == <<frame_sequencer_counter, frame_sequencer>>
sampler == <<down_sample_counter, buffer_fill_amount>>
vars == <<power_on, channels, control, wave_pattern, sequencer, sampler, cycles>>

Pulse == INSTANCE PulseChannel
Wave == INSTANCE WaveChannel
Noise == INSTANCE NoiseChannel

\* The noise period for NR43 = 0.
LowestPeriod == CHOOSE p \in NoisePeriods : \A q \in NoisePeriods : p <= q

\* Registers after reset(), cut to the ranges of the instance.  Channel 2 has
\* a sweep register of all ones that no address reaches.
Top(n, range) == IF n < range THEN n ELSE range - 1

Init ==
    /\ power_on = TRUE
    /\ channel_1 = Pulse!Channel(0, FALSE, 2, MaxVolume, Top(3, DefaultPeriod), TRUE)
    /\ channel_2 = Pulse!Channel(Top(7, DefaultPeriod), TRUE, 0, 0, 0, FALSE)
    /\ channel_3 = [sound_length |-> ByteMax, muted |-> TRUE, use_counter |-> FALSE,
                    frequency |-> FrequencyLimit - 1, length_counter |-> 0,
                    timer |-> 0, index |-> 0, output |-> 0, enabled |-> FALSE,
                    dac_enabled |-> FALSE]
    /\ channel_4 = [sound_length |-> ByteMax, initial_volume |-> 0, envelope_up |-> FALSE,
                    envelope_period |-> 0, envelope_timer |-> 0, use_counter |-> FALSE,
                    period |-> LowestPeriod,
                    narrow |-> FALSE, timer |-> 0, lfsr |-> 0, output |-> 0,
                    length_counter |-> 0, volume |-> 0, enabled |-> FALSE,
                    dac_enabled |-> FALSE]
    /\ control = 1
    /\ wave_pattern = {}
    /\ frame_sequencer_counter = frame_sequence_count
    /\ frame_sequencer = 0
    /\ down_sample_counter = down_sample_count
    /\ buffer_fill_amount = 0
    /\ cycles = 0

-----------------------------------------------------------------------------
\* tick(): the loop is entered with the cycles of one instruction.
Tick(n) ==
    /\ cycles = 0
    /\ cycles' = n
    /\ UNCHANGED <<power_on, channels, control, wave_pattern, sequencer, sampler>>

If(condition, Operation(_), c) == IF condition THEN Operation(c) ELSE c

clock == frame_sequencer_counter = 0
\* A defect the checks notice: the steps that sweep click no lengths.
lengthStepHalf == clock /\ frame_sequencer \in {0, 4}
length_step == clock /\ frame_sequencer \in {0, 2, 4, 6}
sweep_step == clock /\ frame_sequencer \in {2, 6}
envelope_step == clock /\ frame_sequencer = 7

sampled == down_sample_counter = 1
\* A defect the checks notice: the buffer is handed over one sample early.
bufferFullEarly == sampled /\ buffer_fill_amount + 4 = sample_size
buffer_full == sampled /\ buffer_fill_amount + 2 = sample_size

\* One turn of the loop: the clicks that are due, a tick of each channel, and
\* a sample every down_sample_count turns.  A full buffer ends the loop before
\* its counters are stepped: what was left of the cycles is dropped.
Cycle ==
    /\ cycles > 0
    /\ channel_1' = Pulse!tick(If(envelope_step, Pulse!envelope_click,
                       If(length_step, Pulse!length_click,
                          If(sweep_step, Pulse!sweep_click, channel_1))))
    /\ channel_2' = Pulse!tick(If(envelope_step, Pulse!envelope_click,
                       If(length_step, Pulse!length_click, channel_2)))
    /\ channel_3' = Wave!tick(If(length_step, Wave!length_click, channel_3),
                              wave_pattern)
    /\ channel_4' = Noise!tick(If(envelope_step, Pulse!envelope_click,
                       If(length_step, Noise!length_click, channel_4)))
    /\ frame_sequencer' = IF clock THEN (frame_sequencer + 1) % 8 ELSE frame_sequencer
    /\ frame_sequencer_counter' =
          (IF clock THEN frame_sequence_count ELSE frame_sequencer_counter)
          - (IF buffer_full THEN 0 ELSE 1)
    /\ down_sample_counter' = IF sampled THEN down_sample_count
                                         ELSE down_sample_counter - 1
    /\ buffer_fill_amount' = CASE buffer_full -> 0
                               [] sampled /\ ~buffer_full -> buffer_fill_amount + 2
                               [] OTHER -> buffer_fill_amount
    /\ cycles' = IF buffer_full THEN 0 ELSE cycles - 1
    /\ UNCHANGED <<power_on, control, wave_pattern>>

\* on_write() to a register of a channel: a store is a channel and what it
\* writes, by register.
StorePulse(c, w) ==
    CASE w.reg = "sweep" -> Pulse!WriteSweep(c, w.period, w.down, w.shift)
      [] w.reg = "wave_data" -> Pulse!WriteWaveData(c, w.duty, w.length)
      [] w.reg = "envelope" -> Pulse!WriteEnvelope(c, w.initial, w.up, w.period)
      [] w.reg = "freq_data" -> Pulse!WriteFreqData(c, w.low)
      [] w.reg = "freq_control" ->
           Pulse!WriteFreqControl(c, w.trigger, w.use_counter, w.high)
StoreWave(c, w) ==
    CASE w.reg = "enable" -> Wave!WriteEnable(c, w.on)
      [] w.reg = "sound_length" -> Wave!WriteSoundLength(c, w.length)
      [] w.reg = "output_level" -> Wave!WriteOutputLevel(c, w.muted)
      [] w.reg = "freq_data" -> Wave!WriteFreqData(c, w.low)
      [] w.reg = "freq_control" ->
           Wave!WriteFreqControl(c, w.trigger, w.use_counter, w.high)
StoreNoise(c, w) ==
    CASE w.reg = "sound_length" -> Noise!WriteSoundLength(c, w.length)
      [] w.reg = "envelope" -> Noise!WriteEnvelope(c, w.initial, w.up, w.period)
      [] w.reg = "polynomial_counter" ->
           Noise!WritePolynomialCounter(c, w.period, w.narrow)
      [] w.reg = "freq_control" -> Noise!WriteControl(c, w.trigger, w.use_counter)
Store(w) ==
    /\ cycles = 0
    /\ power_on
    /\ channel_1' = IF w.channel = 1 THEN StorePulse(channel_1, w) ELSE channel_1
    /\ channel_2' = IF w.channel = 2 THEN StorePulse(channel_2, w) ELSE channel_2
    /\ channel_3' = IF w.channel = 3 THEN StoreWave(channel_3, w) ELSE channel_3
    /\ channel_4' = IF w.channel = 4 THEN StoreNoise(channel_4, w) ELSE channel_4
    /\ UNCHANGED <<power_on, control, wave_pattern, sequencer, sampler, cycles>>

WriteControl(data) ==
    /\ cycles = 0
    /\ power_on
    /\ control' = data
    /\ UNCHANGED <<power_on, channels, wave_pattern, sequencer, sampler, cycles>>

\* on_wave_pattern_write(), which the power switch does not guard.
WriteWavePattern(heard) ==
    /\ cycles = 0
    /\ wave_pattern' = heard
    /\ UNCHANGED <<power_on, channels, control, sequencer, sampler, cycles>>

\* on_write() to NR52.  Bit 7 clear writes zero to the other registers, which
\* has no effect when the power is off already, and disables the channels.
PulseOff(c) ==
    Pulse!WriteFreqControl(Pulse!WriteFreqData(Pulse!WriteEnvelope(
        Pulse!WriteWaveData(c, 0, 0), 0, FALSE, 0), 0), FALSE, FALSE, 0)
SweptPulseOff(c) == PulseOff(Pulse!WriteSweep(c, 0, FALSE, 0))
WaveOff(c) ==
    Wave!WriteFreqControl(Wave!WriteFreqData(Wave!WriteOutputLevel(
        Wave!WriteSoundLength(Wave!WriteEnable(c, FALSE), 0), TRUE), 0), FALSE, FALSE, 0)
NoiseOff(c) ==
    Noise!WriteControl(Noise!WritePolynomialCounter(Noise!WriteEnvelope(
        Noise!WriteSoundLength(c, 0), 0, FALSE, 0), LowestPeriod, FALSE), FALSE, FALSE)
PowerOff ==
    /\ cycles = 0
    /\ channel_1' = Pulse!disable(If(power_on, SweptPulseOff, channel_1))
    /\ channel_2' = Pulse!disable(If(power_on, PulseOff, channel_2))
    /\ channel_3' = Wave!disable(If(power_on, WaveOff, channel_3))
    /\ channel_4' = Noise!disable(If(power_on, NoiseOff, channel_4))
    /\ control' = 0
    /\ power_on' = FALSE
    /\ UNCHANGED <<wave_pattern, sequencer, sampler, cycles>>
PowerOn ==
    /\ cycles = 0
    /\ ~power_on
    /\ frame_sequencer' = 0
    /\ frame_sequencer_counter' = frame_sequence_count
    /\ power_on' = TRUE
    /\ UNCHANGED <<channels, control, wave_pattern, sampler, cycles>>

-----------------------------------------------------------------------------
Write ==
    \/ \E w \in Program : Store(w)
    \/ \E data \in {0, 1} : WriteControl(data)
    \/ \E heard \in SUBSET {0, 1} : WriteWavePattern(heard)
    \/ PowerOff
    \/ PowerOn

Run == Cycle \/ \E n \in TickCycles : Tick(n)
Next == Run \/ Write

\* gameboy::tick is called again and again.
Spec == Init /\ [][Next]_vars /\ WF_vars(Run)
=============================================================================
