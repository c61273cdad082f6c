------------------------------- MODULE MCApu -------------------------------
(***************************************************************************)
(* Apu with a program that plays one of the channels, with a bounded       *)
(* number of stores at any moments, and with history variables for the     *)
(* note being played, the width of the noise and the pace of the samples.  *)
(***************************************************************************)
EXTENDS Apu

CONSTANT MaxStores    \* by channel

VARIABLES
    used,        \* the channel the program plays
    stores,      \* the stores it has made
    note,        \* the length of the note since its trigger, 0 if not followed
    age,         \* steps of the frame sequencer since then
    resized,     \* NR43 changed the width since the last trigger
    since        \* cycles run since a buffer was handed over, for channel 2

history == <<used, stores, note, age, resized, since>>
mcvars == <<vars, history>>

Played == CASE used = 1 -> channel_1 [] used = 2 -> channel_2
            [] used = 3 -> channel_3 [] used = 4 -> channel_4

MCMaxStores == <<3, 3, 5, 3>>

\* Sweeps and envelopes that are off, rise and fall; triggers with the length
\* counted or not, at the higher frequencies, whose sweep passes the limit.
MCProgram ==
    [channel : {1}, reg : {"sweep"}, period : {1}, down : BOOLEAN, shift : {1}]
    \cup [channel : {2}, reg : {"wave_data"}, duty : {2}, length : 0..LengthRange - 1]
    \cup {[channel |-> s[1], reg |-> "envelope", initial |-> s[2], up |-> s[3],
           period |-> s[2]] :
            s \in {<<1, 1, FALSE>>, <<2, 0, FALSE>>, <<2, 1, FALSE>>, <<2, 1, TRUE>>,
                   <<4, 1, FALSE>>}}
    \cup [channel : {1}, reg : {"freq_data"}, low : {0}]
    \cup [channel : {1}, reg : {"freq_control"}, trigger : {TRUE},
          use_counter : {TRUE}, high : {1}]
    \cup [channel : {2, 3, 4}, reg : {"freq_control"}, trigger : {TRUE},
          use_counter : BOOLEAN, high : {1}]
    \cup [channel : {2, 3}, reg : {"freq_control"}, trigger : {FALSE},
          use_counter : {TRUE}, high : {1}]
    \cup [channel : {3}, reg : {"enable"}, on : {TRUE}]
    \cup [channel : {3}, reg : {"sound_length"}, length : {1}]
    \cup [channel : {4}, reg : {"sound_length"}, length : {0}]
    \cup [channel : {3}, reg : {"output_level"}, muted : {FALSE}]
    \cup {[channel |-> 4, reg |-> "polynomial_counter", period |-> 1, narrow |-> TRUE],
          [channel |-> 4, reg |-> "polynomial_counter", period |-> 2, narrow |-> FALSE]}

\* Only stores leave the loop's cycles as they are.
IsStore == cycles' = cycles
Trigger == /\ IsStore
           /\ \E w \in Program : /\ w.channel = used /\ w.reg = "freq_control"
                                 /\ w.trigger /\ Store(w)

HandOver == cycles > 0 /\ buffer_full

\* Time starts before the last store, which of the noise channel ends the sound;
\* the volume registers are for channel 2.
Focus ==
    /\ IF IsStore THEN stores < MaxStores[used] ELSE stores >= MaxStores[used] - 1
    /\ IsStore /\ used = 4 /\ stores = 2 => ~power_on'
    /\ IsStore /\ power_on' => control' = control \/ used = 2
    /\ IsStore /\ power_on' = power_on =>
          /\ used # 1 => UNCHANGED channel_1
          /\ used # 2 => UNCHANGED channel_2
          /\ IF used = 3 THEN wave_pattern' \in {wave_pattern, {0}}
                         ELSE UNCHANGED <<channel_3, wave_pattern>>
          /\ used # 4 => UNCHANGED channel_4

History ==
    /\ used' = used
    /\ stores' = IF IsStore THEN stores + 1 ELSE stores
    /\ note' = IF ~Played'.use_counter \/ ~power_on' THEN 0
               ELSE IF Trigger THEN Played'.length_counter
               ELSE note
    /\ age' = IF note' = 0 \/ Trigger THEN 0
              ELSE IF cycles > 0 /\ clock /\ Played.length_counter > 0 THEN age + 1
              ELSE age
    /\ resized' = /\ ~Trigger
                  /\ resized \/ channel_4'.narrow # channel_4.narrow
    /\ since' = IF HandOver \/ used # 2 THEN 0
                ELSE IF cycles = 0 /\ ~IsStore THEN since + cycles' ELSE since

MCInit ==
    /\ Init
    /\ used \in 1..4
    /\ stores = 0 /\ note = 0 /\ age = 0 /\ resized = FALSE /\ since = 0
MCNext == Next /\ Focus /\ History
MCSpec == MCInit /\ [][MCNext]_mcvars /\ WF_mcvars(Run /\ History)

-----------------------------------------------------------------------------
\* Counters and registers stay within their ranges: the sweep leaves no
\* frequency of 2048 or more, the envelope no volume above 15, and the buffer
\* is never written past its end (pulse_channel.cpp:68-115, apu.cpp:174-183).
TypeOK ==
    /\ \A c \in {channel_1, channel_2} :
          /\ c.frequency \in 0..FrequencyLimit - 1
          /\ c.shadow \in 0..FrequencyLimit - 1
          /\ c.timer \in 0..FrequencyLimit * PulseScale
          /\ c.length_counter \in 0..LengthRange
    /\ \A c \in {channel_1, channel_2, channel_4} :
          c.volume \in 0..MaxVolume /\ c.output \in 0..MaxVolume
    /\ channel_3.length_counter \in 0..ByteMax
    /\ channel_4.length_counter \in 0..ByteMax
    /\ channel_4.lfsr \in 0..2^(WideBit + 1) - 1
    /\ channel_4.timer \in 0..TimerRange - 1
    /\ frame_sequencer \in 0..7
    /\ frame_sequencer_counter \in 0..frame_sequence_count
    /\ down_sample_counter \in 1..down_sample_count
    /\ buffer_fill_amount \in 0..sample_size - 2

\* A pulse channel that NR52 reports as off puts out nothing, whether its
\* length, its sweep or the power switch ended the note, or its trigger came
\* with a sweep out of range (pulse_channel.cpp:57-66, 117-178).
SilentWhenDisabled ==
    \A c \in {channel_1, channel_2} : ~c.enabled => c.output = 0

\* A note triggered with its length counted ends after that many clicks, two
\* steps of the frame sequencer each, whatever the phase of the sequencer at
\* the trigger and whatever is stored meanwhile (apu.cpp:139-166).
NoteLength ==
    note > 0 => /\ Played.enabled => age < 2 * note
                /\ Played.length_counter = 0 => age >= 2 * note - 1

\* From one buffer to the next the machine runs the cycles that the samples in
\* it stand for, and fewer than one instruction more: the cycles dropped when a
\* buffer is full do not add up (apu.cpp:174-183).
buffer_cycles == (sample_size \div 2) * down_sample_count
ConstantRate ==
    [][HandOver /\ used = 2 => \E n \in TickCycles :
                      since \in buffer_cycles..buffer_cycles + n - 1]_mcvars

\* The noise register never runs empty, which would end the noise until the
\* next trigger, unless its width changed since (noise_channel.cpp:62-71).
NoiseKeepsRunning ==
    channel_4.enabled /\ ~resized => channel_4.lfsr # 0

\* The wave and the noise channel, whose last level stands when the length or
\* the power switch ends the note, fall silent with their next sample.
DisabledFallsSilent ==
    []<>(Played.enabled \/ Played.output = 0)
=============================================================================
