---------------------------- MODULE NoiseChannel ----------------------------
(***************************************************************************)
(* The noise channel (gameboy/src/apu/noise_channel.cpp), as operators on  *)
(* a record; its envelope is that of a pulse channel.                      *)
(***************************************************************************)
EXTENDS Integers

CONSTANTS
    LengthRange,      \* lengths are below 64
    ByteMax,          \* 255
    DefaultPeriod,    \* 8
    NoisePeriods,     \* divisor << shift, over the values of NR43
    TimerRange,       \* the timer is an unsigned 32-bit number
    WideBit,          \* 14: where a shift of the whole register feeds back
    NarrowBit         \* 6: where it does with the 7-bit width

FeedBack(lfsr) == (lfsr + (lfsr \div 2)) % 2

\* A defect the checks notice: a register that feeds its lowest bit back alone.
shiftWithoutXor(lfsr, narrow) ==
    lfsr \div 2 + (IF narrow THEN 0 ELSE (lfsr % 2) * 2^WideBit)

\* The narrow width keeps bit NarrowBit + 1 and those below NarrowBit.
shift_register_click(lfsr, narrow) ==
    LET wide == lfsr \div 2 + FeedBack(lfsr) * 2^WideBit
        kept == (wide % 2^NarrowBit)
                + (IF (wide \div 2^(NarrowBit + 1)) % 2 = 1 THEN 2^(NarrowBit + 1) ELSE 0)
    IN  IF narrow THEN kept + FeedBack(lfsr) * 2^NarrowBit ELSE wide

tick(c) ==
    IF c.timer # 1 THEN [c EXCEPT !.timer = (@ - 1) % TimerRange]
    ELSE LET lfsr == shift_register_click(c.lfsr, c.narrow)
         IN  [c EXCEPT !.timer = c.period, !.lfsr = lfsr,
                       !.output = IF c.enabled /\ c.dac_enabled /\ lfsr % 2 = 0
                                  THEN c.volume ELSE 0]

length_click(c) ==
    IF c.length_counter > 0 /\ c.use_counter
    THEN [c EXCEPT !.length_counter = @ - 1,
                   !.enabled = @ /\ c.length_counter > 1]
    ELSE c

\* The length register is a whole byte until it is written.
restart(c) ==
    [c EXCEPT !.enabled = TRUE,
              !.length_counter = (LengthRange - c.sound_length) % (ByteMax + 1),
              !.timer = c.period,
              !.envelope_timer =
                  IF c.envelope_period = 0 THEN DefaultPeriod ELSE c.envelope_period,
              !.volume = c.initial_volume,
              !.lfsr = 2^(WideBit + 1) - 1]

disable(c) == [c EXCEPT !.length_counter = 0, !.enabled = FALSE]

-----------------------------------------------------------------------------
\* on_write(), by register.
WriteSoundLength(c, length) == [c EXCEPT !.sound_length = length]
WriteEnvelope(c, initial, up, period) ==
    [c EXCEPT !.dac_enabled = initial > 0 \/ up, !.initial_volume = initial,
              !.envelope_up = up, !.envelope_period = period]
WritePolynomialCounter(c, period, narrow) ==
    [c EXCEPT !.period = period, !.narrow = narrow]
WriteControl(c, trigger, use_counter) ==
    LET d == [c EXCEPT !.use_counter = use_counter]
    IN  IF trigger THEN restart(d) ELSE d
=============================================================================
