----------------------------- MODULE ApuProofs ------------------------------
(***************************************************************************)
(* Theorems about the sound unit, for every size of its counters and every *)
(* program of stores.                                                      *)
(***************************************************************************)
EXTENDS MCApu, WellFoundedInduction, TLAPS

-----------------------------------------------------------------------------
(* Powers of two and quotients. *)

\* The powers of two there are in the sound unit, as a table.
Power(n) ==
    CASE n = 0 -> 1 [] n = 1 -> 2 [] n = 2 -> 4 [] n = 3 -> 8
      [] n = 4 -> 16 [] n = 5 -> 32 [] n = 6 -> 64 [] n = 7 -> 128
      [] n = 8 -> 256 [] n = 9 -> 512 [] n = 10 -> 1024 [] n = 11 -> 2048
      [] n = 12 -> 4096 [] n = 13 -> 8192 [] n = 14 -> 16384 [] n = 15 -> 32768

LEMMA Powers ==
    ASSUME NEW n \in 0..15
    PROVE  2^n = Power(n)
<1>0. /\ 2^0 = 1 /\ 2^1 = 2 /\ 2^2 = 4 /\ 2^3 = 8 /\ 2^4 = 16 /\ 2^5 = 32
      /\ 2^6 = 64 /\ 2^7 = 128 /\ 2^8 = 256 /\ 2^9 = 512 /\ 2^10 = 1024 /\ 2^11 = 2048
      /\ 2^12 = 4096 /\ 2^13 = 8192 /\ 2^14 = 16384 /\ 2^15 = 32768
  OBVIOUS
<1>1. CASE n = 0
  BY <1>0, <1>1 DEF Power
<1>2. CASE n = 1
  BY <1>0, <1>2 DEF Power
<1>3. CASE n = 2
  BY <1>0, <1>3 DEF Power
<1>4. CASE n = 3
  BY <1>0, <1>4 DEF Power
<1>5. CASE n = 4
  BY <1>0, <1>5 DEF Power
<1>6. CASE n = 5
  BY <1>0, <1>6 DEF Power
<1>7. CASE n = 6
  BY <1>0, <1>7 DEF Power
<1>8. CASE n = 7
  BY <1>0, <1>8 DEF Power
<1>9. CASE n = 8
  BY <1>0, <1>9 DEF Power
<1>10. CASE n = 9
  BY <1>0, <1>10 DEF Power
<1>11. CASE n = 10
  BY <1>0, <1>11 DEF Power
<1>12. CASE n = 11
  BY <1>0, <1>12 DEF Power
<1>13. CASE n = 12
  BY <1>0, <1>13 DEF Power
<1>14. CASE n = 13
  BY <1>0, <1>14 DEF Power
<1>15. CASE n = 14
  BY <1>0, <1>15 DEF Power
<1>16. CASE n = 15
  BY <1>0, <1>16 DEF Power
<1> QED
  BY <1>1, <1>2, <1>3, <1>4, <1>5, <1>6, <1>7, <1>8, <1>9, <1>10, <1>11, <1>12, <1>13, <1>14, <1>15, <1>16

LEMMA PowerFacts ==
    ASSUME NEW n \in 0..15
    PROVE  /\ Power(n) \in Nat /\ Power(n) >= 1
           /\ n < 15 => Power(n + 1) = 2 * Power(n)
           /\ n > 0 => Power(n) >= 2
<1>1. n < 15 => n + 1 \in 1..15
  OBVIOUS
<1>2. CASE n = 0
  BY <1>2 DEF Power
<1>3. CASE n = 1
  BY <1>3 DEF Power
<1>4. CASE n = 2
  BY <1>4 DEF Power
<1>5. CASE n = 3
  BY <1>5 DEF Power
<1>6. CASE n = 4
  BY <1>6 DEF Power
<1>7. CASE n = 5
  BY <1>7 DEF Power
<1>8. CASE n = 6
  BY <1>8 DEF Power
<1>9. CASE n = 7
  BY <1>9 DEF Power
<1>10. CASE n = 8
  BY <1>10 DEF Power
<1>11. CASE n = 9
  BY <1>11 DEF Power
<1>12. CASE n = 10
  BY <1>12 DEF Power
<1>13. CASE n = 11
  BY <1>13 DEF Power
<1>14. CASE n = 12
  BY <1>14 DEF Power
<1>15. CASE n = 13
  BY <1>15 DEF Power
<1>16. CASE n = 14
  BY <1>16 DEF Power
<1>17. CASE n = 15
  BY <1>17 DEF Power
<1> QED
  BY <1>2, <1>3, <1>4, <1>5, <1>6, <1>7, <1>8, <1>9, <1>10, <1>11, <1>12, <1>13, <1>14, <1>15, <1>16, <1>17

\* A shift right makes no number larger.
LEMMA ShiftRight ==
    ASSUME NEW value \in Nat, NEW shift \in 0..7
    PROVE  value \div 2^shift \in 0..value
<1>1. \A p \in {1, 2, 4, 8, 16, 32, 64, 128} : value \div p \in 0..value
  OBVIOUS
<1>2. Power(shift) \in {1, 2, 4, 8, 16, 32, 64, 128}
  BY DEF Power
<1>3. 2^shift = Power(shift)
  <2>1. shift \in 0..15
    OBVIOUS
  <2> QED
    BY <2>1, Powers
<1> QED
  BY <1>1, <1>2, <1>3

LEMMA Ordered ==
    ASSUME NEW x \in Nat, NEW y \in Nat, NEW k \in Nat, x <= y
    PROVE  x * k <= y * k /\ x * k \in Nat /\ y * k \in Nat
<1>1. PICK z \in Nat : y = x + z
  <2>1. y - x \in Nat /\ y = x + (y - x)
    OBVIOUS
  <2> QED
    BY <2>1
<1>2. y * k = x * k + z * k
  BY <1>1
<1>3. x * k \in Nat /\ z * k \in Nat
  BY <1>1
<1> QED
  BY <1>2, <1>3

\* A number below high * low in two digits.
LEMMA HighDigit ==
    ASSUME NEW limit \in Nat \ {0}, NEW low \in Nat \ {0}, limit % low = 0,
           NEW high \in 0..(limit \div low) - 1, NEW digit \in 0..low - 1
    PROVE  high * low + digit \in 0..limit - 1
<1> DEFINE n == limit \div low
<1>1. n \in Nat /\ limit = n * low
  OBVIOUS
<1> HIDE DEF n
<1>2. high \in Nat /\ high + 1 <= n
  BY <1>1 DEF n
<1>3. (high + 1) * low <= n * low
  BY <1>1, <1>2, Ordered
<1>4. (high + 1) * low = high * low + low /\ high * low \in Nat
  BY <1>2
<1> QED
  BY <1>1, <1>3, <1>4

LEMMA Digits ==
    ASSUME NEW limit \in Nat \ {0}, NEW low \in Nat \ {0}, limit % low = 0,
           NEW value \in 0..limit - 1
    PROVE  /\ value \div low \in 0..(limit \div low) - 1
           /\ value % low \in 0..low - 1
<1> DEFINE n == limit \div low
           q == value \div low
<1>1. n \in Nat /\ limit = n * low
  OBVIOUS
<1>2. q \in Nat /\ q * low <= value /\ value % low \in 0..low - 1
  OBVIOUS
<1> HIDE DEF n, q
<1>3. q < n
  <2>1. CASE n <= q
    <3>1. n * low <= q * low
      BY <1>1, <1>2, <2>1, Ordered
    <3> QED
      BY <1>1, <1>2, <3>1
  <2> QED
    BY <1>1, <1>2, <2>1
<1> QED
  BY <1>1, <1>2, <1>3 DEF n, q
-----------------------------------------------------------------------------
(* The constants, one by one. *)

LEMMA Sizes ==
    /\ FrequencyLimit \in Nat \ {0} /\ LowRange \in Nat \ {0}
    /\ FrequencyLimit % LowRange = 0 /\ LengthRange <= ByteMax
    /\ LengthRange \in Nat \ {0} /\ ByteMax \in Nat \ {0} /\ MaxVolume \in Nat
    /\ PulseScale \in Nat \ {0} /\ DefaultPeriod \in 1..8
BY ApuAssumption

\* The reload of a pulse timer stays below the period of frequency zero.
LEMMA PulseReload ==
    ASSUME NEW frequency \in 0..FrequencyLimit - 1
    PROVE  (FrequencyLimit - frequency) * PulseScale \in 0..FrequencyLimit * PulseScale
<1>1. FrequencyLimit \in Nat /\ PulseScale \in Nat
  BY Sizes
<1> DEFINE n == FrequencyLimit - frequency
<1>2. n \in Nat /\ n <= FrequencyLimit
  BY <1>1
<1> HIDE DEF n
<1>3. n * PulseScale <= FrequencyLimit * PulseScale /\ n * PulseScale \in Nat
      /\ FrequencyLimit * PulseScale \in Nat
  BY <1>1, <1>2, Ordered
<1>4. n * PulseScale \in 0..FrequencyLimit * PulseScale
  BY <1>3
<1> QED
  BY <1>4 DEF n

-----------------------------------------------------------------------------
(* The pulse channels. *)

PulseFields ==
    {"sweep_period", "sweep_down", "sweep_shift", "duty", "sound_length",
     "initial_volume", "envelope_up", "envelope_period", "frequency", "use_counter",
     "sweep_enabled", "sweep_timer", "shadow", "envelope_timer", "timer", "index",
     "level", "length_counter", "volume", "output", "enabled", "dac_enabled"}

\* A pulse channel with its members in range, but for the level it puts out.
PulseTyped(c) ==
    /\ DOMAIN c = PulseFields
    /\ c.frequency \in 0..FrequencyLimit - 1
    /\ c.shadow \in 0..FrequencyLimit - 1
    /\ c.timer \in 0..FrequencyLimit * PulseScale
    /\ c.length_counter \in 0..LengthRange
    /\ c.sound_length \in 0..LengthRange - 1
    /\ c.volume \in 0..MaxVolume
    /\ c.output \in 0..MaxVolume
    /\ c.initial_volume \in 0..MaxVolume
    /\ c.sweep_shift \in 0..7
    /\ c.enabled \in BOOLEAN
    /\ c.use_counter \in BOOLEAN

\* SilentWhenDisabled for one channel.
Quiet(c) == c.enabled = FALSE => c.output = 0

PulseOk(c) == PulseTyped(c) /\ Quiet(c)

\* What concerns the length of the note is the same, unless the note has ended.
LengthKept(c, after) ==
    /\ after.length_counter = c.length_counter
    /\ after.use_counter = c.use_counter
    /\ after.enabled = TRUE => c.enabled = TRUE

LEMMA Silenced ==
    ASSUME NEW c, PulseTyped(c)
    PROVE  PulseOk(Pulse!silence(c)) /\ LengthKept(c, Pulse!silence(c))
BY Sizes DEF PulseTyped, PulseOk, Quiet, LengthKept, Pulse!silence, PulseFields

LEMMA Adjusted ==
    ASSUME NEW c, PulseTyped(c)
    PROVE  PulseOk(Pulse!adjust_output_volume(c))
           /\ LengthKept(c, Pulse!adjust_output_volume(c))
BY Sizes DEF PulseTyped, PulseOk, Quiet, LengthKept, Pulse!adjust_output_volume, PulseFields

LEMMA Reset ==
    ASSUME NEW c, PulseTyped(c)
    PROVE  PulseTyped(Pulse!reset_timer(c)) /\ LengthKept(c, Pulse!reset_timer(c))
<1>1. (FrequencyLimit - c.frequency) * PulseScale \in 0..FrequencyLimit * PulseScale
  BY PulseReload DEF PulseTyped
<1> QED
  BY <1>1 DEF PulseTyped, LengthKept, Pulse!reset_timer, PulseFields

LEMMA PulseTicks ==
    ASSUME NEW c, PulseOk(c)
    PROVE  PulseOk(Pulse!tick(c)) /\ LengthKept(c, Pulse!tick(c))
<1>1. CASE c.timer > 1
  <2>1. c.timer - 1 \in 0..FrequencyLimit * PulseScale
    BY <1>1, Sizes DEF PulseOk, PulseTyped
  <2> QED
    BY <1>1, <2>1 DEF PulseOk, PulseTyped, Quiet, LengthKept, Pulse!tick, PulseFields
<1>2. CASE ~(c.timer > 1)
  <2> DEFINE stepped == [c EXCEPT !.index = (@ + 1) % 8]
             reset == Pulse!reset_timer(stepped)
             level == Pulse!adjust_waveform_duty_index(reset)
  <2>1. PulseTyped(stepped) /\ LengthKept(c, stepped)
    BY DEF PulseOk, PulseTyped, LengthKept, PulseFields
  <2> HIDE DEF stepped
  <2>2. PulseTyped(reset) /\ LengthKept(stepped, reset)
    BY <2>1, Reset
  <2> HIDE DEF reset
  <2>3. PulseTyped(level) /\ LengthKept(reset, level)
    BY <2>2 DEF PulseTyped, LengthKept, PulseFields, Pulse!adjust_waveform_duty_index
  <2> HIDE DEF level
  <2>4. PulseOk(Pulse!adjust_output_volume(level))
        /\ LengthKept(level, Pulse!adjust_output_volume(level))
    BY <2>3, Adjusted
  <2>5. Pulse!tick(c) = Pulse!adjust_output_volume(level)
    BY <1>2 DEF Pulse!tick, level, reset, stepped
  <2> QED
    BY <2>1, <2>2, <2>3, <2>4, <2>5 DEF LengthKept
<1> QED
  BY <1>1, <1>2

\* A click of the length, of any channel.
Clicked(c, after) ==
    IF c.length_counter > 0 /\ c.use_counter = TRUE
    THEN /\ after.length_counter = c.length_counter - 1
         /\ after.use_counter = c.use_counter
         /\ after.enabled = TRUE => c.enabled = TRUE /\ after.length_counter > 0
    ELSE LengthKept(c, after)

LEMMA PulseLength ==
    ASSUME NEW c, PulseOk(c)
    PROVE  PulseOk(Pulse!length_click(c)) /\ Clicked(c, Pulse!length_click(c))
<1> DEFINE less == [c EXCEPT !.length_counter = @ - 1]
<1>1. CASE c.length_counter > 0 /\ c.use_counter = TRUE
  <2>1. c.length_counter - 1 \in 0..LengthRange
    BY <1>1, Sizes DEF PulseOk, PulseTyped
  <2>2. /\ PulseOk(less) /\ less.length_counter = c.length_counter - 1
        /\ less.use_counter = c.use_counter /\ less.enabled = c.enabled
    BY <2>1 DEF PulseOk, PulseTyped, Quiet, PulseFields
  <2>3. less.length_counter \in 0..LengthRange /\ LengthRange \in Nat
    BY <2>1, <2>2, Sizes
  <2>4. Pulse!length_click(c) =
           IF less.length_counter = 0 THEN Pulse!silence(less) ELSE less
    BY <1>1 DEF Pulse!length_click
  <2> HIDE DEF less
  <2>5. CASE less.length_counter = 0
    <3>1. PulseOk(Pulse!silence(less)) /\ LengthKept(less, Pulse!silence(less))
      BY <2>2, Silenced DEF PulseOk
    <3>2. Pulse!silence(less).enabled = FALSE
      BY <2>2 DEF Pulse!silence, PulseOk, PulseTyped, PulseFields
    <3> QED
      BY <1>1, <2>2, <2>4, <2>5, <3>1, <3>2 DEF Clicked, LengthKept
  <2>6. CASE less.length_counter # 0
    <3>1. less.length_counter > 0
      BY <2>3, <2>6
    <3> QED
      BY <1>1, <2>2, <2>4, <2>6, <3>1 DEF Clicked
  <2> QED
    BY <2>5, <2>6
<1>2. CASE ~(c.length_counter > 0 /\ c.use_counter = TRUE)
  <2>1. Pulse!length_click(c) = c
    BY <1>2 DEF Pulse!length_click, PulseOk, PulseTyped
  <2> QED
    BY <1>2, <2>1 DEF Clicked, LengthKept
<1> QED
  BY <1>1, <1>2

\* No sweep leaves a frequency out of range behind.
LEMMA Swept ==
    ASSUME NEW c, PulseTyped(c)
    PROVE  Pulse!SweepFrequency(c) \in Nat
<1> DEFINE delta == c.shadow \div 2^c.sweep_shift
<1>1. c.shadow \in Nat /\ c.sweep_shift \in 0..7
  BY Sizes DEF PulseTyped
<1>2. delta \in 0..c.shadow
  BY <1>1, ShiftRight
<1> HIDE DEF delta
<1>3. c.shadow - delta \in Nat /\ c.shadow + delta \in Nat
  BY <1>1, <1>2
<1> QED
  BY <1>3 DEF Pulse!SweepFrequency, delta

LEMMA Calculated ==
    ASSUME NEW c, PulseOk(c)
    PROVE  PulseOk(Pulse!sweep_calculation(c)) /\ LengthKept(c, Pulse!sweep_calculation(c))
BY Silenced DEF PulseOk, Pulse!sweep_calculation, LengthKept

LEMMA CalculatedTyped ==
    ASSUME NEW c, PulseTyped(c)
    PROVE  PulseTyped(Pulse!sweep_calculation(c)) /\ LengthKept(c, Pulse!sweep_calculation(c))
BY Silenced DEF PulseOk, Pulse!sweep_calculation, LengthKept

LEMMA PulseSweep ==
    ASSUME NEW c, PulseOk(c)
    PROVE  PulseOk(Pulse!sweep_click(c)) /\ LengthKept(c, Pulse!sweep_click(c))
<1>1. CASE c.sweep_timer > 1
  BY <1>1 DEF PulseOk, PulseTyped, Quiet, LengthKept, Pulse!sweep_click, PulseFields
<1>2. CASE ~(c.sweep_timer > 1)
  <2> DEFINE r == [c EXCEPT !.sweep_timer = Pulse!Period(c.sweep_period)]
             f == Pulse!SweepFrequency(r)
             moved == [r EXCEPT !.shadow = f, !.frequency = f]
  <2>1. PulseOk(r) /\ LengthKept(c, r)
    BY DEF PulseOk, PulseTyped, Quiet, LengthKept, PulseFields
  <2>2. \/ Pulse!sweep_click(c) = r
        \/ /\ f < FrequencyLimit
           /\ Pulse!sweep_click(c) =
                 Pulse!sweep_calculation(Pulse!sweep_calculation(moved))
        \/ Pulse!sweep_click(c) = Pulse!sweep_calculation(Pulse!sweep_calculation(r))
    BY <1>2 DEF Pulse!sweep_click
  <2>3. f \in Nat
    BY <2>1, Swept DEF PulseOk
  <2>4. f < FrequencyLimit => PulseOk(moved) /\ LengthKept(r, moved)
    <3> HIDE DEF r, f
    <3> SUFFICES ASSUME f < FrequencyLimit PROVE PulseOk(moved) /\ LengthKept(r, moved)
      OBVIOUS
    <3>1. f \in 0..FrequencyLimit - 1
      BY <2>3, Sizes
    <3> QED
      BY <2>1, <3>1 DEF PulseOk, PulseTyped, Quiet, LengthKept, PulseFields
  <2> HIDE DEF moved, r, f
  <2>5. \A s : PulseOk(s) => LET t == Pulse!sweep_calculation(Pulse!sweep_calculation(s))
                             IN  PulseOk(t) /\ LengthKept(s, t)
    BY Calculated DEF LengthKept
  <2> QED
    BY <2>1, <2>2, <2>4, <2>5 DEF LengthKept
<1> QED
  BY <1>1, <1>2

LEMMA PulseEnvelope ==
    ASSUME NEW c, PulseOk(c)
    PROVE  PulseOk(Pulse!envelope_click(c)) /\ LengthKept(c, Pulse!envelope_click(c))
<1>1. CASE c.envelope_timer > 1
  BY <1>1 DEF PulseOk, PulseTyped, Quiet, LengthKept, Pulse!envelope_click, PulseFields
<1>2. CASE ~(c.envelope_timer > 1)
  <2> DEFINE p == c.envelope_period # 0
             volume == CASE p /\ c.envelope_up /\ c.volume < MaxVolume -> c.volume + 1
                         [] p /\ ~c.envelope_up /\ c.volume > 0 -> c.volume - 1
                         [] OTHER -> c.volume
  <2>1. Pulse!envelope_click(c) =
           [c EXCEPT !.envelope_timer = Pulse!Period(c.envelope_period), !.volume = volume]
    BY <1>2 DEF Pulse!envelope_click
  <2>2. c.volume \in 0..MaxVolume /\ MaxVolume \in Nat
    BY Sizes DEF PulseOk, PulseTyped
  <2>3. volume \in 0..MaxVolume
    BY <2>2
  <2> HIDE DEF volume
  <2> QED
    BY <2>1, <2>3 DEF PulseOk, PulseTyped, Quiet, LengthKept, PulseFields
<1> QED
  BY <1>1, <1>2

LEMMA PulseRestart ==
    ASSUME NEW c, PulseOk(c)
    PROVE  /\ PulseOk(Pulse!restart(c))
           /\ Pulse!restart(c).use_counter = c.use_counter
           /\ Pulse!restart(c).length_counter > 0
<1> DEFINE s == [c EXCEPT !.enabled = TRUE,
                          !.length_counter = LengthRange - c.sound_length,
                          !.volume = c.initial_volume,
                          !.envelope_timer = c.envelope_period,
                          !.sweep_enabled = c.sweep_period > 0 \/ c.sweep_shift > 0,
                          !.sweep_timer = Pulse!Period(c.sweep_period),
                          !.shadow = c.frequency]
           t == Pulse!reset_timer(s)
           u == IF c.sweep_shift > 0 THEN Pulse!sweep_calculation(t) ELSE t
<1>1. LengthRange - c.sound_length \in 1..LengthRange
  BY Sizes DEF PulseOk, PulseTyped
<1>2. LengthRange - c.sound_length \in 0..LengthRange /\ LengthRange - c.sound_length > 0
  BY <1>1, Sizes
<1>3. /\ PulseTyped(s) /\ s.use_counter = c.use_counter
      /\ s.length_counter = LengthRange - c.sound_length
  BY <1>2 DEF PulseOk, PulseTyped, PulseFields
<1> HIDE DEF s
<1>4. PulseTyped(t) /\ LengthKept(s, t)
  BY <1>3, Reset
<1> HIDE DEF t
<1>5. PulseTyped(u) /\ LengthKept(t, u)
  BY <1>4, CalculatedTyped DEF LengthKept
<1>6. Pulse!restart(c) = Pulse!adjust_output_volume(u)
  BY DEF Pulse!restart, u, t, s
<1> HIDE DEF u
<1>7. PulseOk(Pulse!adjust_output_volume(u)) /\ LengthKept(u, Pulse!adjust_output_volume(u))
  BY <1>5, Adjusted
<1> QED
  BY <1>2, <1>3, <1>4, <1>5, <1>6, <1>7 DEF LengthKept

LEMMA PulseDisable ==
    ASSUME NEW c, PulseOk(c)
    PROVE  PulseOk(Pulse!disable(c))
BY Sizes DEF Pulse!disable, Pulse!silence, PulseOk, PulseTyped, Quiet, PulseFields

LEMMA PulseWriteSweep ==
    ASSUME NEW c, PulseOk(c), NEW period, NEW down, NEW shift \in 0..7
    PROVE  /\ PulseOk(Pulse!WriteSweep(c, period, down, shift))
           /\ LengthKept(c, Pulse!WriteSweep(c, period, down, shift))
BY DEF Pulse!WriteSweep, PulseOk, PulseTyped, Quiet, LengthKept, PulseFields

LEMMA PulseWriteWaveData ==
    ASSUME NEW c, PulseOk(c), NEW duty, NEW length \in 0..LengthRange - 1
    PROVE  /\ PulseOk(Pulse!WriteWaveData(c, duty, length))
           /\ LengthKept(c, Pulse!WriteWaveData(c, duty, length))
<1> DEFINE s == [c EXCEPT !.duty = duty, !.sound_length = length]
           t == Pulse!adjust_waveform_duty_index(s)
<1>1. PulseTyped(s) /\ LengthKept(c, s)
  BY DEF PulseOk, PulseTyped, LengthKept, PulseFields
<1>2. PulseTyped(t) /\ LengthKept(s, t)
  BY <1>1 DEF PulseTyped, LengthKept, PulseFields, Pulse!adjust_waveform_duty_index
<1> HIDE DEF s, t
<1>3. PulseOk(Pulse!adjust_output_volume(t)) /\ LengthKept(t, Pulse!adjust_output_volume(t))
  BY <1>2, Adjusted
<1>4. Pulse!WriteWaveData(c, duty, length) = Pulse!adjust_output_volume(t)
  BY DEF Pulse!WriteWaveData, s, t
<1> QED
  BY <1>1, <1>2, <1>3, <1>4 DEF LengthKept

LEMMA PulseWriteEnvelope ==
    ASSUME NEW c, PulseOk(c), NEW initial \in 0..MaxVolume, NEW up, NEW period
    PROVE  /\ PulseOk(Pulse!WriteEnvelope(c, initial, up, period))
           /\ LengthKept(c, Pulse!WriteEnvelope(c, initial, up, period))
<1> DEFINE s == [c EXCEPT !.dac_enabled = initial > 0 \/ up,
                          !.initial_volume = initial, !.envelope_up = up,
                          !.envelope_period = period,
                          !.envelope_timer = period, !.volume = initial]
<1>1. PulseTyped(s) /\ LengthKept(c, s)
  BY DEF PulseOk, PulseTyped, LengthKept, PulseFields
<1> HIDE DEF s
<1>2. PulseOk(Pulse!adjust_output_volume(s)) /\ LengthKept(s, Pulse!adjust_output_volume(s))
  BY <1>1, Adjusted
<1>3. Pulse!WriteEnvelope(c, initial, up, period) = Pulse!adjust_output_volume(s)
  BY DEF Pulse!WriteEnvelope, s
<1> QED
  BY <1>1, <1>2, <1>3 DEF LengthKept

LEMMA PulseWriteFreqData ==
    ASSUME NEW c, PulseOk(c), NEW low \in 0..LowRange - 1
    PROVE  /\ PulseOk(Pulse!WriteFreqData(c, low))
           /\ LengthKept(c, Pulse!WriteFreqData(c, low))
<1> DEFINE f == (c.frequency \div LowRange) * LowRange + low
<1>1. c.frequency \in 0..FrequencyLimit - 1
  BY DEF PulseOk, PulseTyped
<1>2. c.frequency \div LowRange \in 0..(FrequencyLimit \div LowRange) - 1
  BY <1>1, Sizes, Digits
<1>3. f \in 0..FrequencyLimit - 1
  BY <1>2, Sizes, HighDigit
<1>4. Pulse!WriteFreqData(c, low) = [c EXCEPT !.frequency = f]
  BY DEF Pulse!WriteFreqData
<1> HIDE DEF f
<1> QED
  BY <1>3, <1>4 DEF PulseOk, PulseTyped, Quiet, LengthKept, PulseFields

HighBits == 0..(FrequencyLimit \div LowRange) - 1

\* A store to the last register restarts the channel or keeps its length.
Restarted(c, after, trigger, use_counter) ==
    /\ after.use_counter = use_counter
    /\ trigger # TRUE => /\ after.length_counter = c.length_counter
                         /\ after.enabled = TRUE => c.enabled = TRUE

LEMMA PulseWriteFreqControl ==
    ASSUME NEW c, PulseOk(c), NEW trigger \in BOOLEAN, NEW use_counter \in BOOLEAN,
           NEW high \in HighBits
    PROVE  LET after == Pulse!WriteFreqControl(c, trigger, use_counter, high)
           IN  /\ PulseOk(after) /\ Restarted(c, after, trigger, use_counter)
               /\ trigger = TRUE => after.length_counter > 0
<1> DEFINE f == high * LowRange + (c.frequency % LowRange)
           s == [c EXCEPT !.use_counter = use_counter, !.frequency = f]
           after == Pulse!WriteFreqControl(c, trigger, use_counter, high)
<1>1. c.frequency \in 0..FrequencyLimit - 1
  BY DEF PulseOk, PulseTyped
<1>2. c.frequency % LowRange \in 0..LowRange - 1
  BY <1>1, Sizes, Digits
<1>3. f \in 0..FrequencyLimit - 1
  BY <1>2, Sizes, HighDigit DEF HighBits
<1> HIDE DEF f
<1>4. /\ PulseOk(s) /\ s.use_counter = use_counter /\ s.length_counter = c.length_counter
      /\ s.enabled = c.enabled
  BY <1>3 DEF PulseOk, PulseTyped, Quiet, PulseFields
<1>5. after = IF trigger THEN Pulse!restart(s) ELSE s
  BY DEF Pulse!WriteFreqControl, f
<1> HIDE DEF s, after
<1>6. /\ PulseOk(after) /\ Restarted(c, after, trigger, use_counter)
      /\ trigger = TRUE => after.length_counter > 0
  BY <1>4, <1>5, PulseRestart DEF Restarted
<1> QED
  BY <1>6 DEF after

-----------------------------------------------------------------------------
(* The wave channel. *)

WaveFields ==
    {"sound_length", "muted", "use_counter", "frequency", "length_counter", "timer",
     "index", "output", "enabled", "dac_enabled"}

WaveTyped(c) ==
    /\ DOMAIN c = WaveFields
    /\ c.length_counter \in 0..ByteMax
    /\ c.sound_length \in 0..ByteMax
    /\ c.enabled \in BOOLEAN
    /\ c.use_counter \in BOOLEAN

LEMMA WaveTicks ==
    ASSUME NEW c, WaveTyped(c), NEW pattern
    PROVE  WaveTyped(Wave!tick(c, pattern)) /\ LengthKept(c, Wave!tick(c, pattern))
BY DEF WaveTyped, WaveFields, LengthKept, Wave!tick, Wave!reset_timer

LEMMA WaveLength ==
    ASSUME NEW c, WaveTyped(c)
    PROVE  WaveTyped(Wave!length_click(c)) /\ Clicked(c, Wave!length_click(c))
<1>1. CASE c.length_counter > 0 /\ c.use_counter = TRUE
  <2>1. c.length_counter - 1 \in 0..ByteMax
    BY <1>1, Sizes DEF WaveTyped
  <2>2. (c.length_counter > 1) <=> (c.length_counter - 1 > 0)
    BY <1>1, Sizes DEF WaveTyped
  <2>3. Wave!length_click(c) =
          [c EXCEPT !.length_counter = c.length_counter - 1,
                    !.enabled = c.enabled /\ c.length_counter > 1]
    BY <1>1 DEF Wave!length_click
  <2> QED
    BY <1>1, <2>1, <2>2, <2>3 DEF WaveTyped, WaveFields, Clicked
<1>2. CASE ~(c.length_counter > 0 /\ c.use_counter = TRUE)
  <2>1. Wave!length_click(c) = c
    BY <1>2 DEF Wave!length_click, WaveTyped
  <2> QED
    BY <1>2, <2>1 DEF Clicked, LengthKept
<1> QED
  BY <1>1, <1>2

LEMMA WaveDisable ==
    ASSUME NEW c, WaveTyped(c)
    PROVE  WaveTyped(Wave!disable(c))
BY Sizes DEF Wave!disable, WaveTyped, WaveFields

LEMMA WaveWriteEnable ==
    ASSUME NEW c, WaveTyped(c), NEW on
    PROVE  WaveTyped(Wave!WriteEnable(c, on)) /\ LengthKept(c, Wave!WriteEnable(c, on))
BY DEF Wave!WriteEnable, WaveTyped, WaveFields, LengthKept

LEMMA WaveWriteSoundLength ==
    ASSUME NEW c, WaveTyped(c), NEW length \in 0..ByteMax
    PROVE  WaveTyped(Wave!WriteSoundLength(c, length))
           /\ LengthKept(c, Wave!WriteSoundLength(c, length))
BY DEF Wave!WriteSoundLength, WaveTyped, WaveFields, LengthKept

LEMMA WaveWriteOutputLevel ==
    ASSUME NEW c, WaveTyped(c), NEW muted
    PROVE  WaveTyped(Wave!WriteOutputLevel(c, muted))
           /\ LengthKept(c, Wave!WriteOutputLevel(c, muted))
BY DEF Wave!WriteOutputLevel, WaveTyped, WaveFields, LengthKept

LEMMA WaveWriteFreqData ==
    ASSUME NEW c, WaveTyped(c), NEW low
    PROVE  WaveTyped(Wave!WriteFreqData(c, low)) /\ LengthKept(c, Wave!WriteFreqData(c, low))
BY DEF Wave!WriteFreqData, WaveTyped, WaveFields, LengthKept

LEMMA WaveWriteFreqControl ==
    ASSUME NEW c, WaveTyped(c), NEW trigger \in BOOLEAN, NEW use_counter \in BOOLEAN,
           NEW high
    PROVE  LET after == Wave!WriteFreqControl(c, trigger, use_counter, high)
           IN  WaveTyped(after) /\ Restarted(c, after, trigger, use_counter)
<1> DEFINE s == [c EXCEPT !.use_counter = use_counter,
                          !.frequency = high * LowRange + (@ % LowRange)]
           after == Wave!WriteFreqControl(c, trigger, use_counter, high)
<1>1. /\ WaveTyped(s) /\ s.use_counter = use_counter /\ s.length_counter = c.length_counter
      /\ s.enabled = c.enabled
  BY DEF WaveTyped, WaveFields
<1>2. after = IF trigger THEN Wave!restart(s) ELSE s
  BY DEF Wave!WriteFreqControl
<1> HIDE DEF s, after
<1>3. WaveTyped(Wave!restart(s)) /\ Wave!restart(s).use_counter = s.use_counter
  BY <1>1 DEF WaveTyped, WaveFields, Wave!restart, Wave!reset_timer
<1>4. WaveTyped(after) /\ Restarted(c, after, trigger, use_counter)
  BY <1>1, <1>2, <1>3 DEF Restarted
<1> QED
  BY <1>4 DEF after

-----------------------------------------------------------------------------
(* The noise channel. *)

NoiseFields ==
    {"sound_length", "initial_volume", "envelope_up", "envelope_period",
     "envelope_timer", "use_counter", "period", "narrow", "timer", "lfsr", "output",
     "length_counter", "volume", "enabled", "dac_enabled"}

NoiseTyped(c) ==
    /\ DOMAIN c = NoiseFields
    /\ c.length_counter \in 0..ByteMax
    /\ c.sound_length \in 0..ByteMax
    /\ c.volume \in 0..MaxVolume
    /\ c.output \in 0..MaxVolume
    /\ c.initial_volume \in 0..MaxVolume
    /\ c.lfsr \in 0..2^(WideBit + 1) - 1
    /\ c.timer \in 0..TimerRange - 1
    /\ c.period \in NoisePeriods
    /\ c.narrow \in BOOLEAN
    /\ c.enabled \in BOOLEAN
    /\ c.use_counter \in BOOLEAN

\* The shift register has a bit left to feed back: with the narrow width one
\* of its low bits, as the others are shifted out for good.
Alive(lfsr, narrow) ==
    IF narrow THEN lfsr % 2^(NarrowBit + 1) # 0 ELSE lfsr # 0

\* The weights of the bits the register feeds back to.
Top1 == Power(WideBit)
Low == Power(NarrowBit)

LEMMA Weights ==
    /\ 2^WideBit = Top1 /\ 2^(WideBit + 1) = 2 * Top1
    /\ 2^NarrowBit = Low /\ 2^(NarrowBit + 1) = 2 * Low
    /\ Low \in {2, 4, 8, 16, 32, 64, 128, 256, 512, 1024, 2048, 4096}
    /\ Top1 \in Nat /\ Top1 >= 4 * Low
<1>1. WideBit \in 1..14 /\ NarrowBit \in 1..WideBit - 2
  BY ApuAssumption
<1>2. /\ WideBit \in 0..15 /\ WideBit + 1 \in 0..15 /\ WideBit < 15
      /\ NarrowBit \in 0..15 /\ NarrowBit + 1 \in 0..15 /\ NarrowBit < 15
  BY <1>1
<1>3. /\ 2^WideBit = Power(WideBit) /\ 2^(WideBit + 1) = Power(WideBit + 1)
      /\ 2^NarrowBit = Power(NarrowBit) /\ 2^(NarrowBit + 1) = Power(NarrowBit + 1)
  BY <1>2, Powers
<1>4. Power(WideBit + 1) = 2 * Power(WideBit) /\ Power(NarrowBit + 1) = 2 * Power(NarrowBit)
  BY <1>2, PowerFacts
<1>5. /\ Low \in {2, 4, 8, 16, 32, 64, 128, 256, 512, 1024, 2048, 4096}
      /\ Top1 \in Nat /\ Top1 >= 4 * Low
  BY <1>1 DEF Power, Low, Top1
<1> QED
  BY <1>3, <1>4, <1>5 DEF Low, Top1

LowWeights == {2, 4, 8, 16, 32, 64, 128, 256, 512, 1024, 2048, 4096}

\* The bits that a narrow shift brings to the low end.
LEMMA LowBits ==
    ASSUME NEW low \in LowWeights, NEW lfsr \in Nat, (lfsr \div 2) % low = 0,
           (lfsr + (lfsr \div 2)) % 2 = 0
    PROVE  lfsr % (2 * low) = 0
<1> DEFINE half == lfsr \div 2
           q == half \div low
<1>1. half \in Nat /\ lfsr % 2 \in {0, 1} /\ lfsr = 2 * half + (lfsr % 2)
  OBVIOUS
<1> DEFINE bit == lfsr % 2
<1>2. half % low = 0 /\ (lfsr + half) % 2 = 0
  OBVIOUS
<1> HIDE DEF half
<1>3. half % 2 = 0
  BY <1>1, <1>2 DEF LowWeights
<1>4. bit = 0
  BY <1>1, <1>2, <1>3
<1>5. lfsr = 2 * half
  BY <1>1, <1>4
<1> QED
  BY <1>1, <1>2, <1>5 DEF LowWeights

LEMMA NarrowSum ==
    ASSUME NEW low \in LowWeights, NEW rest \in 0..low - 1, NEW high \in {0, 1},
           NEW bit \in {0, 1}
    PROVE  /\ (rest + high * (2 * low) + bit * low) % (2 * low) = rest + bit * low
           /\ rest + high * (2 * low) + bit * low \in 0..4 * low - 1
BY DEF LowWeights

LEMMA ShiftKeeps ==
    ASSUME NEW lfsr \in 0..2^(WideBit + 1) - 1, NEW narrow \in BOOLEAN
    PROVE  LET after == Noise!shift_register_click(lfsr, narrow)
           IN  /\ after \in 0..2^(WideBit + 1) - 1
               /\ Alive(lfsr, narrow) => Alive(after, narrow)
<1> DEFINE half == lfsr \div 2
           bit == (lfsr + (lfsr \div 2)) % 2
           wide == half + bit * Top1
           rest == wide % Low
           high == IF (wide \div (2 * Low)) % 2 = 1 THEN 1 ELSE 0
           short == rest + high * (2 * Low) + bit * Low
           after == Noise!shift_register_click(lfsr, narrow)
<1>1. Low \in LowWeights /\ Top1 \in Nat /\ Top1 >= 4 * Low
  BY Weights DEF LowWeights
<1>2. lfsr \in 0..2 * Top1 - 1
  BY Weights
<1>3. lfsr \in Nat /\ half \in 0..Top1 - 1 /\ bit \in {0, 1}
  BY <1>1, <1>2
<1>4. wide \in 0..2 * Top1 - 1 /\ wide \in Nat
  <2> HIDE DEF half, bit
  <2>1. bit = 0 \/ bit = 1
    BY <1>3
  <2> QED
    BY <1>1, <1>3, <2>1
<1>5. rest \in 0..Low - 1 /\ high \in {0, 1}
  <2> HIDE DEF wide
  <2> QED
    BY <1>1, <1>4 DEF LowWeights
<1>6. after = IF narrow THEN short ELSE wide
  <2>1. /\ 2^WideBit = Top1 /\ 2^NarrowBit = Low /\ 2^(NarrowBit + 1) = 2 * Low
    BY Weights
  <2>2. after = LET w == half + bit * 2^WideBit
                    kept == (w % 2^NarrowBit)
                            + (IF (w \div 2^(NarrowBit + 1)) % 2 = 1
                               THEN 2^(NarrowBit + 1) ELSE 0)
                IN  IF narrow THEN kept + bit * 2^NarrowBit ELSE w
    BY DEF Noise!shift_register_click, Noise!FeedBack
  <2>3. after = LET kept == rest + (IF (wide \div (2 * Low)) % 2 = 1 THEN 2 * Low ELSE 0)
                IN  IF narrow THEN kept + bit * Low ELSE wide
    BY <2>1, <2>2
  <2>4. (IF (wide \div (2 * Low)) % 2 = 1 THEN 2 * Low ELSE 0) = high * (2 * Low)
    BY <1>1 DEF LowWeights
  <2> QED
    BY <2>3, <2>4
<1> HIDE DEF after
<1>7. short % (2 * Low) = rest + bit * Low /\ short \in 0..4 * Low - 1
  <2> HIDE DEF rest, high, bit
  <2> QED
    BY <1>1, <1>3, <1>5, NarrowSum
<1>8. after \in 0..2 * Top1 - 1
  <2>1. short \in 0..2 * Top1 - 1
    <3> HIDE DEF short
    <3> QED
      BY <1>1, <1>7 DEF LowWeights
  <2> QED
    BY <1>4, <1>6, <2>1
<1>9. CASE narrow = TRUE
  <2>1. ASSUME short % (2 * Low) = 0 PROVE lfsr % (2 * Low) = 0
    <3>1. rest = 0 /\ bit = 0
      <4> HIDE DEF rest, bit
      <4> QED
        BY <1>1, <1>3, <1>5, <1>7, <2>1 DEF LowWeights
    <3>2. wide = half
      BY <1>1, <1>3, <3>1
    <3>3. (lfsr \div 2) % Low = 0 /\ (lfsr + (lfsr \div 2)) % 2 = 0
      BY <3>1, <3>2
    <3> QED
      BY <1>1, <1>3, <3>3, LowBits
  <2>2. \A v : Alive(v, narrow) <=> v % (2 * Low) # 0
    <3>1. 2^(NarrowBit + 1) = 2 * Low
      BY Weights
    <3> QED
      BY <1>9, <3>1 DEF Alive
  <2>3. after = short
    BY <1>6, <1>9
  <2> HIDE DEF short
  <2>4. Alive(lfsr, narrow) => Alive(after, narrow)
    BY <2>1, <2>2, <2>3
  <2> QED
    BY <1>8, <2>4, Weights DEF after
<1>10. CASE narrow = FALSE
  <2>1. ASSUME wide = 0 PROVE lfsr = 0
    <3>1. half = 0 /\ bit = 0
      <4> HIDE DEF half, bit
      <4> QED
        BY <1>1, <1>3, <2>1 DEF LowWeights
    <3> QED
      BY <1>3, <3>1
  <2>2. Alive(lfsr, narrow) => Alive(after, narrow)
    BY <1>6, <1>10, <2>1 DEF Alive
  <2> QED
    BY <1>8, <2>2, Weights DEF after
<1> QED
  BY <1>9, <1>10

\* The width is the same, and a register that has bits to feed back keeps some.
Fed(c, after) ==
    /\ after.narrow = c.narrow
    /\ Alive(c.lfsr, c.narrow) => Alive(after.lfsr, after.narrow)

LEMMA NoiseReload == \A period \in NoisePeriods : period \in 0..TimerRange - 1
<1>1. TimerRange \in Nat \ {0} /\ NoisePeriods \subseteq 1..TimerRange - 1
  BY ApuAssumption
<1>2. \A period \in 1..TimerRange - 1 : period \in 0..TimerRange - 1
  BY <1>1
<1> QED
  BY <1>1, <1>2

LEMMA NoiseTicks ==
    ASSUME NEW c, NoiseTyped(c)
    PROVE  LET after == Noise!tick(c)
           IN  NoiseTyped(after) /\ LengthKept(c, after) /\ Fed(c, after)
<1>1. TimerRange \in Nat \ {0}
  BY ApuAssumption
<1>2. CASE c.timer # 1
  <2>1. (c.timer - 1) % TimerRange \in 0..TimerRange - 1
    BY <1>1 DEF NoiseTyped
  <2>2. Noise!tick(c) = [c EXCEPT !.timer = (c.timer - 1) % TimerRange]
    BY <1>2 DEF Noise!tick
  <2> QED
    BY <2>1, <2>2 DEF NoiseTyped, NoiseFields, LengthKept, Fed
<1>3. CASE c.timer = 1
  <2> DEFINE lfsr == Noise!shift_register_click(c.lfsr, c.narrow)
             output == IF c.enabled /\ c.dac_enabled /\ lfsr % 2 = 0 THEN c.volume ELSE 0
  <2>1. /\ lfsr \in 0..2^(WideBit + 1) - 1
        /\ Alive(c.lfsr, c.narrow) => Alive(lfsr, c.narrow)
    BY ShiftKeeps DEF NoiseTyped
  <2>2. Noise!tick(c) = [c EXCEPT !.timer = c.period, !.lfsr = lfsr, !.output = output]
    BY <1>3 DEF Noise!tick
  <2>3. output \in 0..MaxVolume
    BY Sizes DEF NoiseTyped
  <2>4. c.period \in 0..TimerRange - 1
    BY NoiseReload DEF NoiseTyped
  <2> HIDE DEF lfsr, output
  <2> QED
    BY <2>1, <2>2, <2>3, <2>4 DEF NoiseTyped, NoiseFields, LengthKept, Fed
<1> QED
  BY <1>2, <1>3

LEMMA NoiseLength ==
    ASSUME NEW c, NoiseTyped(c)
    PROVE  LET after == Noise!length_click(c)
           IN  NoiseTyped(after) /\ Clicked(c, after) /\ Fed(c, after)
<1>1. CASE c.length_counter > 0 /\ c.use_counter = TRUE
  <2>1. c.length_counter - 1 \in 0..ByteMax
    BY <1>1, Sizes DEF NoiseTyped
  <2>2. (c.length_counter > 1) <=> (c.length_counter - 1 > 0)
    BY <1>1, Sizes DEF NoiseTyped
  <2>3. Noise!length_click(c) =
          [c EXCEPT !.length_counter = c.length_counter - 1,
                    !.enabled = c.enabled /\ c.length_counter > 1]
    BY <1>1 DEF Noise!length_click
  <2> QED
    BY <1>1, <2>1, <2>2, <2>3 DEF NoiseTyped, NoiseFields, Clicked, Fed
<1>2. CASE ~(c.length_counter > 0 /\ c.use_counter = TRUE)
  <2>1. Noise!length_click(c) = c
    BY <1>2 DEF Noise!length_click, NoiseTyped
  <2> QED
    BY <1>2, <2>1 DEF Clicked, LengthKept, Fed
<1> QED
  BY <1>1, <1>2

LEMMA NoiseEnvelope ==
    ASSUME NEW c, NoiseTyped(c)
    PROVE  LET after == Pulse!envelope_click(c)
           IN  NoiseTyped(after) /\ LengthKept(c, after) /\ Fed(c, after)
<1>1. CASE c.envelope_timer > 1
  BY <1>1 DEF NoiseTyped, LengthKept, Fed, Pulse!envelope_click, NoiseFields
<1>2. CASE ~(c.envelope_timer > 1)
  <2> DEFINE p == c.envelope_period # 0
             volume == CASE p /\ c.envelope_up /\ c.volume < MaxVolume -> c.volume + 1
                         [] p /\ ~c.envelope_up /\ c.volume > 0 -> c.volume - 1
                         [] OTHER -> c.volume
  <2>1. Pulse!envelope_click(c) =
           [c EXCEPT !.envelope_timer = Pulse!Period(c.envelope_period), !.volume = volume]
    BY <1>2 DEF Pulse!envelope_click
  <2>2. c.volume \in 0..MaxVolume /\ MaxVolume \in Nat
    BY Sizes DEF NoiseTyped
  <2>3. volume \in 0..MaxVolume
    BY <2>2
  <2> HIDE DEF volume
  <2> QED
    BY <2>1, <2>3 DEF NoiseTyped, LengthKept, Fed, NoiseFields
<1> QED
  BY <1>1, <1>2

\* The register a trigger leaves is all ones.
LEMMA AllOnes ==
    /\ 2^(WideBit + 1) - 1 \in 0..2^(WideBit + 1) - 1
    /\ \A narrow \in BOOLEAN : Alive(2^(WideBit + 1) - 1, narrow)
<1>1. Low \in LowWeights /\ Top1 \in Nat /\ Top1 >= 4 * Low
  BY Weights DEF LowWeights
<1> DEFINE ones == 2 * Top1 - 1
<1>2. 2^(WideBit + 1) = 2 * Top1 /\ 2^(NarrowBit + 1) = 2 * Low
  BY Weights
<1>3. ones \in 0..2 * Top1 - 1 /\ ones # 0
  BY <1>1 DEF LowWeights
<1>4. ones % 2 = 1
  BY <1>1
<1>5. ones % (2 * Low) # 0
  <2> HIDE DEF ones
  <2> QED
    BY <1>1, <1>3, <1>4 DEF LowWeights
<1> QED
  BY <1>2, <1>3, <1>5 DEF Alive

LEMMA NoiseRestart ==
    ASSUME NEW c, NoiseTyped(c)
    PROVE  LET after == Noise!restart(c)
           IN  /\ NoiseTyped(after) /\ after.use_counter = c.use_counter
               /\ Alive(after.lfsr, after.narrow)
<1>1. (LengthRange - c.sound_length) % (ByteMax + 1) \in 0..ByteMax
  BY Sizes DEF NoiseTyped
<1>2. c.period \in 0..TimerRange - 1
  BY NoiseReload DEF NoiseTyped
<1> QED
  BY <1>1, <1>2, AllOnes DEF NoiseTyped, NoiseFields, Noise!restart

LEMMA NoiseDisable ==
    ASSUME NEW c, NoiseTyped(c)
    PROVE  NoiseTyped(Noise!disable(c)) /\ Noise!disable(c).enabled = FALSE
BY Sizes DEF Noise!disable, NoiseTyped, NoiseFields

LEMMA NoiseWriteSoundLength ==
    ASSUME NEW c, NoiseTyped(c), NEW length \in 0..ByteMax
    PROVE  LET after == Noise!WriteSoundLength(c, length)
           IN  NoiseTyped(after) /\ LengthKept(c, after) /\ Fed(c, after)
BY DEF Noise!WriteSoundLength, NoiseTyped, NoiseFields, LengthKept, Fed

LEMMA NoiseWriteEnvelope ==
    ASSUME NEW c, NoiseTyped(c), NEW initial \in 0..MaxVolume, NEW up, NEW period
    PROVE  LET after == Noise!WriteEnvelope(c, initial, up, period)
           IN  NoiseTyped(after) /\ LengthKept(c, after) /\ Fed(c, after)
BY DEF Noise!WriteEnvelope, NoiseTyped, NoiseFields, LengthKept, Fed

LEMMA NoiseWritePolynomialCounter ==
    ASSUME NEW c, NoiseTyped(c), NEW period \in NoisePeriods, NEW narrow \in BOOLEAN
    PROVE  LET after == Noise!WritePolynomialCounter(c, period, narrow)
           IN  NoiseTyped(after) /\ LengthKept(c, after) /\ after.lfsr = c.lfsr
BY DEF Noise!WritePolynomialCounter, NoiseTyped, NoiseFields, LengthKept

LEMMA NoiseWriteControl ==
    ASSUME NEW c, NoiseTyped(c), NEW trigger \in BOOLEAN, NEW use_counter \in BOOLEAN
    PROVE  LET after == Noise!WriteControl(c, trigger, use_counter)
           IN  /\ NoiseTyped(after) /\ Restarted(c, after, trigger, use_counter)
               /\ trigger = TRUE => Alive(after.lfsr, after.narrow)
               /\ trigger = FALSE => Fed(c, after)
<1> DEFINE s == [c EXCEPT !.use_counter = use_counter]
           after == Noise!WriteControl(c, trigger, use_counter)
<1>1. /\ NoiseTyped(s) /\ s.use_counter = use_counter /\ s.length_counter = c.length_counter
      /\ s.enabled = c.enabled /\ Fed(c, s)
  BY DEF NoiseTyped, NoiseFields, Fed
<1>2. after = IF trigger THEN Noise!restart(s) ELSE s
  BY DEF Noise!WriteControl
<1> HIDE DEF s, after
<1>3. /\ NoiseTyped(Noise!restart(s)) /\ Noise!restart(s).use_counter = s.use_counter
      /\ Alive(Noise!restart(s).lfsr, Noise!restart(s).narrow)
  BY <1>1, NoiseRestart
<1>4. /\ NoiseTyped(after) /\ Restarted(c, after, trigger, use_counter)
      /\ trigger = TRUE => Alive(after.lfsr, after.narrow)
      /\ trigger = FALSE => Fed(c, after)
  BY <1>1, <1>2, <1>3 DEF Restarted
<1> QED
  BY <1>4 DEF after

-----------------------------------------------------------------------------
(* The stores of the program. *)

LEMMA PulseStores ==
    ASSUME NEW w \in Stores, w.channel \in {1, 2}
    PROVE  /\ w.reg \in {"sweep", "wave_data", "envelope", "freq_data", "freq_control"}
           /\ w.reg = "sweep" => w.shift \in Period3
           /\ w.reg = "wave_data" => w.length \in 0..LengthRange - 1
           /\ w.reg = "envelope" => w.initial \in 0..MaxVolume
           /\ w.reg = "freq_data" => w.low \in 0..LowRange - 1
           /\ w.reg = "freq_control" =>
                 w.trigger \in BOOLEAN /\ w.use_counter \in BOOLEAN /\ w.high \in HighBits
BY DEF Stores, HighBits

LEMMA WaveStores ==
    ASSUME NEW w \in Stores, w.channel = 3
    PROVE  /\ w.reg \in {"enable", "sound_length", "output_level", "freq_data",
                         "freq_control"}
           /\ w.reg = "sound_length" => w.length \in 0..ByteMax
           /\ w.reg = "freq_control" => w.trigger \in BOOLEAN /\ w.use_counter \in BOOLEAN
BY DEF Stores

LEMMA NoiseStores ==
    ASSUME NEW w \in Stores, w.channel = 4
    PROVE  /\ w.reg \in {"sound_length", "envelope", "polynomial_counter", "freq_control"}
           /\ w.reg = "sound_length" => w.length \in 0..LengthRange - 1
           /\ w.reg = "envelope" => w.initial \in 0..MaxVolume
           /\ w.reg = "polynomial_counter" => w.period \in NoisePeriods
                                             /\ w.narrow \in BOOLEAN
           /\ w.reg = "freq_control" => w.trigger \in BOOLEAN /\ w.use_counter \in BOOLEAN
BY DEF Stores

\* What a store does to the length of the note.
LengthStored(c, w, after) ==
    IF w.reg = "freq_control" THEN Restarted(c, after, w.trigger, w.use_counter)
                              ELSE LengthKept(c, after)

LEMMA PulseStored ==
    ASSUME NEW c, PulseOk(c), NEW w \in Stores, w.channel \in {1, 2}
    PROVE  PulseOk(StorePulse(c, w)) /\ LengthStored(c, w, StorePulse(c, w))
<1>1. CASE w.reg = "sweep"
  <2>1. w.shift \in 0..7
    BY <1>1, PulseStores, Sizes DEF Period3
  <2> QED
    BY <1>1, <2>1, PulseWriteSweep DEF StorePulse, LengthStored
<1>2. CASE w.reg = "wave_data"
  <2>1. w.length \in 0..LengthRange - 1
    BY <1>2, PulseStores
  <2> QED
    BY <1>2, <2>1, PulseWriteWaveData DEF StorePulse, LengthStored
<1>3. CASE w.reg = "envelope"
  <2>1. w.initial \in 0..MaxVolume
    BY <1>3, PulseStores
  <2> QED
    BY <1>3, <2>1, PulseWriteEnvelope DEF StorePulse, LengthStored
<1>4. CASE w.reg = "freq_data"
  <2>1. w.low \in 0..LowRange - 1
    BY <1>4, PulseStores
  <2> QED
    BY <1>4, <2>1, PulseWriteFreqData DEF StorePulse, LengthStored
<1>5. CASE w.reg = "freq_control"
  <2>1. w.trigger \in BOOLEAN /\ w.use_counter \in BOOLEAN /\ w.high \in HighBits
    BY <1>5, PulseStores
  <2> QED
    BY <1>5, <2>1, PulseWriteFreqControl DEF StorePulse, LengthStored
<1> QED
  BY <1>1, <1>2, <1>3, <1>4, <1>5, PulseStores

LEMMA WaveStored ==
    ASSUME NEW c, WaveTyped(c), NEW w \in Stores, w.channel = 3
    PROVE  WaveTyped(StoreWave(c, w)) /\ LengthStored(c, w, StoreWave(c, w))
<1>1. CASE w.reg = "enable"
  BY <1>1, WaveWriteEnable DEF StoreWave, LengthStored
<1>2. CASE w.reg = "sound_length"
  <2>1. w.length \in 0..ByteMax
    BY <1>2, WaveStores
  <2> QED
    BY <1>2, <2>1, WaveWriteSoundLength DEF StoreWave, LengthStored
<1>3. CASE w.reg = "output_level"
  BY <1>3, WaveWriteOutputLevel DEF StoreWave, LengthStored
<1>4. CASE w.reg = "freq_data"
  BY <1>4, WaveWriteFreqData DEF StoreWave, LengthStored
<1>5. CASE w.reg = "freq_control"
  <2>1. w.trigger \in BOOLEAN /\ w.use_counter \in BOOLEAN
    BY <1>5, WaveStores
  <2> QED
    BY <1>5, <2>1, WaveWriteFreqControl DEF StoreWave, LengthStored
<1> QED
  BY <1>1, <1>2, <1>3, <1>4, <1>5, WaveStores

\* The register feeds on unless its width is stored, and a trigger fills it.
NoiseFed(c, w, after) ==
    CASE w.reg = "polynomial_counter" -> after.lfsr = c.lfsr
      [] w.reg = "freq_control" /\ w.trigger = TRUE -> Alive(after.lfsr, after.narrow)
      [] OTHER -> Fed(c, after)

LEMMA NoiseStored ==
    ASSUME NEW c, NoiseTyped(c), NEW w \in Stores, w.channel = 4
    PROVE  /\ NoiseTyped(StoreNoise(c, w)) /\ LengthStored(c, w, StoreNoise(c, w))
           /\ NoiseFed(c, w, StoreNoise(c, w))
<1>1. CASE w.reg = "sound_length"
  <2>1. w.length \in 0..ByteMax
    <3>1. w.length \in 0..LengthRange - 1 /\ LengthRange \in Nat /\ ByteMax >= LengthRange
      BY <1>1, NoiseStores, Sizes
    <3> QED
      BY <3>1, Sizes
  <2> QED
    BY <1>1, <2>1, NoiseWriteSoundLength DEF StoreNoise, LengthStored, NoiseFed
<1>2. CASE w.reg = "envelope"
  <2>1. w.initial \in 0..MaxVolume
    BY <1>2, NoiseStores
  <2> QED
    BY <1>2, <2>1, NoiseWriteEnvelope DEF StoreNoise, LengthStored, NoiseFed
<1>3. CASE w.reg = "polynomial_counter"
  <2>1. w.period \in NoisePeriods /\ w.narrow \in BOOLEAN
    BY <1>3, NoiseStores
  <2> QED
    BY <1>3, <2>1, NoiseWritePolynomialCounter DEF StoreNoise, LengthStored, NoiseFed
<1>4. CASE w.reg = "freq_control"
  <2>1. w.trigger \in BOOLEAN /\ w.use_counter \in BOOLEAN
    BY <1>4, NoiseStores
  <2> QED
    BY <1>4, <2>1, NoiseWriteControl DEF StoreNoise, LengthStored, NoiseFed
<1> QED
  BY <1>1, <1>2, <1>3, <1>4, NoiseStores

-----------------------------------------------------------------------------
(* The channels together. *)

ChannelsOk ==
    PulseOk(channel_1) /\ PulseOk(channel_2) /\ WaveTyped(channel_3) /\ NoiseTyped(channel_4)

\* What a turn of the loop does to the length of a note.
Turned(c, after) ==
    IF length_step THEN Clicked(c, after) ELSE LengthKept(c, after)

LEMMA TurnChannels ==
    ASSUME ChannelsOk, Cycle
    PROVE  /\ ChannelsOk'
           /\ Turned(channel_1, channel_1') /\ Turned(channel_2, channel_2')
           /\ Turned(channel_3, channel_3') /\ Turned(channel_4, channel_4')
           /\ Fed(channel_4, channel_4')
<1>1. PulseOk(channel_1') /\ Turned(channel_1, channel_1')
  <2> DEFINE s == If(sweep_step, Pulse!sweep_click, channel_1)
             t == If(length_step, Pulse!length_click, s)
             u == If(envelope_step, Pulse!envelope_click, t)
  <2>1. PulseOk(s) /\ LengthKept(channel_1, s)
    BY PulseSweep DEF ChannelsOk, If, LengthKept
  <2> HIDE DEF s
  <2>2. PulseOk(t) /\ Turned(s, t)
    BY <2>1, PulseLength DEF If, Turned, LengthKept
  <2> HIDE DEF t
  <2>3. PulseOk(u) /\ LengthKept(t, u)
    BY <2>2, PulseEnvelope DEF If, LengthKept
  <2>4. channel_1' = Pulse!tick(u)
    BY DEF Cycle, s, t, u
  <2> HIDE DEF u
  <2>5. PulseOk(channel_1') /\ LengthKept(u, channel_1')
    BY <2>3, <2>4, PulseTicks
  <2> QED
    BY <2>1, <2>2, <2>3, <2>5 DEF Turned, Clicked, LengthKept
<1>2. PulseOk(channel_2') /\ Turned(channel_2, channel_2')
  <2> DEFINE t == If(length_step, Pulse!length_click, channel_2)
             u == If(envelope_step, Pulse!envelope_click, t)
  <2>1. PulseOk(t) /\ Turned(channel_2, t)
    BY PulseLength DEF ChannelsOk, If, Turned, LengthKept
  <2> HIDE DEF t
  <2>2. PulseOk(u) /\ LengthKept(t, u)
    BY <2>1, PulseEnvelope DEF If, LengthKept
  <2>3. channel_2' = Pulse!tick(u)
    BY DEF Cycle, t, u
  <2> HIDE DEF u
  <2>4. PulseOk(channel_2') /\ LengthKept(u, channel_2')
    BY <2>2, <2>3, PulseTicks
  <2> QED
    BY <2>1, <2>2, <2>4 DEF Turned, Clicked, LengthKept
<1>3. WaveTyped(channel_3') /\ Turned(channel_3, channel_3')
  <2> DEFINE t == If(length_step, Wave!length_click, channel_3)
  <2>1. WaveTyped(t) /\ Turned(channel_3, t)
    BY WaveLength DEF ChannelsOk, If, Turned, LengthKept
  <2>2. channel_3' = Wave!tick(t, wave_pattern)
    BY DEF Cycle, t
  <2> HIDE DEF t
  <2>3. WaveTyped(channel_3') /\ LengthKept(t, channel_3')
    BY <2>1, <2>2, WaveTicks
  <2> QED
    BY <2>1, <2>3 DEF Turned, Clicked, LengthKept
<1>4. NoiseTyped(channel_4') /\ Turned(channel_4, channel_4') /\ Fed(channel_4, channel_4')
  <2> DEFINE t == If(length_step, Noise!length_click, channel_4)
             u == If(envelope_step, Pulse!envelope_click, t)
  <2>1. NoiseTyped(t) /\ Turned(channel_4, t) /\ Fed(channel_4, t)
    BY NoiseLength DEF ChannelsOk, If, Turned, LengthKept, Fed
  <2> HIDE DEF t
  <2>2. NoiseTyped(u) /\ LengthKept(t, u) /\ Fed(t, u)
    BY <2>1, NoiseEnvelope DEF If, LengthKept, Fed
  <2>3. channel_4' = Noise!tick(u)
    BY DEF Cycle, t, u
  <2> HIDE DEF u
  <2>4. NoiseTyped(channel_4') /\ LengthKept(u, channel_4') /\ Fed(u, channel_4')
    BY <2>2, <2>3, NoiseTicks
  <2> QED
    BY <2>1, <2>2, <2>4 DEF Turned, Clicked, LengthKept, Fed
<1> QED
  BY <1>1, <1>2, <1>3, <1>4 DEF ChannelsOk

\* A store reaches one channel.
LEMMA StoreChannels ==
    ASSUME ChannelsOk, NEW w \in Program, Store(w)
    PROVE  /\ ChannelsOk'
           /\ w.channel \in 1..4
           /\ IF w.channel = 1 THEN LengthStored(channel_1, w, channel_1')
                               ELSE UNCHANGED channel_1
           /\ IF w.channel = 2 THEN LengthStored(channel_2, w, channel_2')
                               ELSE UNCHANGED channel_2
           /\ IF w.channel = 3 THEN LengthStored(channel_3, w, channel_3')
                               ELSE UNCHANGED channel_3
           /\ IF w.channel = 4 THEN /\ LengthStored(channel_4, w, channel_4')
                                    /\ NoiseFed(channel_4, w, channel_4')
                               ELSE UNCHANGED channel_4
<1>1. w \in Stores
  BY ApuAssumption
<1>2. w.channel \in 1..4
  BY <1>1 DEF Stores
<1>3. /\ w.channel = 1 => channel_1' = StorePulse(channel_1, w)
      /\ w.channel = 2 => channel_2' = StorePulse(channel_2, w)
      /\ w.channel = 3 => channel_3' = StoreWave(channel_3, w)
      /\ w.channel = 4 => channel_4' = StoreNoise(channel_4, w)
      /\ w.channel # 1 => UNCHANGED channel_1
      /\ w.channel # 2 => UNCHANGED channel_2
      /\ w.channel # 3 => UNCHANGED channel_3
      /\ w.channel # 4 => UNCHANGED channel_4
  BY DEF Store
<1>4. /\ w.channel = 1 => PulseOk(channel_1') /\ LengthStored(channel_1, w, channel_1')
      /\ w.channel = 2 => PulseOk(channel_2') /\ LengthStored(channel_2, w, channel_2')
  BY <1>1, <1>3, PulseStored DEF ChannelsOk
<1>5. w.channel = 3 => WaveTyped(channel_3') /\ LengthStored(channel_3, w, channel_3')
  BY <1>1, <1>3, WaveStored DEF ChannelsOk
<1>6. w.channel = 4 => /\ NoiseTyped(channel_4') /\ LengthStored(channel_4, w, channel_4')
                       /\ NoiseFed(channel_4, w, channel_4')
  BY <1>1, <1>3, NoiseStored DEF ChannelsOk
<1> QED
  BY <1>2, <1>3, <1>4, <1>5, <1>6 DEF ChannelsOk

LEMMA Zeros ==
    /\ 0 \in 0..LengthRange - 1 /\ 0 \in 0..MaxVolume /\ 0 \in 0..LowRange - 1
    /\ 0 \in HighBits /\ 0 \in 0..ByteMax /\ 0 \in 0..7
<1>1. \A m, n \in Nat \ {0} : m % n = 0 => m \div n >= 1 /\ m \div n \in Nat
  OBVIOUS
<1>2. FrequencyLimit \div LowRange >= 1 /\ FrequencyLimit \div LowRange \in Nat
  BY <1>1, Sizes
<1>3. 0 \in HighBits
  BY <1>2 DEF HighBits
<1> QED
  BY <1>3, Sizes

\* Some period is the lowest.
LEMMA LowestIsPeriod == LowestPeriod \in NoisePeriods
<1>0. NoisePeriods \subseteq Nat /\ NoisePeriods # {}
  <2>1. NoisePeriods \subseteq 1..TimerRange - 1 /\ TimerRange \in Nat /\ NoisePeriods # {}
    BY ApuAssumption
  <2> QED
    BY <2>1
<1> DEFINE less == {pair \in Nat \X Nat : pair[1] < pair[2]}
<1>1. less = OpToRel(<, Nat)
  BY DEF OpToRel
<1>2. IsWellFoundedOn(less, Nat)
  BY <1>1, NatLessThanWellFounded
<1>3. PICK p \in NoisePeriods : \A q \in NoisePeriods : ~(<<q, p>> \in less)
  <2> HIDE DEF less
  <2> QED
    BY <1>0, <1>2, WFMin
<1>4. ASSUME NEW q \in NoisePeriods PROVE p <= q
  <2>1. p \in Nat /\ q \in Nat
    BY <1>0
  <2>2. CASE q < p
    <3>1. <<q, p>> \in Nat \X Nat /\ <<q, p>>[1] = q /\ <<q, p>>[2] = p
      BY <2>1
    <3>2. <<q, p>> \in less
      BY <2>2, <3>1
    <3> QED
      BY <1>3, <3>2
  <2> QED
    BY <2>1, <2>2
<1> QED
  BY <1>4 DEF LowestPeriod

LEMMA PulseSwitchedOff ==
    ASSUME NEW c, PulseOk(c)
    PROVE  PulseOk(PulseOff(c)) /\ PulseOk(SweptPulseOff(c))
<1>1. ASSUME NEW r, PulseOk(r) PROVE PulseOk(PulseOff(r))
  <2> DEFINE s == Pulse!WriteWaveData(r, 0, 0)
             t == Pulse!WriteEnvelope(s, 0, FALSE, 0)
             u == Pulse!WriteFreqData(t, 0)
  <2>1. PulseOk(s)
    BY <1>1, Zeros, PulseWriteWaveData
  <2> HIDE DEF s
  <2>2. PulseOk(t)
    BY <2>1, Zeros, PulseWriteEnvelope
  <2> HIDE DEF t
  <2>3. PulseOk(u)
    BY <2>2, Zeros, PulseWriteFreqData
  <2> HIDE DEF u
  <2>4. PulseOk(Pulse!WriteFreqControl(u, FALSE, FALSE, 0))
    BY <2>3, Zeros, PulseWriteFreqControl
  <2> QED
    BY <2>4 DEF PulseOff, s, t, u
<1>2. PulseOk(Pulse!WriteSweep(c, 0, FALSE, 0))
  BY Zeros, PulseWriteSweep
<1> QED
  BY <1>1, <1>2 DEF SweptPulseOff

LEMMA WaveSwitchedOff ==
    ASSUME NEW c, WaveTyped(c)
    PROVE  WaveTyped(WaveOff(c))
<1> DEFINE s == Wave!WriteEnable(c, FALSE)
           t == Wave!WriteSoundLength(s, 0)
           u == Wave!WriteOutputLevel(t, TRUE)
           v == Wave!WriteFreqData(u, 0)
<1>1. WaveTyped(s)
  BY WaveWriteEnable
<1> HIDE DEF s
<1>2. WaveTyped(t)
  BY <1>1, Zeros, WaveWriteSoundLength
<1> HIDE DEF t
<1>3. WaveTyped(u)
  BY <1>2, WaveWriteOutputLevel
<1> HIDE DEF u
<1>4. WaveTyped(v)
  BY <1>3, WaveWriteFreqData
<1> HIDE DEF v
<1>5. WaveTyped(Wave!WriteFreqControl(v, FALSE, FALSE, 0))
  BY <1>4, WaveWriteFreqControl
<1> QED
  BY <1>5 DEF WaveOff, s, t, u, v

LEMMA NoiseSwitchedOff ==
    ASSUME NEW c, NoiseTyped(c)
    PROVE  NoiseTyped(NoiseOff(c))
<1> DEFINE s == Noise!WriteSoundLength(c, 0)
           t == Noise!WriteEnvelope(s, 0, FALSE, 0)
           u == Noise!WritePolynomialCounter(t, LowestPeriod, FALSE)
<1>1. NoiseTyped(s)
  BY Zeros, NoiseWriteSoundLength
<1> HIDE DEF s
<1>2. NoiseTyped(t)
  BY <1>1, Zeros, NoiseWriteEnvelope
<1> HIDE DEF t
<1>3. NoiseTyped(u)
  BY <1>2, LowestIsPeriod, NoiseWritePolynomialCounter
<1> HIDE DEF u
<1>4. NoiseTyped(Noise!WriteControl(u, FALSE, FALSE))
  BY <1>3, NoiseWriteControl
<1> QED
  BY <1>4 DEF NoiseOff, s, t, u

\* The power switch silences every channel.
LEMMA OffChannels ==
    ASSUME ChannelsOk, PowerOff
    PROVE  /\ ChannelsOk'
           /\ channel_4'.enabled = FALSE
<1>1. PulseOk(channel_1')
  <2>1. PulseOk(If(power_on, SweptPulseOff, channel_1))
    BY PulseSwitchedOff DEF ChannelsOk, If
  <2> QED
    BY <2>1, PulseDisable DEF PowerOff
<1>2. PulseOk(channel_2')
  <2>1. PulseOk(If(power_on, PulseOff, channel_2))
    BY PulseSwitchedOff DEF ChannelsOk, If
  <2> QED
    BY <2>1, PulseDisable DEF PowerOff
<1>3. WaveTyped(channel_3')
  <2>1. WaveTyped(If(power_on, WaveOff, channel_3))
    BY WaveSwitchedOff DEF ChannelsOk, If
  <2> QED
    BY <2>1, WaveDisable DEF PowerOff
<1>4. NoiseTyped(channel_4') /\ channel_4'.enabled = FALSE
  <2>1. NoiseTyped(If(power_on, NoiseOff, channel_4))
    BY NoiseSwitchedOff DEF ChannelsOk, If
  <2> QED
    BY <2>1, NoiseDisable DEF PowerOff
<1> QED
  BY <1>1, <1>2, <1>3, <1>4 DEF ChannelsOk

LEMMA InitChannels == Init => ChannelsOk
<1> SUFFICES ASSUME Init PROVE ChannelsOk
  OBVIOUS
<1>1. ASSUME NEW sweep \in 0..7, NEW down, NEW duty, NEW initial \in 0..MaxVolume,
             NEW period, NEW on \in BOOLEAN
      PROVE  PulseOk(Pulse!Channel(sweep, down, duty, initial, period, on))
  <2>1. /\ FrequencyLimit - 1 \in 0..FrequencyLimit - 1 /\ 0 \in 0..FrequencyLimit - 1
        /\ 0 \in 0..LengthRange /\ LengthRange - 1 \in 0..LengthRange - 1
        /\ 0 \in 0..MaxVolume
    BY Sizes
  <2>2. 0 \in 0..FrequencyLimit * PulseScale
    <3>1. FrequencyLimit * PulseScale \in Nat
      BY Sizes
    <3> QED
      BY <3>1
  <2> QED
    BY <1>1, <2>1, <2>2 DEF PulseOk, PulseTyped, Quiet, PulseFields, Pulse!Channel
<1>2. Top(7, DefaultPeriod) \in 0..7 /\ 0 \in 0..7
  BY Sizes DEF Top
<1>3. 0 \in 0..MaxVolume /\ MaxVolume \in 0..MaxVolume
  BY Sizes
<1>4. PulseOk(channel_1) /\ PulseOk(channel_2)
  BY <1>1, <1>2, <1>3 DEF Init
<1>5. 0 \in 0..ByteMax /\ ByteMax \in 0..ByteMax
  BY Sizes
<1>6. WaveTyped(channel_3)
  BY <1>5 DEF Init, WaveTyped, WaveFields
<1>7. 0 \in 0..2^(WideBit + 1) - 1 /\ 0 \in 0..TimerRange - 1
  BY AllOnes, ApuAssumption, Weights
<1>8. NoiseTyped(channel_4)
  BY <1>3, <1>5, <1>7, LowestIsPeriod DEF Init, NoiseTyped, NoiseFields
<1> QED
  BY <1>4, <1>6, <1>8 DEF ChannelsOk

-----------------------------------------------------------------------------
(* Ranges, and silence. *)

CountersOk ==
    /\ power_on \in BOOLEAN
    /\ cycles \in Nat
    /\ frame_sequencer \in 0..7
    /\ frame_sequencer_counter \in 0..frame_sequence_count
    /\ down_sample_counter \in 1..down_sample_count
    /\ buffer_fill_amount \in 0..sample_size - 2
    /\ buffer_fill_amount % 2 = 0

\* The inductive invariant of the ranges: TypeOK, the members it leaves out, and
\* the silence of the channels that are off.
InRange == ChannelsOk /\ CountersOk

LEMMA CounterSizes ==
    /\ frame_sequence_count \in Nat \ {0} /\ down_sample_count \in Nat \ {0}
    /\ sample_size \in Nat \ {0} /\ sample_size % 2 = 0
    /\ TickCycles \subseteq Nat \ {0}
BY ApuAssumption

LEMMA TurnCounters ==
    ASSUME CountersOk, Cycle
    PROVE  CountersOk'
<1>1. frame_sequencer' \in 0..7
  <2>1. (frame_sequencer + 1) % 8 \in 0..7
    BY DEF CountersOk
  <2> QED
    BY <2>1 DEF CountersOk, Cycle
<1>2. frame_sequencer_counter' \in 0..frame_sequence_count
  <2> DEFINE begun == IF clock THEN frame_sequence_count ELSE frame_sequencer_counter
             spent == IF buffer_full THEN 0 ELSE 1
  <2>1. begun \in 1..frame_sequence_count
    BY CounterSizes DEF CountersOk, clock
  <2>2. spent \in {0, 1}
    OBVIOUS
  <2>3. frame_sequencer_counter' = begun - spent
    BY DEF Cycle
  <2> HIDE DEF begun, spent
  <2> QED
    BY <2>1, <2>2, <2>3, CounterSizes
<1>3. down_sample_counter' \in 1..down_sample_count
  <2>1. down_sample_counter' =
           IF down_sample_counter = 1 THEN down_sample_count ELSE down_sample_counter - 1
    BY DEF Cycle, sampled
  <2> QED
    BY <2>1, CounterSizes DEF CountersOk
<1>4. buffer_fill_amount' \in 0..sample_size - 2 /\ buffer_fill_amount' % 2 = 0
  <2>1. sample_size \in Nat /\ sample_size >= 2 /\ sample_size % 2 = 0
    BY CounterSizes
  <2>2. buffer_fill_amount \in 0..sample_size - 2 /\ buffer_fill_amount % 2 = 0
    BY DEF CountersOk
  <2>3. \/ buffer_fill_amount' = 0
        \/ buffer_fill_amount' = buffer_fill_amount
        \/ buffer_fill_amount' = buffer_fill_amount + 2 /\ buffer_fill_amount + 2 # sample_size
    BY DEF Cycle, buffer_full
  <2> QED
    BY <2>1, <2>2, <2>3
<1>5. cycles' \in Nat
  BY DEF CountersOk, Cycle
<1>6. power_on' \in BOOLEAN
  BY DEF CountersOk, Cycle
<1> QED
  BY <1>1, <1>2, <1>3, <1>4, <1>5, <1>6 DEF CountersOk

LEMMA InitInRange == Init => InRange
<1> SUFFICES ASSUME Init PROVE CountersOk
  BY InitChannels DEF InRange
<1>1. /\ 0 \in 0..sample_size - 2 /\ 0 \in 0..7 /\ 0 % 2 = 0
      /\ down_sample_count \in 1..down_sample_count
      /\ frame_sequence_count \in 0..frame_sequence_count
  BY CounterSizes
<1> QED
  BY <1>1 DEF Init, CountersOk

LEMMA NextInRange == InRange /\ [Next]_vars => InRange'
<1> SUFFICES ASSUME InRange, [Next]_vars PROVE InRange'
  OBVIOUS
<1> USE DEF InRange
<1>1. CASE UNCHANGED vars
  BY <1>1 DEF vars, channels, sequencer, sampler, ChannelsOk, CountersOk
<1>2. CASE Cycle
  BY <1>2, TurnChannels, TurnCounters
<1>3. ASSUME NEW n \in TickCycles, Tick(n) PROVE InRange'
  <2>1. n \in Nat
    BY CounterSizes
  <2> QED
    BY <1>3, <2>1 DEF Tick, channels, sequencer, sampler, ChannelsOk, CountersOk
<1>4. ASSUME NEW w \in Program, Store(w) PROVE InRange'
  <2>1. ChannelsOk'
    BY <1>4, StoreChannels
  <2> QED
    BY <1>4, <2>1 DEF Store, sequencer, sampler, CountersOk
<1>5. ASSUME NEW data \in {0, 1}, WriteControl(data) PROVE InRange'
  BY <1>5 DEF WriteControl, channels, sequencer, sampler, ChannelsOk, CountersOk
<1>6. ASSUME NEW heard \in SUBSET {0, 1}, WriteWavePattern(heard) PROVE InRange'
  BY <1>6 DEF WriteWavePattern, channels, sequencer, sampler, ChannelsOk, CountersOk
<1>7. CASE PowerOff
  <2>1. ChannelsOk'
    BY <1>7, OffChannels
  <2> QED
    BY <1>7, <2>1 DEF PowerOff, sequencer, sampler, CountersOk
<1>8. CASE PowerOn
  <2>1. 0 \in 0..7 /\ frame_sequence_count \in 0..frame_sequence_count
    BY CounterSizes
  <2> QED
    BY <1>8, <2>1 DEF PowerOn, channels, sequencer, sampler, ChannelsOk, CountersOk
<1> QED
  BY <1>1, <1>2, <1>3, <1>4, <1>5, <1>6, <1>7, <1>8 DEF Next, Run, Write

LEMMA RangeImplies == InRange => TypeOK /\ SilentWhenDisabled
<1> SUFFICES ASSUME InRange PROVE TypeOK /\ SilentWhenDisabled
  OBVIOUS
<1>1. \A c \in {channel_1, channel_2} :
         /\ c.frequency \in 0..FrequencyLimit - 1
         /\ c.shadow \in 0..FrequencyLimit - 1
         /\ c.timer \in 0..FrequencyLimit * PulseScale
         /\ c.length_counter \in 0..LengthRange
         /\ c.volume \in 0..MaxVolume /\ c.output \in 0..MaxVolume
  BY DEF InRange, ChannelsOk, PulseOk, PulseTyped
<1>2. /\ channel_4.volume \in 0..MaxVolume /\ channel_4.output \in 0..MaxVolume
      /\ channel_3.length_counter \in 0..ByteMax
      /\ channel_4.length_counter \in 0..ByteMax
      /\ channel_4.lfsr \in 0..2^(WideBit + 1) - 1
      /\ channel_4.timer \in 0..TimerRange - 1
  BY DEF InRange, ChannelsOk, NoiseTyped, WaveTyped
<1>3. /\ frame_sequencer \in 0..7
      /\ frame_sequencer_counter \in 0..frame_sequence_count
      /\ down_sample_counter \in 1..down_sample_count
      /\ buffer_fill_amount \in 0..sample_size - 2
  BY DEF InRange, CountersOk
<1>4. TypeOK
  BY <1>1, <1>2, <1>3 DEF TypeOK
<1>5. SilentWhenDisabled
  BY DEF InRange, ChannelsOk, PulseOk, PulseTyped, Quiet, SilentWhenDisabled
<1> QED
  BY <1>4, <1>5

LEMMA AlwaysInRange == MCSpec => []InRange
<1>1. MCInit => InRange
  BY InitInRange DEF MCInit
<1>2. InRange /\ [MCNext]_mcvars => InRange'
  BY NextInRange DEF MCNext, mcvars
<1> QED
  BY <1>1, <1>2, PTL DEF MCSpec

\* Whatever the program stores, no sweep takes a channel out of the frequencies,
\* no envelope passes the volumes and the sample buffer is never overrun.
THEOREM TypeCorrect == Spec => []TypeOK
<1>1. InRange => TypeOK
  BY RangeImplies
<1> QED
  BY <1>1, InitInRange, NextInRange, PTL DEF Spec

\* A pulse channel that is reported off is silent, whichever of its length, its
\* sweep, the power switch and its own trigger turned it off.
THEOREM OffIsSilent == Spec => []SilentWhenDisabled
<1>1. InRange => SilentWhenDisabled
  BY RangeImplies
<1> QED
  BY <1>1, InitInRange, NextInRange, PTL DEF Spec

-----------------------------------------------------------------------------
(* The noise. *)

\* The inductive invariant: a register that has bits to feed back.
NoiseFeeds ==
    /\ used \in 1..4
    /\ resized \in BOOLEAN
    /\ used # 4 => channel_4.enabled = FALSE
    /\ channel_4.enabled = TRUE /\ resized = FALSE => Alive(channel_4.lfsr, channel_4.narrow)

LEMMA AliveIsNotZero ==
    ASSUME NEW lfsr \in 0..2^(WideBit + 1) - 1, NEW narrow, Alive(lfsr, narrow)
    PROVE  lfsr # 0
<1>1. 2^(NarrowBit + 1) \in Nat \ {0}
  BY Weights
<1>2. \A n \in Nat \ {0} : 0 % n = 0
  OBVIOUS
<1> QED
  BY <1>1, <1>2 DEF Alive

\* Only a trigger of the noise channel turns it on.
LEMMA NextNoiseFeeds == InRange /\ NoiseFeeds /\ [MCNext]_mcvars => NoiseFeeds'
<1> SUFFICES ASSUME InRange, NoiseFeeds, [MCNext]_mcvars PROVE NoiseFeeds'
  OBVIOUS
<1> USE DEF NoiseFeeds
<1>1. CASE UNCHANGED mcvars
  BY <1>1 DEF mcvars, vars, channels, history
<1>2. ASSUME MCNext PROVE NoiseFeeds'
  <2>1. used' = used /\ used' \in 1..4
    BY <1>2 DEF MCNext, History
  <2>2. resized' = (~Trigger /\ (resized \/ channel_4'.narrow # channel_4.narrow))
    BY <1>2 DEF MCNext, History
  <2>3. resized' \in BOOLEAN
    BY <2>2
  <2>4. ChannelsOk /\ channel_4.enabled \in BOOLEAN
    BY DEF InRange, ChannelsOk, NoiseTyped
  <2>5. CASE Trigger
    <3>1. PICK w \in Program : /\ w.channel = used /\ w.reg = "freq_control"
                               /\ w.trigger /\ Store(w)
      BY <2>5 DEF Trigger
    <3>2. CASE used = 4
      <4>1. w.trigger = TRUE
        BY <3>1, <3>2, NoiseStores, ApuAssumption
      <4>2. NoiseFed(channel_4, w, channel_4')
        BY <2>4, <3>1, <3>2, StoreChannels
      <4>3. Alive(channel_4'.lfsr, channel_4'.narrow)
        BY <3>1, <4>1, <4>2 DEF NoiseFed
      <4> QED
        BY <2>1, <2>3, <3>2, <4>3
    <3>3. CASE used # 4
      <4>1. UNCHANGED channel_4
        BY <2>4, <3>1, <3>3, StoreChannels
      <4> QED
        BY <2>1, <2>3, <3>3, <4>1
    <3> QED
      BY <3>2, <3>3
  <2>6. CASE ~Trigger
    <3>1. resized' = FALSE => resized = FALSE /\ channel_4'.narrow = channel_4.narrow
      BY <2>2, <2>6
    <3>2. SUFFICES ASSUME ~(UNCHANGED channel_4)
                   PROVE  /\ channel_4'.enabled = TRUE => channel_4.enabled = TRUE
                          /\ channel_4'.enabled = TRUE /\ resized' = FALSE
                             /\ Alive(channel_4.lfsr, channel_4.narrow)
                                => Alive(channel_4'.lfsr, channel_4'.narrow)
      <4>1. NoiseTyped(channel_4')
        BY NextInRange, <1>2 DEF MCNext, InRange, ChannelsOk
      <4>2. channel_4'.enabled \in BOOLEAN
        BY <4>1 DEF NoiseTyped
      <4> QED
        BY <2>1, <2>3, <2>4, <3>1, <4>2
    <3>3. CASE Cycle
      <4>1. Turned(channel_4, channel_4') /\ Fed(channel_4, channel_4')
        BY <2>4, <3>3, TurnChannels
      <4> QED
        BY <4>1 DEF Turned, Clicked, LengthKept, Fed
    <3>4. ASSUME NEW w \in Program, Store(w)
          PROVE  /\ channel_4'.enabled = TRUE => channel_4.enabled = TRUE
                 /\ channel_4'.enabled = TRUE /\ resized' = FALSE
                    /\ Alive(channel_4.lfsr, channel_4.narrow)
                       => Alive(channel_4'.lfsr, channel_4'.narrow)
      <4>1. /\ w.channel = 4
            /\ LengthStored(channel_4, w, channel_4') /\ NoiseFed(channel_4, w, channel_4')
        BY <2>4, <3>2, <3>4, StoreChannels
      <4>2. IsStore /\ power_on' = power_on
        BY <3>4 DEF Store, IsStore
      <4>3. used = 4
        BY <1>2, <3>2, <4>2 DEF MCNext, Focus
      <4>4. ~(w.reg = "freq_control" /\ w.trigger)
        BY <2>6, <3>4, <4>1, <4>2, <4>3 DEF Trigger
      <4>5. w.reg = "freq_control" => w.trigger # TRUE
        BY <4>4
      <4>6. channel_4'.enabled = TRUE => channel_4.enabled = TRUE
        BY <4>1, <4>5 DEF LengthStored, Restarted, LengthKept
      <4>7. CASE w.reg = "polynomial_counter"
        BY <3>1, <4>1, <4>6, <4>7 DEF NoiseFed
      <4>8. CASE w.reg # "polynomial_counter"
        BY <4>1, <4>5, <4>6, <4>8 DEF NoiseFed, Fed
      <4> QED
        BY <4>7, <4>8
    <3>5. CASE PowerOff
      BY <2>4, <3>5, OffChannels
    <3>6. ASSUME \/ \E n \in TickCycles : Tick(n)
                 \/ \E data \in {0, 1} : WriteControl(data)
                 \/ \E heard \in SUBSET {0, 1} : WriteWavePattern(heard)
                 \/ PowerOn
          PROVE  FALSE
      BY <3>2, <3>6 DEF Tick, WriteControl, WriteWavePattern, PowerOn, channels
    <3> QED
      BY <1>2, <3>3, <3>4, <3>5, <3>6 DEF MCNext, Next, Run, Write
  <2> QED
    BY <2>5, <2>6
<1> QED
  BY <1>1, <1>2

\* Whatever the program stores between two triggers, the noise goes on: its
\* register only runs empty when the width changes under it.
THEOREM NoiseGoesOn == MCSpec => []NoiseKeepsRunning
<1>1. MCInit => NoiseFeeds
  <2>1. MCInit => used \in 1..4 /\ resized = FALSE /\ Init
    BY DEF MCInit
  <2>2. Init => channel_4.enabled = FALSE
    BY DEF Init
  <2> QED
    BY <2>1, <2>2 DEF NoiseFeeds
<1>2. InRange /\ NoiseFeeds => NoiseKeepsRunning
  BY AliveIsNotZero DEF InRange, ChannelsOk, NoiseTyped, NoiseFeeds, NoiseKeepsRunning
<1> QED
  BY <1>1, <1>2, NextNoiseFeeds, AlwaysInRange, PTL DEF MCSpec

-----------------------------------------------------------------------------
(* The pace of the samples. *)

HasCycles == cycles > 0 => \E n \in TickCycles : cycles <= n

\* The cycles run since the last buffer, from the sample counters.
Sampled ==
    (buffer_fill_amount \div 2) * down_sample_count
        + (down_sample_count - down_sample_counter)

\* The inductive invariant: what was handed over since the last buffer is what
\* was run and what is left.
InStep == HasCycles /\ (used = 2 => since \in Int /\ since - cycles = Sampled)

LEMMA NextSample ==
    ASSUME NEW fill \in Nat, NEW count \in Nat
    PROVE  ((fill + 2) \div 2) * count = (fill \div 2) * count + count
<1> DEFINE half == fill \div 2
<1>1. (fill + 2) \div 2 = half + 1 /\ half \in Nat
  OBVIOUS
<1> HIDE DEF half
<1>2. (half + 1) * count = half * count + count
  BY <1>1
<1> QED
  BY <1>1, <1>2 DEF half

\* A turn of the loop that hands over no buffer runs one cycle.
LEMMA OneCycle ==
    ASSUME CountersOk, Cycle, ~buffer_full
    PROVE  Sampled' = Sampled + 1 /\ cycles' = cycles - 1
<1> DEFINE count == down_sample_count
           samples == (buffer_fill_amount \div 2) * count
<1>1. /\ count \in Nat \ {0} /\ buffer_fill_amount \in Nat
      /\ down_sample_counter \in 1..count /\ sample_size \in Nat
  BY CounterSizes DEF CountersOk
<1>2. samples \in Nat
  <2>1. buffer_fill_amount \div 2 \in Nat
    BY <1>1
  <2> QED
    BY <1>1, <2>1
<1>3. Sampled = samples + (count - down_sample_counter)
  BY DEF Sampled
<1>4. Sampled' = (buffer_fill_amount' \div 2) * count + (count - down_sample_counter')
  BY DEF Sampled
<1>5. CASE sampled
  <2>1. down_sample_counter = 1 /\ down_sample_counter' = count
        /\ buffer_fill_amount' = buffer_fill_amount + 2
    BY <1>5 DEF Cycle, sampled
  <2>2. (buffer_fill_amount' \div 2) * count = samples + count
    BY <1>1, <2>1, NextSample
  <2> HIDE DEF samples
  <2> QED
    BY <1>1, <1>2, <1>3, <1>4, <2>1, <2>2 DEF Cycle
<1>6. CASE ~sampled
  <2>1. down_sample_counter' = down_sample_counter - 1
        /\ buffer_fill_amount' = buffer_fill_amount
    BY <1>6 DEF Cycle, buffer_full
  <2>2. (buffer_fill_amount' \div 2) * count = samples
    BY <2>1
  <2> HIDE DEF samples
  <2> QED
    BY <1>1, <1>2, <1>3, <1>4, <2>1, <2>2 DEF Cycle
<1> QED
  BY <1>5, <1>6

\* The turn that fills the buffer is the last but one of its cycles.
LEMMA FullBuffer ==
    ASSUME CountersOk, buffer_full
    PROVE  Sampled = buffer_cycles - 1 /\ buffer_cycles \in Nat
<1> DEFINE count == down_sample_count
           half == sample_size \div 2
<1>1. count \in Nat \ {0} /\ sample_size \in Nat \ {0} /\ sample_size % 2 = 0
  BY CounterSizes
<1>2. buffer_fill_amount + 2 = sample_size /\ down_sample_counter = 1
      /\ buffer_fill_amount \in Nat
  BY CounterSizes DEF buffer_full, sampled, CountersOk
<1>3. half * count = (buffer_fill_amount \div 2) * count + count
  BY <1>1, <1>2, NextSample
<1>4. half \in Nat /\ half * count \in Nat /\ (buffer_fill_amount \div 2) * count \in Nat
  <2>1. half \in Nat /\ buffer_fill_amount \div 2 \in Nat
    BY <1>1, <1>2
  <2> HIDE DEF half
  <2> QED
    BY <1>1, <2>1
<1>5. buffer_cycles = half * count
  BY DEF buffer_cycles
<1> DEFINE samples == (buffer_fill_amount \div 2) * count
           total == half * count
<1>6. Sampled = samples + (count - 1)
  BY <1>2 DEF Sampled
<1>7. total = samples + count /\ samples \in Nat /\ total \in Nat
  BY <1>3, <1>4
<1> HIDE DEF samples, total
<1>8. Sampled = total - 1
  BY <1>1, <1>6, <1>7
<1> QED
  BY <1>5, <1>7, <1>8 DEF total

LEMMA InitInStep == MCInit => InStep
<1> SUFFICES ASSUME MCInit PROVE InStep
  OBVIOUS
<1>1. /\ since = 0 /\ cycles = 0 /\ buffer_fill_amount = 0
      /\ down_sample_counter = down_sample_count
  BY DEF MCInit, Init
<1>2. down_sample_count \in Nat
  BY CounterSizes
<1>3. 0 \div 2 = 0 /\ 0 * down_sample_count = 0
  BY <1>2
<1>4. Sampled = 0
  BY <1>1, <1>2, <1>3 DEF Sampled
<1> QED
  BY <1>1, <1>4 DEF InStep, HasCycles

LEMMA NextInStep == InRange /\ InStep /\ [MCNext]_mcvars => InStep'
<1> SUFFICES ASSUME InRange, InStep, [MCNext]_mcvars PROVE InStep'
  OBVIOUS
<1>0. CountersOk /\ cycles \in Nat
  BY DEF InRange, CountersOk
<1>1. CASE UNCHANGED mcvars
  BY <1>1 DEF mcvars, vars, sampler, history, InStep, HasCycles, Sampled
<1>2. ASSUME MCNext PROVE InStep'
  <2>1. /\ used' = used
        /\ since' = IF HandOver \/ used # 2 THEN 0
                    ELSE IF cycles = 0 /\ ~IsStore THEN since + cycles' ELSE since
    BY <1>2 DEF MCNext, History
  <2>2. CASE Cycle /\ buffer_full
    <3>1. cycles' = 0 /\ since' = 0 /\ buffer_fill_amount' = 0
          /\ down_sample_counter' = down_sample_count
      BY <2>1, <2>2 DEF Cycle, HandOver, buffer_full
    <3>2. down_sample_count \in Nat
      BY CounterSizes
    <3>3. 0 \div 2 = 0 /\ 0 * down_sample_count = 0
      BY <3>2
    <3>4. Sampled' = 0
      BY <3>1, <3>2, <3>3 DEF Sampled
    <3> QED
      BY <3>1, <3>4 DEF InStep, HasCycles
  <2>3. CASE Cycle /\ ~buffer_full
    <3>1. Sampled' = Sampled + 1 /\ cycles' = cycles - 1 /\ cycles > 0
      BY <1>0, <2>3, OneCycle DEF Cycle
    <3>2. HasCycles'
      <4>1. PICK n \in TickCycles : cycles <= n
        BY <3>1 DEF InStep, HasCycles
      <4>2. n \in Nat
        BY CounterSizes
      <4>3. cycles' <= n
        BY <1>0, <3>1, <4>1, <4>2
      <4> QED
        BY <4>3 DEF HasCycles
    <3>3. ASSUME used = 2 PROVE since' = since
      BY <1>0, <2>1, <2>3, <3>1, <3>3 DEF HandOver
    <3>4. ASSUME used = 2 PROVE since' \in Int /\ since' - cycles' = Sampled'
      <4>1. since \in Int /\ since - cycles = Sampled
        BY <3>4 DEF InStep
      <4>2. Sampled \in Int
        BY <1>0, <4>1
      <4> QED
        BY <1>0, <3>1, <3>3, <3>4, <4>1, <4>2
    <3> QED
      BY <2>1, <3>2, <3>4 DEF InStep
  <2>4. ASSUME NEW n \in TickCycles, Tick(n) PROVE InStep'
    <3>1. n \in Nat /\ n > 0 /\ cycles = 0 /\ cycles' = n
      BY <2>4, CounterSizes DEF Tick
    <3>2. HasCycles'
      BY <3>1 DEF HasCycles
    <3>3. Sampled' = Sampled
      BY <2>4 DEF Tick, sampler, Sampled
    <3>4. ASSUME used = 2 PROVE since' \in Int /\ since' - cycles' = Sampled'
      <4>1. since \in Int /\ since - cycles = Sampled
        BY <3>4 DEF InStep
      <4>2. since' = since + n
        BY <2>1, <3>1, <3>4 DEF HandOver, IsStore
      <4> QED
        BY <3>1, <3>3, <4>1, <4>2
    <3> QED
      BY <2>1, <3>2, <3>4 DEF InStep
  <2>5. CASE Write
    <3>1. cycles = 0 /\ cycles' = 0 /\ UNCHANGED sampler
      BY <2>5 DEF Write, Store, WriteControl, WriteWavePattern, PowerOff, PowerOn
    <3>2. Sampled' = Sampled
      BY <3>1 DEF sampler, Sampled
    <3>3. ASSUME used = 2 PROVE since' = since
      BY <2>1, <3>1, <3>3 DEF HandOver, IsStore
    <3> QED
      BY <2>1, <3>1, <3>2, <3>3 DEF InStep, HasCycles
  <2> QED
    BY <1>2, <2>2, <2>3, <2>4, <2>5 DEF MCNext, Next, Run
<1> QED
  BY <1>1, <1>2

\* However the cycles of the instructions fall on the samples, a buffer stands
\* for the cycles it took, short of one instruction: what is dropped of an
\* instruction's cycles when a buffer is full never adds up.
THEOREM SamplesKeepPace == MCSpec => ConstantRate
<1>1. InRange /\ InStep =>
         (HandOver /\ used = 2 => \E n \in TickCycles :
                     since \in buffer_cycles..buffer_cycles + n - 1)
  <2> SUFFICES ASSUME InRange, InStep, HandOver, used = 2
               PROVE  \E n \in TickCycles :
                         since \in buffer_cycles..buffer_cycles + n - 1
    OBVIOUS
  <2>1. cycles \in Nat /\ cycles > 0 /\ CountersOk /\ buffer_full
    BY DEF InRange, CountersOk, HandOver
  <2>2. PICK n \in TickCycles : cycles <= n
    BY <2>1 DEF InStep, HasCycles
  <2>3. n \in Nat
    BY CounterSizes
  <2>4. since \in Int /\ since - cycles = buffer_cycles - 1 /\ buffer_cycles \in Nat
    BY <2>1, FullBuffer DEF InStep
  <2>5. since \in buffer_cycles..buffer_cycles + n - 1
    <3> HIDE DEF buffer_cycles
    <3> QED
      BY <2>1, <2>2, <2>3, <2>4
  <2> QED
    BY <2>5
<1> DEFINE Pace == HandOver /\ used = 2 => \E n \in TickCycles :
                      since \in buffer_cycles..buffer_cycles + n - 1
<1>2. InRange /\ InStep /\ [MCNext]_mcvars => [Pace]_mcvars
  BY <1>1
<1>3. MCSpec => [][Pace]_mcvars
  <2> HIDE DEF Pace
  <2> QED
    BY <1>2, InitInStep, NextInStep, AlwaysInRange, PTL DEF MCSpec
<1> QED
  BY <1>3 DEF ConstantRate

-----------------------------------------------------------------------------
(* The length of a note. *)

\* What is left of a note of some clicks after some steps of the sequencer, by
\* whether the next step clicks: half a click before or behind its schedule,
\* as the note began before a step that clicks or before one that does not.
OnSchedule(left, clicks, steps, clicks_next) ==
    /\ left \in 0..clicks
    /\ IF left = 0 THEN steps \in {2 * clicks - 1, 2 * clicks}
       ELSE IF clicks_next THEN 2 * (clicks - left) \in {steps - 1, steps}
       ELSE 2 * (clicks - left) \in {steps, steps + 1}

LEMMA Scheduled ==
    ASSUME NEW left \in Nat, NEW clicks \in Nat, NEW steps \in Nat, left > 0
    PROVE  /\ OnSchedule(left, clicks, steps, TRUE)
                 => OnSchedule(left - 1, clicks, steps + 1, FALSE)
           /\ OnSchedule(left, clicks, steps, FALSE)
                 => OnSchedule(left, clicks, steps + 1, TRUE)
BY DEF OnSchedule

even == frame_sequencer \in {0, 2, 4, 6}

\* The inductive invariant: NoteLength, and what is left at every step.
NotesOnSchedule ==
    /\ used \in 1..4
    /\ note \in Nat /\ age \in Nat
    /\ note > 0 => /\ power_on = TRUE
                   /\ Played.use_counter = TRUE
                   /\ Played.enabled = TRUE => Played.length_counter > 0
                   /\ OnSchedule(Played.length_counter, note, age, even)

LEMMA PlayedTyped ==
    ASSUME ChannelsOk, used \in 1..4
    PROVE  /\ Played.length_counter \in Nat
           /\ Played.use_counter \in BOOLEAN /\ Played.enabled \in BOOLEAN
<1>1. \A c \in {channel_1, channel_2, channel_3, channel_4} :
         c.length_counter \in Nat /\ c.use_counter \in BOOLEAN /\ c.enabled \in BOOLEAN
  BY Sizes DEF ChannelsOk, PulseOk, PulseTyped, WaveTyped, NoiseTyped
<1> QED
  BY <1>1 DEF Played

\* What a step does to the channel that is followed.
LEMMA PlayedSteps ==
    ASSUME ChannelsOk, used \in 1..4, used' = used
    PROVE  /\ Cycle => Turned(Played, Played')
           /\ UNCHANGED channels => Played' = Played
           /\ \A w \in Program : Store(w) =>
                 IF w.channel = used THEN LengthStored(Played, w, Played')
                                     ELSE Played' = Played
<1>1. ASSUME Cycle PROVE Turned(Played, Played')
  <2>1. /\ Turned(channel_1, channel_1') /\ Turned(channel_2, channel_2')
        /\ Turned(channel_3, channel_3') /\ Turned(channel_4, channel_4')
    BY <1>1, TurnChannels
  <2>2. CASE used = 1
    BY <2>1, <2>2 DEF Played
  <2>3. CASE used = 2
    BY <2>1, <2>3 DEF Played
  <2>4. CASE used = 3
    BY <2>1, <2>4 DEF Played
  <2>5. CASE used = 4
    BY <2>1, <2>5 DEF Played
  <2> QED
    BY <2>2, <2>3, <2>4, <2>5
<1>2. UNCHANGED channels => Played' = Played
  BY DEF channels, Played
<1>3. ASSUME NEW w \in Program, Store(w)
      PROVE  IF w.channel = used THEN LengthStored(Played, w, Played')
                                 ELSE Played' = Played
  <2>1. /\ IF w.channel = 1 THEN LengthStored(channel_1, w, channel_1')
                            ELSE UNCHANGED channel_1
        /\ IF w.channel = 2 THEN LengthStored(channel_2, w, channel_2')
                            ELSE UNCHANGED channel_2
        /\ IF w.channel = 3 THEN LengthStored(channel_3, w, channel_3')
                            ELSE UNCHANGED channel_3
        /\ IF w.channel = 4 THEN LengthStored(channel_4, w, channel_4')
                            ELSE UNCHANGED channel_4
    BY <1>3, StoreChannels
  <2>2. CASE used = 1
    BY <2>1, <2>2 DEF Played
  <2>3. CASE used = 2
    BY <2>1, <2>3 DEF Played
  <2>4. CASE used = 3
    BY <2>1, <2>4 DEF Played
  <2>5. CASE used = 4
    BY <2>1, <2>5 DEF Played
  <2> QED
    BY <2>2, <2>3, <2>4, <2>5
<1> QED
  BY <1>1, <1>2, <1>3

\* A turn of the loop keeps a note on its schedule.
LEMMA TurnKeepsSchedule ==
    ASSUME InRange, NotesOnSchedule, Cycle, used' = used, note > 0,
           age' = IF clock /\ Played.length_counter > 0 THEN age + 1 ELSE age,
           Played'.use_counter = TRUE
    PROVE  /\ Played'.enabled = TRUE => Played'.length_counter > 0
           /\ OnSchedule(Played'.length_counter, note, age', even')
           /\ age' \in Nat
<1> DEFINE left == Played.length_counter
           left_after == Played'.length_counter
<1>1. Turned(Played, Played') /\ ChannelsOk' /\ used' \in 1..4
  BY PlayedSteps, TurnChannels DEF InRange, NotesOnSchedule
<1>2. left \in Nat /\ left_after \in Nat
  BY <1>1, PlayedTyped DEF InRange, NotesOnSchedule, Turned, Clicked, LengthKept
<1>3. /\ note \in Nat /\ age \in Nat /\ OnSchedule(left, note, age, even)
      /\ Played.use_counter = TRUE
      /\ Played.enabled = TRUE => left > 0
  BY DEF NotesOnSchedule
<1>4. /\ frame_sequencer \in 0..7
      /\ frame_sequencer' = IF clock THEN (frame_sequencer + 1) % 8 ELSE frame_sequencer
  BY DEF InRange, CountersOk, Cycle
<1>5. IF clock THEN even' = ~even ELSE even' = even
  BY <1>4 DEF even
<1>6. CASE clock /\ left > 0
  <2>1. CASE even
    <3>1. length_step
      BY <1>6, <2>1 DEF length_step, even
    <3>2. left_after = left - 1 /\ (Played'.enabled = TRUE => left_after > 0)
      BY <1>1, <1>3, <1>6, <3>1 DEF Turned, Clicked
    <3>3. even = TRUE /\ even' = FALSE
      BY <1>5, <1>6, <2>1 DEF even
    <3>4. OnSchedule(left - 1, note, age + 1, FALSE)
      <4> HIDE DEF left
      <4> QED
        BY <1>2, <1>3, <1>6, <3>3, Scheduled
    <3>5. age' = age + 1 /\ age' \in Nat
      BY <1>3, <1>6
    <3>6. OnSchedule(left_after, note, age', even')
      BY <3>2, <3>3, <3>4, <3>5 DEF OnSchedule
    <3> QED
      BY <3>2, <3>5, <3>6
  <2>2. CASE ~even
    <3>1. ~length_step
      BY <1>6, <2>2 DEF length_step, even
    <3>2. left_after = left /\ (Played'.enabled = TRUE => left_after > 0)
      BY <1>1, <1>6, <3>1 DEF Turned, LengthKept
    <3>3. even = FALSE /\ even' = TRUE
      BY <1>5, <1>6, <2>2 DEF even
    <3>4. OnSchedule(left, note, age + 1, TRUE)
      <4> HIDE DEF left
      <4> QED
        BY <1>2, <1>3, <1>6, <3>3, Scheduled
    <3>5. age' = age + 1 /\ age' \in Nat
      BY <1>3, <1>6
    <3>6. OnSchedule(left_after, note, age', even')
      BY <3>2, <3>3, <3>4, <3>5 DEF OnSchedule
    <3> QED
      BY <3>2, <3>5, <3>6
  <2> QED
    BY <2>1, <2>2
<1>7. CASE left = 0
  <2>1. left_after = 0 /\ (Played'.enabled = TRUE => Played.enabled = TRUE)
    BY <1>1, <1>7 DEF Turned, Clicked, LengthKept
  <2>2. age' = age
    BY <1>7
  <2>3. OnSchedule(0, note, age, even')
    BY <1>3, <1>7 DEF OnSchedule
  <2> QED
    BY <1>3, <1>7, <2>1, <2>2, <2>3
<1>8. CASE ~clock
  <2>1. left_after = left /\ (Played'.enabled = TRUE => Played.enabled = TRUE)
    BY <1>1, <1>8 DEF Turned, LengthKept, length_step
  <2> QED
    BY <1>3, <1>5, <1>8, <2>1
<1>9. left > 0 \/ left = 0
  <2> HIDE DEF left
  <2> QED
    BY <1>2
<1> QED
  BY <1>6, <1>7, <1>8, <1>9

LEMMA NextNotesOnSchedule ==
    InRange /\ NotesOnSchedule /\ [MCNext]_mcvars => NotesOnSchedule'
<1> SUFFICES ASSUME InRange, NotesOnSchedule, [MCNext]_mcvars PROVE NotesOnSchedule'
  OBVIOUS
<1>1. CASE UNCHANGED mcvars
  BY <1>1 DEF mcvars, vars, channels, sequencer, history, NotesOnSchedule, Played, even
<1>2. ASSUME MCNext PROVE NotesOnSchedule'
  <2>1. /\ used' = used
        /\ note' = IF ~Played'.use_counter \/ ~power_on' THEN 0
                   ELSE IF Trigger THEN Played'.length_counter ELSE note
        /\ age' = IF note' = 0 \/ Trigger THEN 0
                  ELSE IF cycles > 0 /\ clock /\ Played.length_counter > 0 THEN age + 1
                  ELSE age
    BY <1>2 DEF MCNext, History
  <2>2. InRange' /\ ChannelsOk /\ ChannelsOk' /\ used \in 1..4 /\ used' \in 1..4
    BY <1>2, <2>1, NextInRange DEF MCNext, InRange, NotesOnSchedule
  <2>3. /\ Played'.length_counter \in Nat
        /\ Played'.use_counter \in BOOLEAN /\ power_on' \in BOOLEAN
    <3>1. \A c \in {channel_1', channel_2', channel_3', channel_4'} :
             c.length_counter \in Nat /\ c.use_counter \in BOOLEAN
      BY <2>2, Sizes DEF ChannelsOk, PulseOk, PulseTyped, WaveTyped, NoiseTyped
    <3> QED
      BY <2>2, <3>1 DEF Played, InRange, CountersOk
  <2>4. note \in Nat /\ age \in Nat
    BY DEF NotesOnSchedule
  <2>5. SUFFICES ASSUME note' # 0, Played'.use_counter = TRUE, power_on' = TRUE
                 PROVE  NotesOnSchedule'
    <3>1. CASE note' = 0
      BY <2>1, <2>2, <3>1 DEF NotesOnSchedule
    <3>2. note' # 0 => Played'.use_counter = TRUE /\ power_on' = TRUE
      BY <2>1, <2>3
    <3> QED
      BY <2>5, <3>1, <3>2
  <2>6. CASE Trigger
    <3>1. note' = Played'.length_counter /\ age' = 0
      BY <2>1, <2>5, <2>6
    <3>2. OnSchedule(note', note', 0, even')
      BY <2>3, <2>5, <3>1 DEF OnSchedule
    <3> QED
      BY <2>2, <2>3, <2>5, <3>1, <3>2 DEF NotesOnSchedule
  <2>7. CASE ~Trigger
    <3>1. note' = note /\ note > 0
      BY <2>1, <2>4, <2>5, <2>7
    <3>2. /\ power_on = TRUE /\ Played.use_counter = TRUE
          /\ Played.enabled = TRUE => Played.length_counter > 0
          /\ OnSchedule(Played.length_counter, note, age, even)
      BY <3>1 DEF NotesOnSchedule
    <3>3. CASE Cycle
      <4>1. age' = IF clock /\ Played.length_counter > 0 THEN age + 1 ELSE age
        BY <2>1, <2>5, <2>7, <3>3 DEF Cycle
      <4>2. /\ Played'.enabled = TRUE => Played'.length_counter > 0
            /\ OnSchedule(Played'.length_counter, note, age', even')
            /\ age' \in Nat
        BY <2>1, <2>5, <3>1, <3>3, <4>1, TurnKeepsSchedule
      <4> QED
        BY <2>2, <2>4, <2>5, <3>1, <4>2 DEF NotesOnSchedule
    <3>4. SUFFICES ASSUME cycles = 0
                   PROVE  /\ frame_sequencer' = frame_sequencer
                          /\ Played'.length_counter = Played.length_counter
                          /\ Played'.enabled = TRUE => Played.enabled = TRUE
      <4>1. cycles = 0 \/ Cycle
        BY <1>2 DEF MCNext, Next, Run, Write, Tick, Store, WriteControl, WriteWavePattern,
                    PowerOff, PowerOn
      <4>2. ASSUME cycles = 0 PROVE NotesOnSchedule'
        <5>1. age' = age
          BY <2>1, <2>5, <2>7, <4>2
        <5>2. even' = even
          BY <3>4, <4>2 DEF even
        <5> QED
          BY <2>2, <2>4, <2>5, <3>1, <3>2, <3>4, <4>2, <5>1, <5>2 DEF NotesOnSchedule
      <4> QED
        BY <3>3, <4>1, <4>2
    <3>5. ASSUME NEW w \in Program, Store(w)
          PROVE  /\ frame_sequencer' = frame_sequencer
                 /\ Played'.length_counter = Played.length_counter
                 /\ Played'.enabled = TRUE => Played.enabled = TRUE
      <4>1. IF w.channel = used THEN LengthStored(Played, w, Played') ELSE Played' = Played
        BY <2>1, <2>2, <3>5, PlayedSteps
      <4>2. frame_sequencer' = frame_sequencer /\ IsStore
        BY <3>5 DEF Store, sequencer, IsStore
      <4>3. CASE w.channel # used \/ w.reg # "freq_control"
        BY <4>1, <4>2, <4>3 DEF LengthStored, LengthKept
      <4>4. CASE w.channel = used /\ w.reg = "freq_control"
        <5>1. w.trigger # TRUE
          BY <2>7, <3>5, <4>2, <4>4 DEF Trigger
        <5> QED
          BY <4>1, <4>2, <4>4, <5>1 DEF LengthStored, Restarted
      <4> QED
        BY <4>3, <4>4
    <3>6. ASSUME \/ \E n \in TickCycles : Tick(n)
                 \/ \E data \in {0, 1} : WriteControl(data)
                 \/ \E heard \in SUBSET {0, 1} : WriteWavePattern(heard)
          PROVE  /\ frame_sequencer' = frame_sequencer
                 /\ Played' = Played
      <4>1. UNCHANGED <<channels, sequencer>>
        BY <3>6 DEF Tick, WriteControl, WriteWavePattern
      <4> QED
        BY <2>1, <2>2, <4>1, PlayedSteps DEF sequencer
    <3>7. ~PowerOff /\ ~PowerOn
      BY <2>5, <3>2 DEF PowerOff, PowerOn
    <3>8. ~Cycle
      BY <2>4, <3>4 DEF Cycle
    <3> QED
      BY <1>2, <3>5, <3>6, <3>7, <3>8 DEF MCNext, Next, Run, Write
  <2> QED
    BY <2>6, <2>7
<1> QED
  BY <1>1, <1>2

\* A note lasts as many clicks as its trigger loaded, from whichever phase of
\* the frame sequencer, whatever is stored that is not another trigger.
THEOREM NotesKeepTheirLength == MCSpec => []NoteLength
<1>1. MCInit => NotesOnSchedule
  BY DEF MCInit, NotesOnSchedule
<1>2. InRange /\ NotesOnSchedule => NoteLength
  <2> SUFFICES ASSUME InRange, NotesOnSchedule, note > 0
               PROVE  /\ Played.enabled => age < 2 * note
                      /\ Played.length_counter = 0 => age >= 2 * note - 1
    BY DEF NoteLength
  <2> DEFINE left == Played.length_counter
  <2>1. /\ note \in Nat /\ age \in Nat /\ left \in Nat
        /\ Played.enabled = TRUE => left > 0
        /\ OnSchedule(left, note, age, even)
    BY PlayedTyped DEF InRange, NotesOnSchedule
  <2>2. (left > 0 => age < 2 * note) /\ (left = 0 => age >= 2 * note - 1)
    <3> HIDE DEF left
    <3> QED
      BY <2>1 DEF OnSchedule
  <2>3. Played.enabled \in BOOLEAN
    BY PlayedTyped DEF InRange, NotesOnSchedule
  <2> QED
    BY <2>1, <2>2, <2>3
<1> QED
  BY <1>1, <1>2, NextNotesOnSchedule, AlwaysInRange, PTL DEF MCSpec
====
