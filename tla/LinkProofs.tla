---------------------------- MODULE LinkProofs -----------------------------
(***************************************************************************)
(* Proofs about the serial port: a transfer lasts as long as its bits, and *)
(* two joined ports implement the cable, for every byte, every number of   *)
(* bits and every set of instruction lengths.                              *)
(***************************************************************************)
EXTENDS MCLink, TLAPS

\* The members of class link that tick() computes with.
ShifterType ==
    /\ transferring \in BOOLEAN
    /\ fast \in BOOLEAN
    /\ clock_mode \in Mode
    /\ double_speed \in BOOLEAN
    /\ shift_clock \in 0..ShiftMod - 1
    /\ shift_counter \in Nat

\* Instructions are not longer than a bit.
ShortTicks == \A c \in TickCycles : c <= clock_rate

\* What the shift counters are worth has been paid for by the cycles that went
\* by, exactly if no tick has been longer than a bit; cycles are only counted
\* while bits are shifted.
Accounted ==
    /\ elapsed \in Nat /\ debt \in Nat /\ in_time \in BOOLEAN
    /\ ~Shifting => elapsed = 0
    /\ debt + elapsed >= Worth
    /\ in_time /\ ShortTicks => /\ debt + elapsed = Worth
                                /\ shift_clock < clock_rate

\* The inductive invariant.
IInv ==
    /\ alone \in BOOLEAN
    /\ ShifterType
    /\ alone => Accounted

-----------------------------------------------------------------------------
\* A sum that is short of the modulus, or of twice the modulus.
LEMMA Wraps ==
    ASSUME NEW n \in Nat \ {0}, NEW a \in 0..2 * n - 1
    PROVE  a % n = IF a < n THEN a ELSE a - n
OBVIOUS

\* A clock period is a number of cycles that a shift clock can hold.
LEMMA RateRange ==
    ASSUME ShifterType
    PROVE  clock_rate \in Nat /\ 1 <= clock_rate /\ clock_rate <= BaseRate
<1>1. /\ BaseRate \div 1 = BaseRate
      /\ \A d \in {2, 32, 64} : BaseRate \div d \in Nat /\ BaseRate \div d \in 1..BaseRate
  BY RateAssumption
<1>2. (IF fast THEN 32 ELSE 1) * (IF double_speed THEN 2 ELSE 1) \in {1, 2, 32, 64}
  BY DEF ShifterType
<1> QED
  BY <1>1, <1>2, RateAssumption DEF clock_rate

\* The worth of the counters is a number of cycles.
LEMMA WorthType ==
    ASSUME ShifterType
    PROVE  Worth \in Nat
<1>1. clock_rate \in Nat
  BY RateRange
<1> QED
  BY <1>1 DEF Worth, ShifterType

LEMMA WorthTypeNext == ShifterType' => (Worth \in Nat)'
<1>1. ShifterType => Worth \in Nat
  BY WorthType
<1> QED
  BY <1>1, PTL

\* The shift clock after an addition, which loses cycles when it wraps.
LEMMA ClockRange ==
    ASSUME ShifterType, NEW cycles \in TickCycles
    PROVE  /\ cycles \in 1..44
           /\ Clock(cycles) \in 0..ShiftMod - 1
           /\ Clock(cycles) <= shift_clock + cycles
           /\ shift_clock < clock_rate => Clock(cycles) = shift_clock + cycles
<1>1. cycles \in 1..44
  BY TickAssumption
<1>2. clock_rate \in Nat /\ clock_rate <= BaseRate
  BY RateRange
<1>3. /\ ShiftMod \in Nat \ {0}
      /\ shift_clock \in 0..ShiftMod - 1
      /\ BaseRate \in Nat /\ BaseRate + 44 <= ShiftMod
  BY ShiftAssumption, RateAssumption DEF ShifterType
<1>4. shift_clock + cycles \in 0..2 * ShiftMod - 1
  BY <1>1, <1>3
<1> DEFINE sum == shift_clock + cycles
<1> HIDE DEF sum
<1>5. Clock(cycles) = IF sum < ShiftMod THEN sum ELSE sum - ShiftMod
  <2>1. Clock(cycles) = sum % ShiftMod
    BY DEF Clock, sum
  <2> QED
    BY <1>3, <1>4, <2>1, Wraps DEF sum
<1> QED
  BY <1>1, <1>2, <1>3, <1>5 DEF sum

\* One bit more is worth one clock period more.
LEMMA BitWorth ==
    ASSUME NEW bits \in Nat, NEW rate \in Nat
    PROVE  (bits + 1) * rate = bits * rate + rate
OBVIOUS

-----------------------------------------------------------------------------
LEMMA InitIInv == MCInit => IInv
<1> SUFFICES ASSUME MCInit PROVE IInv
  OBVIOUS
<1>1. Init
  BY DEF MCInit, PairInit
<1>2. ShifterType
  <2>1. transferring \in BOOLEAN /\ fast \in BOOLEAN /\ double_speed \in BOOLEAN
    BY <1>1, Zenon DEF Init
  <2> QED
    BY <1>1, <2>1, ShiftAssumption, RateAssumption DEF Init, ShifterType, Mode
<1>3. clock_rate \in Nat /\ 1 <= clock_rate
  BY <1>2, RateRange
<1>4. Worth = 0
  BY <1>1, <1>3 DEF Init, Worth
<1>5. ~Shifting
  BY <1>1 DEF Init, Shifting
<1> QED
  BY <1>1, <1>2, <1>3, <1>4, <1>5 DEF MCInit, Init, IInv, Accounted

\* A tick moves the counters by its cycles or, where the clock wraps, by fewer.
LEMMA TickWorth ==
    ASSUME ShifterType, NEW cycles \in TickCycles, NEW received,
           Tick(cycles, received)
    PROVE  /\ ShifterType'
           /\ clock_rate' = clock_rate
           /\ ~Completes(cycles) => Worth' <= Worth + cycles
           /\ ~Shifting => Worth' = Worth /\ ~Shifting' /\ UNCHANGED shift_clock
           /\ ~Completes(cycles) /\ Shifting /\ shift_clock < clock_rate =>
                 /\ Worth' = Worth + cycles
                 /\ cycles <= clock_rate => shift_clock' < clock_rate
<1> DEFINE new == Clock(cycles)
<1>1. /\ cycles \in 1..44
      /\ new \in 0..ShiftMod - 1
      /\ new <= shift_clock + cycles
      /\ shift_clock < clock_rate => new = shift_clock + cycles
  BY ClockRange
<1>2. clock_rate \in Nat /\ 1 <= clock_rate
  BY RateRange
<1>3. clock_rate' = clock_rate
  BY DEF Tick, clock_rate
<1>4. /\ shift_clock \in 0..ShiftMod - 1
      /\ ShiftMod \in Nat
      /\ shift_counter \in Nat
  BY ShiftAssumption DEF ShifterType
<1> HIDE DEF new
<1>5. CASE ~Shifting
  <2>1. ~Shifts(cycles) /\ ~Completes(cycles)
    BY <1>5 DEF Shifts, Completes
  <2>2. UNCHANGED <<shift_clock, shift_counter, transferring, fast, clock_mode, double_speed>>
    BY <1>5, <2>1 DEF Tick
  <2>3. Worth' = Worth /\ ~Shifting'
    BY <1>3, <1>5, <2>2 DEF Worth, Shifting
  <2> QED
    BY <1>1, <1>3, <1>5, <2>1, <2>2, <2>3, WorthType DEF ShifterType
<1>6. CASE Shifting /\ ~Shifts(cycles)
  <2>1. ~Completes(cycles) /\ new < clock_rate
    BY <1>1, <1>2, <1>6 DEF Shifts, Completes, new
  <2>2. /\ UNCHANGED <<shift_counter, transferring, fast, clock_mode, double_speed>>
        /\ shift_clock' = new
    BY <1>6, <2>1 DEF Tick, new
  <2>3. ShifterType'
    BY <1>1, <2>2 DEF ShifterType
  <2>4. Worth' = shift_counter * clock_rate + new
    BY <1>3, <2>2 DEF Worth
  <2> DEFINE paid == shift_counter * clock_rate
  <2>5. paid \in Nat /\ Worth = paid + shift_clock /\ Worth' = paid + new
    BY <1>2, <1>4, <2>4 DEF Worth
  <2> HIDE DEF paid
  <2> QED
    BY <1>1, <1>2, <1>3, <1>4, <1>6, <2>1, <2>2, <2>3, <2>5
<1>7. CASE Shifts(cycles)
  <2>1. Shifting /\ new >= clock_rate
    BY <1>7 DEF Shifts, new
  <2>2. /\ UNCHANGED <<fast, clock_mode, double_speed>>
        /\ transferring' \in {transferring, FALSE}
        /\ shift_clock' = new - clock_rate
        /\ shift_counter' = IF Completes(cycles) THEN 0 ELSE shift_counter + 1
    BY <1>7 DEF Tick, ClockLeft, new
  <2>3. ShifterType'
    <3>1. transferring' \in BOOLEAN
      BY <2>2, Zenon DEF ShifterType
    <3>2. shift_clock' \in 0..ShiftMod - 1 /\ shift_counter' \in Nat
      BY <1>1, <1>2, <1>4, <2>1, <2>2
    <3> QED
      BY <2>2, <3>1, <3>2 DEF ShifterType
  <2> DEFINE paid == shift_counter * clock_rate
  <2>4. paid \in Nat /\ Worth = paid + shift_clock
    BY <1>2, <1>4 DEF Worth
  <2>5. ~Completes(cycles) => Worth' = paid + new
    <3>1. (shift_counter + 1) * clock_rate = paid + clock_rate
      BY <1>2, <1>4, BitWorth
    <3>2. ~Completes(cycles) => Worth' = (shift_counter + 1) * clock_rate + (new - clock_rate)
      BY <1>3, <2>2 DEF Worth
    <3> HIDE DEF paid
    <3> QED
      BY <1>1, <1>2, <2>4, <3>1, <3>2
  <2> HIDE DEF paid
  <2> QED
    BY <1>1, <1>2, <1>3, <1>4, <2>1, <2>2, <2>3, <2>4, <2>5
<1> QED
  BY <1>5, <1>6, <1>7

\* Where the bits are counted anew, they are accounted for.
LEMMA CaptureAccounts ==
    ASSUME ShifterType', elapsed' = 0, Capture
    PROVE  Accounted'
<1>1. Worth' \in Nat
  BY WorthTypeNext
<1>2. in_time' = (shift_clock' < clock_rate')
  BY DEF Capture
<1>3. in_time' \in BOOLEAN
  <2>1. (shift_clock' < clock_rate') \in BOOLEAN
    OBVIOUS
  <2> QED
    BY <1>2, <2>1
<1>4. in_time' => shift_clock' < clock_rate'
  BY <1>2
<1>5. debt' \in Nat /\ elapsed' \in Nat
  BY <1>1 DEF Capture
<1>6. (debt + elapsed)' = Worth'
  <2>1. debt' = Worth'
    BY DEF Capture
  <2>2. \A w \in Nat : w + 0 = w
    OBVIOUS
  <2> QED
    BY <1>1, <2>1, <2>2, Zenon
<1>7. (debt + elapsed >= Worth)'
  BY <1>1, <1>6
<1> QED
  BY <1>3, <1>4, <1>5, <1>6, <1>7, Zenon DEF Accounted

\* A register write moves the shift counters in no way.
LEMMA ProgramWorth ==
    ASSUME ShifterType, Program
    PROVE  /\ ShifterType'
           /\ UNCHANGED <<control, double_speed>>
                => Worth' = Worth /\ Shifting' = Shifting /\ clock_rate' = clock_rate
           /\ UNCHANGED shift_clock
<1>1. UNCHANGED shifter
  BY DEF Program, on_sb_write, on_sc_write, SwitchSpeed, ClearInterruptFlag
<1>2. /\ transferring' \in BOOLEAN /\ fast' \in BOOLEAN /\ double_speed' \in BOOLEAN
      /\ clock_mode' \in Mode
  <2>1. CASE \E start, quick \in BOOLEAN, mode \in Mode : on_sc_write(start, quick, mode)
    <3>1. PICK start \in BOOLEAN, quick \in BOOLEAN, mode \in Mode : on_sc_write(start, quick, mode)
      BY <2>1
    <3>2. transferring' = start /\ clock_mode' = mode /\ UNCHANGED double_speed
          /\ fast' = (quick \/ ~Cgb)
      BY <3>1 DEF on_sc_write
    <3> QED
      BY <3>2, Zenon DEF ShifterType
  <2>2. CASE SwitchSpeed
    <3>1. double_speed' = ~double_speed /\ UNCHANGED control
      BY <2>2 DEF SwitchSpeed
    <3> QED
      BY <3>1, Zenon DEF ShifterType, control
  <2>3. CASE (\E data \in Bytes : on_sb_write(data)) \/ ClearInterruptFlag
    <3>1. UNCHANGED <<control, double_speed>>
      BY <2>3 DEF on_sb_write, ClearInterruptFlag
    <3> QED
      BY <3>1, Zenon DEF ShifterType, control
  <2> QED
    BY <2>1, <2>2, <2>3 DEF Program
<1> QED
  BY <1>1, <1>2 DEF ShifterType, shifter, control, Worth, Shifting, clock_rate

\* Every step preserves the inductive invariant.
LEMMA NextIInv == IInv /\ [MCNext]_mcvars => IInv'
<1> SUFFICES ASSUME IInv, [MCNext]_mcvars PROVE IInv'
  OBVIOUS
<1>0. ShifterType /\ alone \in BOOLEAN /\ (alone => Accounted)
  BY DEF IInv
<1>1. Worth \in Nat /\ clock_rate \in Nat
  BY <1>0, WorthType, RateRange
<1>2. CASE MCTick
  <2>1. PICK cycles \in TickCycles :
            /\ TickA(cycles)
            /\ elapsed' = IF alone /\ transferring' /\ Shifting THEN elapsed + cycles ELSE 0
            /\ IF alone /\ Completes(cycles) THEN Capture ELSE UNCHANGED <<debt, in_time>>
            /\ alone' = alone
    BY <1>2 DEF MCTick, Setting
  <2>2. Tick(cycles, sb2)
    BY <2>1 DEF TickA
  <2>3. /\ ShifterType'
        /\ clock_rate' = clock_rate
        /\ ~Completes(cycles) => Worth' <= Worth + cycles
        /\ ~Shifting => Worth' = Worth /\ ~Shifting' /\ UNCHANGED shift_clock
        /\ ~Completes(cycles) /\ Shifting /\ shift_clock < clock_rate =>
              /\ Worth' = Worth + cycles
              /\ cycles <= clock_rate => shift_clock' < clock_rate
    BY <1>0, <2>2, TickWorth
  <2>4. cycles \in 1..44
    BY TickAssumption
  <2>5. ASSUME alone, Completes(cycles) PROVE Accounted'
    <3>1. ~transferring'
      BY <2>2, <2>5 DEF Tick
    <3> QED
      BY <2>1, <2>3, <2>5, <3>1, CaptureAccounts
  <2>6. ASSUME alone, ~Completes(cycles), Shifting PROVE Accounted'
    <3>1. /\ transferring' = transferring
          /\ elapsed' = elapsed + cycles
          /\ UNCHANGED <<debt, in_time>>
      BY <2>1, <2>2, <2>6 DEF Tick, Shifting
    <3>2. Worth' \in Nat /\ Shifting'
      <4>1. Worth' \in Nat
        BY <2>3, WorthTypeNext
      <4> QED
        BY <2>2, <2>3, <2>6, <3>1, <4>1 DEF Tick, Shifting
    <3>3. Accounted
      BY <1>0, <2>6
    <3>4. (debt + elapsed)' = debt + elapsed + cycles
      BY <2>4, <3>1, <3>3 DEF Accounted
    <3>5. ShortTicks' => ShortTicks /\ cycles <= clock_rate
      BY <2>3 DEF ShortTicks
    <3> QED
      BY <1>1, <2>3, <2>4, <2>6, <3>1, <3>2, <3>3, <3>4, <3>5 DEF Accounted
  <2>7. ASSUME alone, ~Shifting PROVE Accounted'
    <3>1. ~Completes(cycles)
      BY <2>7 DEF Completes, Shifts
    <3>2. elapsed' = 0 /\ UNCHANGED <<debt, in_time>>
      BY <2>1, <2>7, <3>1
    <3>3. ShortTicks' => ShortTicks
      BY <2>3 DEF ShortTicks
    <3> QED
      BY <1>0, <1>1, <2>3, <2>7, <3>2, <3>3 DEF Accounted
  <2> QED
    BY <1>0, <2>1, <2>3, <2>5, <2>6, <2>7 DEF IInv
<1>3. CASE MCPeer
  <2>1. ~alone /\ alone' = alone
    BY <1>3 DEF MCPeer, Setting
  <2>2. ShifterType'
    <3>1. CASE UNCHANGED vars
      BY <1>0, <3>1 DEF vars, control, shifter, ShifterType
    <3>2. CASE \E cycles \in TickCycles : TickB(cycles)
      <4>1. PICK cycles \in TickCycles : on_transfer_slave(sb2) \/ UNCHANGED vars
        BY <3>2 DEF TickB
      <4> QED
        BY <1>0, <3>1, <4>1 DEF on_transfer_slave, control, shifter, ShifterType
    <3> QED
      BY <1>3, <3>1, <3>2 DEF MCPeer
  <2> QED
    BY <1>0, <2>1, <2>2 DEF IInv
<1>4. CASE MCProgram
  <2>1. Program /\ alone' = alone
    BY <1>4 DEF MCProgram, Setting
  <2>2. /\ ShifterType'
        /\ UNCHANGED <<control, double_speed>>
             => Worth' = Worth /\ Shifting' = Shifting /\ clock_rate' = clock_rate
        /\ UNCHANGED shift_clock
    BY <1>0, <2>1, ProgramWorth
  <2>3. CASE alone /\ (control' # control \/ double_speed' # double_speed)
    <3>1. elapsed' = 0 /\ Capture
      BY <1>4, <2>3 DEF MCProgram
    <3> QED
      BY <1>0, <2>1, <2>2, <3>1, CaptureAccounts DEF IInv
  <2>4. CASE ~(alone /\ (control' # control \/ double_speed' # double_speed))
    <3>1. UNCHANGED <<elapsed, debt, in_time>>
      BY <1>4, <2>4 DEF MCProgram
    <3>2. alone => Accounted'
      BY <1>0, <2>2, <2>4, <3>1 DEF Accounted, ShortTicks
    <3> QED
      BY <1>0, <2>1, <2>2, <3>2 DEF IInv
  <2> QED
    BY <2>3, <2>4
<1>5. CASE UNCHANGED mcvars
  BY <1>0, <1>5 DEF mcvars, vars, control, shifter, IInv, ShifterType, Accounted,
                    ShortTicks, Worth, Shifting, clock_rate
<1> QED
  BY <1>2, <1>3, <1>4, <1>5 DEF MCNext

LEMMA Inductive == MCSpec => []IInv
BY InitIInv, NextIInv, PTL DEF MCSpec

-----------------------------------------------------------------------------
\* A transfer under the internal clock never ends before the cycles of its bits
\* have gone by, and with instructions no longer than a bit not after the
\* instruction in which the last of them does (link.cpp:39-60), however often
\* the program restarts it, switches its clock or the speed of the processor.
THEOREM TransferTime == MCSpec => EndsOnTime
<1> DEFINE OnTime(cycles) ==
        LET total == debt + elapsed + cycles
        IN  /\ total >= TransferBits * clock_rate
            /\ in_time /\ (\A c \in TickCycles : c <= clock_rate)
                 => total < TransferBits * clock_rate + cycles
<1>1. ASSUME IInv, NEW cycles \in TickCycles, alone, Completes(cycles)
      PROVE  OnTime(cycles)
  <2>1. ShifterType /\ Accounted
    BY <1>1 DEF IInv
  <2>2. /\ shift_counter = TransferBits - 1
        /\ Clock(cycles) >= clock_rate
    BY <1>1, <2>1, BitsAssumption DEF Completes, Shifts, ShifterType
  <2>3. /\ cycles \in 1..44
        /\ Clock(cycles) <= shift_clock + cycles
    BY <2>1, ClockRange
  <2>4. clock_rate \in Nat
    BY <2>1, RateRange
  <2>5. TransferBits * clock_rate = shift_counter * clock_rate + clock_rate
    <3>1. shift_counter \in Nat /\ shift_counter + 1 = TransferBits
      BY <2>1, <2>2, BitsAssumption DEF ShifterType
    <3> QED
      BY <2>4, <3>1, BitWorth
  <2> DEFINE paid == shift_counter * clock_rate
             whole == TransferBits * clock_rate
  <2>6. paid \in Nat /\ whole = paid + clock_rate /\ Worth = paid + shift_clock
    BY <2>1, <2>4, <2>5 DEF ShifterType, Worth
  <2>7. shift_clock \in Nat /\ Clock(cycles) \in Int
    BY <2>1, ClockRange, ShiftAssumption DEF ShifterType
  <2> HIDE DEF paid, whole
  <2>8. debt + elapsed + cycles >= whole
    BY <2>1, <2>2, <2>3, <2>4, <2>6, <2>7 DEF Accounted
  <2>9. in_time /\ ShortTicks => debt + elapsed + cycles < whole + cycles
    BY <2>1, <2>2, <2>3, <2>4, <2>6, <2>7 DEF Accounted
  <2> QED
    BY <2>8, <2>9 DEF whole, ShortTicks
<1>2. IInv /\ [MCNext]_mcvars =>
          [\A cycles \in TickCycles :
              alone /\ TickA(cycles) /\ Completes(cycles) => OnTime(cycles)]_mcvars
  BY <1>1
<1> QED
  BY <1>2, Inductive, PTL DEF MCSpec, EndsOnTime

-----------------------------------------------------------------------------
\* What the cable sees of the two machines.
Joined == {"first", "second"}
Held == [m \in Joined |-> IF m = "first" THEN sb ELSE sb2]
Asking == {m \in Joined : IF m = "first" THEN Shifting ELSE B!Shifting}

\* A step of the first machine on the cable.
LEMMA FirstTicks ==
    ASSUME NEW cycles \in TickCycles, TickA(cycles)
    PROVE  Cable!Exchange("first", "second") \/ UNCHANGED <<Held, Asking>>
<1>1. CASE Completes(cycles)
  <2>1. /\ sb' = sb2 /\ sb2' = sb
        /\ Shifting /\ ~Shifting' /\ B!Shifting' = B!Shifting
    BY <1>1 DEF TickA, Tick, Completes, Shifts, Shifting, B!on_transfer_slave,
                B!control, B!Shifting
  <2>2. Held' = [Held EXCEPT !["first"] = Held["second"], !["second"] = Held["first"]]
    BY <2>1 DEF Held, Joined
  <2>3. "first" \in Asking /\ Asking' = Asking \ {"first"}
    BY <2>1 DEF Asking, Joined
  <2> QED
    BY <2>2, <2>3 DEF Cable!Exchange, Held, Asking, Joined
<1>2. CASE ~Completes(cycles)
  <2>1. UNCHANGED <<sb, transferring, clock_mode, second>>
    BY <1>2 DEF TickA, Tick
  <2> QED
    BY <2>1 DEF Held, Asking, Joined, Shifting, B!Shifting, second
<1> QED
  BY <1>1, <1>2

\* A step of the second machine on the cable.
LEMMA SecondTicks ==
    ASSUME NEW cycles \in TickCycles, TickB(cycles)
    PROVE  Cable!Exchange("second", "first") \/ UNCHANGED <<Held, Asking>>
<1>1. CASE B!Completes(cycles)
  <2>1. /\ sb' = sb2 /\ sb2' = sb
        /\ B!Shifting /\ ~B!Shifting' /\ Shifting' = Shifting
    BY <1>1 DEF TickB, B!Tick, B!Completes, B!Shifts, B!Shifting, on_transfer_slave,
                control, Shifting
  <2>2. Held' = [Held EXCEPT !["second"] = Held["first"], !["first"] = Held["second"]]
    BY <2>1 DEF Held, Joined
  <2>3. "second" \in Asking /\ Asking' = Asking \ {"second"}
    BY <2>1 DEF Asking, Joined
  <2> QED
    BY <2>2, <2>3 DEF Cable!Exchange, Held, Asking, Joined
<1>2. CASE ~B!Completes(cycles)
  <2>1. UNCHANGED <<sb2, transferring2, clock_mode2, vars>>
    BY <1>2 DEF TickB, B!Tick
  <2> QED
    BY <2>1 DEF Held, Asking, Joined, Shifting, B!Shifting, vars, control
<1> QED
  BY <1>1, <1>2

\* A program reaches the cable only through its own machine: it writes the
\* byte, asks for a transfer or withdraws what it has asked for.
LEMMA FirstPrograms ==
    ASSUME Program, UNCHANGED second
    PROVE  \/ Cable!Write("first") \/ Cable!Ask("first") \/ Cable!Withdraw("first")
           \/ UNCHANGED <<Held, Asking>>
<1>1. B!Shifting' = B!Shifting /\ sb2' = sb2
  BY DEF second, B!Shifting
<1>2. CASE \E data \in Bytes : on_sb_write(data)
  <2>1. PICK data \in Bytes : sb' = data /\ UNCHANGED control
    BY <1>2 DEF on_sb_write
  <2>2. Held' = [Held EXCEPT !["first"] = data]
    BY <1>1, <2>1 DEF Held, Joined
  <2>3. Asking' = Asking
    BY <1>1, <2>1 DEF Asking, Joined, Shifting, control
  <2> QED
    BY <2>2, <2>3 DEF Cable!Write, Held, Asking, Joined
<1>3. CASE ~\E data \in Bytes : on_sb_write(data)
  <2>1. UNCHANGED sb
    BY <1>3 DEF Program, on_sc_write, SwitchSpeed, ClearInterruptFlag
  <2>2. Held' = Held
    BY <1>1, <2>1 DEF Held, Joined
  <2>3. Asking' = Asking \cup {"first"} \/ Asking' = Asking \ {"first"}
    BY <1>1 DEF Asking, Joined
  <2> QED
    BY <2>2, <2>3 DEF Cable!Ask, Cable!Withdraw, Held, Asking, Joined
<1> QED
  BY <1>2, <1>3

LEMMA SecondPrograms ==
    ASSUME B!Program, UNCHANGED vars
    PROVE  \/ Cable!Write("second") \/ Cable!Ask("second") \/ Cable!Withdraw("second")
           \/ UNCHANGED <<Held, Asking>>
<1>1. Shifting' = Shifting /\ sb' = sb
  BY DEF vars, control, Shifting
<1>2. CASE \E data \in Bytes : B!on_sb_write(data)
  <2>1. PICK data \in Bytes : sb2' = data /\ UNCHANGED B!control
    BY <1>2 DEF B!on_sb_write
  <2>2. Held' = [Held EXCEPT !["second"] = data]
    BY <1>1, <2>1 DEF Held, Joined
  <2>3. Asking' = Asking
    BY <1>1, <2>1 DEF Asking, Joined, B!Shifting, B!control
  <2> QED
    BY <2>2, <2>3 DEF Cable!Write, Held, Asking, Joined
<1>3. CASE ~\E data \in Bytes : B!on_sb_write(data)
  <2>1. UNCHANGED sb2
    BY <1>3 DEF B!Program, B!on_sc_write, B!SwitchSpeed, B!ClearInterruptFlag
  <2>2. Held' = Held
    BY <1>1, <2>1 DEF Held, Joined
  <2>3. Asking' = Asking \cup {"second"} \/ Asking' = Asking \ {"second"}
    BY <1>1 DEF Asking, Joined
  <2> QED
    BY <2>2, <2>3 DEF Cable!Ask, Cable!Withdraw, Held, Asking, Joined
<1> QED
  BY <1>2, <1>3

\* Two joined ports implement the cable (link.cpp:39-67): no byte is lost,
\* duplicated or made up in whatever order the machines tick, and an exchange
\* always answers a transfer that one of them asked for under its own clock.
THEOREM PairImplementsCable == PairSpec => ImplementsCable
<1>1. PairInit => Cable!Init
  <2> SUFFICES ASSUME PairInit PROVE Cable!Init
    OBVIOUS
  <2>1. sb \in Bytes /\ sb2 \in Bytes /\ ~transferring /\ ~transferring2
    BY DEF PairInit, Init, B!Init
  <2> QED
    BY <2>1 DEF Cable!Init, Shifting, B!Shifting
<1>2. ASSUME [PairNext]_<<vars, second>>
      PROVE  [Cable!Next]_<<Held, Asking>>
  <2>1. ASSUME NEW cycles \in TickCycles, TickA(cycles) \/ TickB(cycles)
        PROVE  [Cable!Next]_<<Held, Asking>>
    BY <2>1, FirstTicks, SecondTicks DEF Cable!Next
  <2>2. CASE Program /\ UNCHANGED second
    BY <2>2, FirstPrograms DEF Cable!Next
  <2>3. CASE B!Program /\ UNCHANGED vars
    BY <2>3, SecondPrograms DEF Cable!Next
  <2>4. CASE UNCHANGED <<vars, second>>
    BY <2>4 DEF vars, control, second, Held, Asking, Joined, Shifting, B!Shifting
  <2> QED
    BY <1>2, <2>1, <2>2, <2>3, <2>4 DEF PairNext
<1>3. [PairNext]_<<vars, second>> => [Cable!Next]_<<Held, Asking>>
  BY <1>2
<1> QED
  BY <1>1, <1>3, PTL DEF PairSpec, ImplementsCable, Cable!Spec, Held, Asking, Joined

\* So do the behaviours in the two settings, which are behaviours of the pair.
COROLLARY SettingsImplementCable == MCSpec => ImplementsCable
<1>1. MCInit => PairInit
  BY DEF MCInit
<1>2. [MCNext]_mcvars => [PairNext]_<<vars, second>>
  BY DEF MCNext, MCTick, MCPeer, MCProgram, PairNext, mcvars
<1> QED
  BY <1>1, <1>2, PairImplementsCable, PTL DEF MCSpec, PairSpec
=============================================================================
