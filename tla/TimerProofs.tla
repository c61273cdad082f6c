---------------------------- MODULE TimerProofs ----------------------------
(***************************************************************************)
(* Proofs about Timer, for every width of its registers and every set of   *)
(* instruction lengths: its invariants, and that it implements TimerIdeal. *)
(***************************************************************************)
EXTENDS MCTimer, FiniteSetTheorems, TLAPS

\* The inductive invariant: no instruction boundary sees the full delay, and
\* while a reload is pending TIMA is too far from its maximum to overflow again.
IInv ==
    /\ TypeOK
    /\ tima_reload_cycles = ReloadDelay => bus_writes > 0
    /\ tima_reload_cycles > 0 =>
           tima = 0 \/ (tima = 1 /\ ~previous_tima_reload_bit)

\* A cycle count of TickCycles is a number from 4 to 44.
LEMMA TickRange ==
    ASSUME NEW cycles \in TickCycles
    PROVE  cycles \in 4..44
BY TickAssumption

\* The restarted clock never holds the input of TIMA up.
LEMMA ClearedClock ==
    ASSUME TypeOK
    PROVE  ReloadBit(0) = FALSE
<1>1. Weight(timer_clock_overflow_bit) \in {8, 32, 128, 512}
  BY DEF Weight
<1>2. (0 \div Weight(timer_clock_overflow_bit)) % 2 = 0
  BY <1>1, SMTT(30)
<1> QED
  BY <1>2 DEF ReloadBit, BitTest

\* The value of TIMA after an update of the clock.
LEMMA TimaAfterType ==
    ASSUME TypeOK, NEW clock
    PROVE  /\ TimaAfter(clock) \in Tima
           /\ TimaAfter(clock) \in {tima, tima + 1, 0}
BY TimaAssumption DEF TypeOK, Tima, TimaAfter

\* The countdown an update of the clock leaves.
LEMMA ReloadAfterType ==
    ASSUME TypeOK, NEW clock
    PROVE  ReloadAfter(clock) \in {tima_reload_cycles, ReloadDelay}
BY DEF ReloadAfter

\* While a reload is pending, the next update cannot overflow TIMA.
LEMMA NoSecondOverflow ==
    ASSUME IInv, tima_reload_cycles > 0, NEW clock
    PROVE  ~Overflows(clock)
<1>1. TypeOK /\ (tima = 0 \/ (tima = 1 /\ ~previous_tima_reload_bit))
  BY DEF IInv, TypeOK, ReloadDelay
<1>2. CASE tima = 0
  <2>1. (0 + 1) % TimaMod = 1
    BY TimaAssumption, SMTT(30)
  <2> QED
    BY <1>2, <2>1 DEF Overflows, TimaAfter
<1>3. CASE ~previous_tima_reload_bit
  BY <1>3 DEF Overflows, FallingEdge
<1> QED
  BY <1>1, <1>2, <1>3

LEMMA InitIInv == Init => IInv
<1>1. 0 \in 0..ClockMod - 1
  BY ClockAssumption
<1>2. 0 \in Tima
  BY TimaAssumption DEF Tima
<1> SUFFICES ASSUME Init PROVE IInv
  OBVIOUS
<1>3. TypeOK
  <2>1. enabled \in BOOLEAN /\ previous_tima_reload_bit \in BOOLEAN
    BY Zenon DEF Init
  <2>2. interrupt_flags \subseteq {"timer"}
    BY Zenon DEF Init
  <2> QED
    BY <1>1, <1>2, <2>1, <2>2 DEF Init, TypeOK, ReloadDelay, MaxBusWrites
<1> QED
  BY <1>3 DEF Init, IInv, ReloadDelay

\* A tick never leaves the full delay behind, and it closes an open window.
LEMMA TickWindow ==
    ASSUME IInv, NEW cycles \in TickCycles, Tick(cycles)
    PROVE  /\ tima_reload_cycles' \in {0, 2}
           /\ tima_reload_cycles' = 2 => tima' = 0
           /\ tima_reload_cycles > 0 =>
                  /\ tima_reload_cycles' = 0
                  /\ tima' = tma
                  /\ interrupt_flags' = interrupt_flags \cup {"timer"}
<1> DEFINE clock == (internal_clock + cycles) % ClockMod
           left  == ReloadAfter(clock) - cycles
           due   == ReloadAfter(clock) > 0 /\ left <= 0
<1>1. cycles \in 4..44
  BY TickRange
<1>2. /\ bus_writes > 0 => cycles >= 8
      /\ tima_reload_cycles' = IF left > 0 THEN left ELSE 0
      /\ tima' = IF due THEN tma ELSE TimaAfter(clock)
      /\ interrupt_flags' = interrupt_flags \cup (IF due THEN {"timer"} ELSE {})
  BY DEF Tick, MinWriteCycles
<1>3. /\ tima_reload_cycles \in {0, 2, 6}
      /\ tima_reload_cycles = 6 => bus_writes > 0
      /\ bus_writes \in 0..2
  BY DEF IInv, TypeOK, ReloadDelay, MaxBusWrites
<1>4. CASE Overflows(clock)
  <2>1. tima_reload_cycles = 0
    BY <1>3, <1>4, NoSecondOverflow
  <2>2. ReloadAfter(clock) = 6 /\ TimaAfter(clock) = 0
    BY <1>4 DEF ReloadAfter, ReloadDelay, Overflows
  <2>3. left = 6 - cycles
    BY <2>2
  <2>4. cycles = 4 \/ cycles >= 8
    BY TickAssumption
  <2> HIDE DEF clock, left
  <2>5. tima_reload_cycles' \in {0, 2}
    BY <1>1, <1>2, <2>3, <2>4
  <2>6. tima_reload_cycles' = 2 => tima' = 0
    BY <1>1, <1>2, <2>2, <2>3
  <2> QED
    BY <2>1, <2>5, <2>6
<1>5. CASE ~Overflows(clock)
  <2>1. ReloadAfter(clock) = tima_reload_cycles
    BY <1>5 DEF ReloadAfter
  <2> HIDE DEF clock
  <2>2. left <= 0
    BY <1>1, <1>2, <1>3, <2>1
  <2>3. tima_reload_cycles' = 0
    BY <1>2, <2>2
  <2>4. tima_reload_cycles > 0 => due
    BY <2>1, <2>2
  <2> QED
    BY <1>2, <2>3, <2>4
<1> QED
  BY <1>4, <1>5

\* Every step preserves the inductive invariant.
LEMMA NextIInv == IInv /\ [Next]_vars => IInv'
<1> SUFFICES ASSUME IInv, [Next]_vars PROVE IInv'
  OBVIOUS
<1> USE DEF ReloadDelay, MaxBusWrites
<1>0. TypeOK
  BY DEF IInv
<1>1. ASSUME NEW cycles \in TickCycles, Tick(cycles) PROVE IInv'
  <2> DEFINE clock == (internal_clock + cycles) % ClockMod
  <2>1. cycles \in 4..44
    BY TickRange
  <2>2. clock \in 0..ClockMod - 1
    BY <1>0, <2>1, ClockAssumption DEF TypeOK
  <2>3. TimaAfter(clock) \in Tima
    BY <1>0, TimaAfterType
  <2>4. ReloadBit(clock) \in BOOLEAN
    BY <1>0 DEF ReloadBit, BitTest, TypeOK
  <2>5. /\ tima_reload_cycles' \in {0, 2}
        /\ tima_reload_cycles' = 2 => tima' = 0
    BY <1>1, TickWindow
  <2>6. /\ internal_clock' = clock
        /\ previous_tima_reload_bit' = ReloadBit(clock)
        /\ tima' \in {tma, TimaAfter(clock)}
        /\ interrupt_flags' \subseteq interrupt_flags \cup {"timer"}
        /\ bus_writes' = 0
        /\ UNCHANGED <<tma, enabled, timer_clock_overflow_bit>>
    BY <1>1 DEF Tick
  <2> HIDE DEF clock
  <2>7. TypeOK'
    BY <1>0, <2>2, <2>3, <2>4, <2>5, <2>6 DEF TypeOK
  <2> QED
    BY <2>5, <2>7 DEF IInv
<1>2. CASE WriteDiv
  <2>1. ReloadBit(0) = FALSE
    BY <1>0, ClearedClock
  <2>2. TimaAfter(0) \in Tima /\ TimaAfter(0) \in {tima, tima + 1, 0}
    BY <1>0, TimaAfterType
  <2>3. ReloadAfter(0) \in {tima_reload_cycles, 6}
    BY <1>0, ReloadAfterType
  <2>4. bus_writes' > 0 /\ bus_writes' \in 0..2
    BY <1>0, <1>2 DEF WriteDiv, BusWrite, TypeOK
  <2>5. TypeOK'
    <3>1. 0 \in 0..ClockMod - 1
      BY ClockAssumption
    <3> QED
      BY <1>0, <1>2, <2>1, <2>2, <2>3, <2>4, <3>1 DEF TypeOK, WriteDiv
  <2>6. tima_reload_cycles' > 0 => tima' = 0 \/ tima' = 1
    <3>1. CASE Overflows(0)
      BY <1>2, <3>1 DEF WriteDiv, Overflows
    <3>2. CASE ~Overflows(0)
      <4>1. ReloadAfter(0) = tima_reload_cycles
        BY <3>2 DEF ReloadAfter
      <4>2. tima_reload_cycles > 0 => TimaAfter(0) \in {0, 1}
        BY <2>2 DEF IInv, TimaAfter, FallingEdge
      <4> QED
        BY <1>2, <4>1, <4>2 DEF WriteDiv
    <3> QED
      BY <3>1, <3>2
  <2>7. ~previous_tima_reload_bit'
    BY <1>2, <2>1 DEF WriteDiv
  <2> QED
    BY <2>4, <2>5, <2>6, <2>7 DEF IInv
<1>3. ASSUME NEW data \in Tima, WriteTima(data) PROVE IInv'
  BY <1>3 DEF IInv, TypeOK, WriteTima, BusWrite, WriteLock
<1>4. ASSUME NEW data \in Tima, WriteTma(data) PROVE IInv'
  BY <1>4 DEF IInv, TypeOK, WriteTma, BusWrite
<1>5. ASSUME NEW enable \in BOOLEAN, NEW select \in TacSelects,
             WriteTac(enable, select)
      PROVE  IInv'
  <2>1. timer_clock_overflow_index_select(select) \in {3, 5, 7, 9}
    <3>1. select \in {0, 1, 2, 3}
      BY TacAssumption
    <3> QED
      BY <3>1 DEF timer_clock_overflow_index_select
  <2> QED
    BY <1>5, <2>1 DEF IInv, TypeOK, WriteTac, BusWrite
<1>6. CASE ClearInterruptFlag
  BY <1>6 DEF IInv, TypeOK, ClearInterruptFlag, registers
<1>7. CASE UNCHANGED vars
  BY <1>7 DEF IInv, TypeOK, vars, registers, Tima
<1> QED
  BY <1>1, <1>2, <1>3, <1>4, <1>5, <1>6, <1>7 DEF Next

LEMMA Inductive == Spec => []IInv
BY InitIInv, NextIInv, PTL DEF Spec

\* The members of class timer keep their ranges (timer.cpp), whatever the
\* program writes and however long its instructions are.
THEOREM TypeCorrect == Spec => []TypeOK
<1>1. IInv => TypeOK
  BY DEF IInv
<1> QED
  BY <1>1, Inductive, PTL

\* The lock on TIMA writes (timer.cpp:99) is never seen by an instruction other
\* than the one whose DIV write overflowed TIMA.
THEOREM LockLocal == Spec => []LockIsInstructionLocal
<1>1. IInv => LockIsInstructionLocal
  BY DEF IInv, TypeOK, LockIsInstructionLocal, WriteLock, ReloadDelay
<1> QED
  BY <1>1, Inductive, PTL

\* A pending reload (timer.cpp:45-52) is carried out by the very next tick,
\* together with its interrupt.
THEOREM WindowEnds == Spec => WindowEndsAtNextTick
<1> DEFINE Ends == bus_writes' = 0 /\ internal_clock' # internal_clock
                       /\ tima_reload_cycles > 0
                   => tima_reload_cycles' = 0 /\ "timer" \in interrupt_flags'
<1>1. IInv /\ [Next]_vars => [Ends]_vars
  <2> SUFFICES ASSUME IInv, Next,
                      bus_writes' = 0, internal_clock' # internal_clock,
                      tima_reload_cycles > 0
               PROVE  tima_reload_cycles' = 0 /\ "timer" \in interrupt_flags'
    OBVIOUS
  <2>1. \A cycles \in TickCycles : Tick(cycles) =>
            tima_reload_cycles' = 0 /\ "timer" \in interrupt_flags'
    BY TickWindow
  <2>2. ~BusWrite
    BY DEF BusWrite, IInv, TypeOK
  <2> QED
    BY <2>1, <2>2
       DEF Next, WriteDiv, WriteTima, WriteTma, WriteTac, ClearInterruptFlag
<1> QED
  BY <1>1, Inductive, PTL DEF Spec, WindowEndsAtNextTick

-----------------------------------------------------------------------------
(* The refinement: the edges the ideal timer sees in every single cycle and *)
(* the one the code may see at the end of a tick.                           *)

\* Half the periods of the four clocks.
Halves == {8, 32, 128, 512}

\* The clock input at a counter value, given half the period of the clock.
High(value, half) == value % (2 * half) >= half

\* An enabled timer runs on a clock the program has selected.
Tuned ==
    enabled => \E select \in TacSelects :
                   timer_clock_overflow_bit = timer_clock_overflow_index_select(select)

LEMMA PowerIsWeight ==
    ASSUME NEW bit \in {3, 5, 7, 9}
    PROVE  2^bit = Weight(bit) /\ Weight(bit) \in Halves
<1>1. 2^3 = 8 /\ 2^5 = 32 /\ 2^7 = 128 /\ 2^9 = 512
  OBVIOUS
<1>2. CASE bit = 3
  BY <1>1, <1>2 DEF Weight, Halves
<1>3. CASE bit = 5
  BY <1>1, <1>3 DEF Weight, Halves
<1>4. CASE bit = 7
  BY <1>1, <1>4 DEF Weight, Halves
<1>5. CASE bit = 9
  BY <1>1, <1>5 DEF Weight, Halves
<1> QED
  BY <1>2, <1>3, <1>4, <1>5

\* A bit of a number is set in the second half of its period.
LEMMA BitIsHigh ==
    ASSUME NEW value \in Nat, NEW half \in Halves
    PROVE  (value \div half) % 2 = 1 <=> High(value, half)
<1>1. (value \div 8) % 2 = 1 <=> value % 16 >= 8
  OBVIOUS
<1>2. (value \div 32) % 2 = 1 <=> value % 64 >= 32
  OBVIOUS
<1>3. (value \div 128) % 2 = 1 <=> value % 256 >= 128
  OBVIOUS
<1>4. (value \div 512) % 2 = 1 <=> value % 1024 >= 512
  OBVIOUS
<1> QED
  BY <1>1, <1>2, <1>3, <1>4 DEF Halves, High

\* Whole periods do not change the input.
LEMMA HighPeriodic ==
    ASSUME NEW value \in Nat, NEW periods \in Nat, NEW half \in Halves
    PROVE  High(periods * (2 * half) + value, half) <=> High(value, half)
<1>1. /\ (periods * 16 + value) % 16 = value % 16
      /\ (periods * 64 + value) % 64 = value % 64
      /\ (periods * 256 + value) % 256 = value % 256
      /\ (periods * 1024 + value) % 1024 = value % 1024
  OBVIOUS
<1> QED
  BY <1>1 DEF Halves, High

\* Between a cycle in which the input is high and one in which it is low there
\* is one in which it falls.
LEMMA FallsBetween ==
    ASSUME NEW first \in Nat, NEW n \in Nat, NEW half \in Halves,
           High(first, half), ~High(first + n, half)
    PROVE  \E t \in 1..n : High(first + t - 1, half) /\ ~High(first + t, half)
<1> DEFINE t == 2 * half - (first % (2 * half))
<1>1. first % 16 >= 8 /\ ~((first + n) % 16 >= 8) =>
         LET u == 16 - (first % 16)
         IN  u \in 1..n /\ (first + u - 1) % 16 >= 8 /\ ~((first + u) % 16 >= 8)
  OBVIOUS
<1>2. first % 64 >= 32 /\ ~((first + n) % 64 >= 32) =>
         LET u == 64 - (first % 64)
         IN  u \in 1..n /\ (first + u - 1) % 64 >= 32 /\ ~((first + u) % 64 >= 32)
  OBVIOUS
<1>3. first % 256 >= 128 /\ ~((first + n) % 256 >= 128) =>
         LET u == 256 - (first % 256)
         IN  u \in 1..n /\ (first + u - 1) % 256 >= 128 /\ ~((first + u) % 256 >= 128)
  OBVIOUS
<1>4. first % 1024 >= 512 /\ ~((first + n) % 1024 >= 512) =>
         LET u == 1024 - (first % 1024)
         IN  u \in 1..n /\ (first + u - 1) % 1024 >= 512 /\ ~((first + u) % 1024 >= 512)
  OBVIOUS
<1>5. t \in 1..n /\ High(first + t - 1, half) /\ ~High(first + t, half)
  BY <1>1, <1>2, <1>3, <1>4 DEF Halves, High
<1> QED
  BY <1>5

\* In half a period the input falls at most once, and if it does it is high
\* before and low after.
LEMMA FallsOnce ==
    ASSUME NEW first \in Nat, NEW half \in Halves, NEW n \in 1..half,
           NEW t \in 1..n, High(first + t - 1, half), ~High(first + t, half)
    PROVE  /\ High(first, half) /\ ~High(first + n, half)
           /\ \A u \in 1..n : High(first + u - 1, half) /\ ~High(first + u, half) => u = t
<1>1. \A u \in 1..n :
        /\ half = 8 => (((first + u - 1) % 16 >= 8 /\ ~((first + u) % 16 >= 8))
                         <=> (first + u) % 16 = 0)
        /\ half = 32 => (((first + u - 1) % 64 >= 32 /\ ~((first + u) % 64 >= 32))
                         <=> (first + u) % 64 = 0)
        /\ half = 128 => (((first + u - 1) % 256 >= 128 /\ ~((first + u) % 256 >= 128))
                         <=> (first + u) % 256 = 0)
        /\ half = 512 => (((first + u - 1) % 1024 >= 512 /\ ~((first + u) % 1024 >= 512))
                         <=> (first + u) % 1024 = 0)
  BY DEF Halves
<1>2. \A u \in 1..n : High(first + u - 1, half) /\ ~High(first + u, half)
                        <=> (first + u) % (2 * half) = 0
  BY <1>1 DEF Halves, High
<1>3. (first + t) % (2 * half) = 0
  BY <1>2
<1>4. /\ half = 8 /\ (first + t) % 16 = 0 =>
            /\ first % 16 >= 8 /\ ~((first + n) % 16 >= 8)
            /\ \A u \in 1..n : (first + u) % 16 = 0 => u = t
      /\ half = 32 /\ (first + t) % 64 = 0 =>
            /\ first % 64 >= 32 /\ ~((first + n) % 64 >= 32)
            /\ \A u \in 1..n : (first + u) % 64 = 0 => u = t
      /\ half = 128 /\ (first + t) % 256 = 0 =>
            /\ first % 256 >= 128 /\ ~((first + n) % 256 >= 128)
            /\ \A u \in 1..n : (first + u) % 256 = 0 => u = t
      /\ half = 512 /\ (first + t) % 1024 = 0 =>
            /\ first % 1024 >= 512 /\ ~((first + n) % 1024 >= 512)
            /\ \A u \in 1..n : (first + u) % 1024 = 0 => u = t
  BY DEF Halves
<1>5. /\ first % (2 * half) >= half /\ ~((first + n) % (2 * half) >= half)
      /\ \A u \in 1..n : (first + u) % (2 * half) = 0 => u = t
  BY <1>3, <1>4 DEF Halves
<1> QED
  BY <1>2, <1>5 DEF High

\* Half the period of the clock in use.
Half == Weight(timer_clock_overflow_bit)

LEMMA TunedInductive == Spec => []Tuned
<1>1. Init => Tuned
  BY DEF Init, Tuned
<1>2. Tuned /\ [Next]_vars => Tuned'
  BY DEF Tuned, Next, Tick, WriteDiv, WriteTima, WriteTma, WriteTac,
         ClearInterruptFlag, vars, registers
<1> QED
  BY <1>1, <1>2, PTL DEF Spec

\* The ideal timer and the code look at the same bit, before the counter wraps
\* and after.
LEMMA LevelIsHigh ==
    ASSUME TypeOK, NEW value \in Nat
    PROVE  /\ Half \in Halves
           /\ Ideal!Level(value) <=> enabled /\ High(value, Half)
           /\ ReloadBit(value) <=> enabled /\ High(value, Half)
<1>1. timer_clock_overflow_bit \in {3, 5, 7, 9}
  BY DEF TypeOK
<1>2. 2^timer_clock_overflow_bit = Half /\ Half \in Halves
  BY <1>1, PowerIsWeight DEF Half
<1>3. (value \div Half) % 2 = 1 <=> High(value, Half)
  BY <1>2, BitIsHigh
<1> QED
  BY <1>2, <1>3 DEF Ideal!Level, ReloadBit, BitTest, Half

LEMMA LevelWraps ==
    ASSUME TypeOK, Tuned, NEW value \in Nat
    PROVE  ReloadBit(value % ClockMod) <=> Ideal!Level(value)
<1> DEFINE low == value % ClockMod
           turns == value \div ClockMod
<1>1. low \in Nat /\ turns \in Nat /\ value = ClockMod * turns + low
  BY ClockAssumption
<1>2. Half \in Halves
  BY LevelIsHigh
<1>3. CASE enabled
  <2>1. ClockMod % (2 * Half) = 0
    BY <1>3, WrapAssumption DEF Tuned, Half
  <2> DEFINE periods == ClockMod \div (2 * Half)
  <2>2. periods \in Nat /\ ClockMod = periods * (2 * Half)
    BY <1>2, <2>1, ClockAssumption DEF Halves
  <2>3. turns * periods \in Nat /\ ClockMod * turns = (turns * periods) * (2 * Half)
    <3>1. 2 * Half \in Nat
      BY <1>2 DEF Halves
    <3> HIDE DEF turns, periods
    <3> QED
      BY <1>1, <2>2, <3>1
  <2>4. High(value, Half) <=> High(low, Half)
    <3> DEFINE many == turns * periods
    <3>1. value = many * (2 * Half) + low /\ many \in Nat
      BY <1>1, <2>3
    <3> HIDE DEF many, low
    <3> QED
      BY <1>1, <1>2, <3>1, HighPeriodic
  <2> QED
    BY <1>1, <2>4, LevelIsHigh
<1>4. CASE ~enabled
  BY <1>1, <1>4, LevelIsHigh
<1> QED
  BY <1>3, <1>4

\* The edge a tick may count is one the ideal timer sees, and in half a period
\* of a clock whose input was sampled as it is, it is the only one.
LEMMA EdgesOfTick ==
    ASSUME TypeOK, Tuned, NEW n \in TickCycles
    PROVE  LET counted == IF FallingEdge((internal_clock + n) % ClockMod) THEN 1 ELSE 0
           IN  /\ counted \in 0..Cardinality(Ideal!Edges(n))
               /\ n <= 2^timer_clock_overflow_bit /\ Ideal!Settled
                    => counted = Cardinality(Ideal!Edges(n))
<1> DEFINE falls == FallingEdge((internal_clock + n) % ClockMod)
           edges == Ideal!Edges(n)
<1>1. n \in 4..44 /\ internal_clock \in Nat /\ internal_clock + n \in Nat
  BY TickRange, ClockAssumption DEF TypeOK
<1>2. IsFiniteSet(edges) /\ Cardinality(edges) \in Nat
  <2>1. IsFiniteSet(1..n)
    BY <1>1, FS_Interval
  <2>2. edges \subseteq 1..n
    BY DEF Ideal!Edges
  <2> QED
    BY <2>1, <2>2, FS_Subset, FS_CardinalityType
<1>3. falls <=> previous_tima_reload_bit /\ ~Ideal!Level(internal_clock + n)
  BY <1>1, LevelWraps DEF FallingEdge
<1>4. falls => edges # {}
  <2> SUFFICES ASSUME falls PROVE edges # {}
    OBVIOUS
  <2>1. previous_tima_reload_bit /\ ~Ideal!Level(internal_clock + n)
    BY <1>3
  <2>2. CASE ~Ideal!Level(internal_clock + 1)
    <3>1. Ideal!Watched(0) /\ ~Ideal!Watched(1)
      BY <2>1, <2>2 DEF Ideal!Watched
    <3>2. 1 \in 1..n /\ 1 - 1 = 0
      BY <1>1
    <3> QED
      BY <3>1, <3>2 DEF Ideal!Edges
  <2>3. CASE Ideal!Level(internal_clock + 1)
    <3> DEFINE first == internal_clock + 1
    <3>1. first \in Nat /\ n - 1 \in Nat /\ first + (n - 1) = internal_clock + n
      BY <1>1
    <3>2. Half \in Halves /\ enabled /\ High(first, Half) /\ ~High(first + (n - 1), Half)
      BY <1>1, <2>1, <2>3, <3>1, LevelIsHigh
    <3>3. PICK t \in 1..n - 1 : High(first + t - 1, Half) /\ ~High(first + t, Half)
      BY <3>1, <3>2, FallsBetween
    <3>4. /\ internal_clock + t = first + t - 1 /\ internal_clock + (t + 1) = first + t
          /\ internal_clock + t \in Nat /\ internal_clock + (t + 1) \in Nat
          /\ t + 1 \in 1..n /\ (t + 1) - 1 = t /\ t # 0 /\ t + 1 # 0
      BY <1>1
    <3>5. Ideal!Level(internal_clock + t) /\ ~Ideal!Level(internal_clock + (t + 1))
      BY <3>2, <3>3, <3>4, LevelIsHigh
    <3>6. Ideal!Watched(t) /\ ~Ideal!Watched(t + 1)
      BY <3>4, <3>5 DEF Ideal!Watched
    <3> QED
      BY <3>4, <3>6 DEF Ideal!Edges
  <2> QED
    BY <2>2, <2>3
<1>5. ASSUME n <= 2^timer_clock_overflow_bit, Ideal!Settled
      PROVE  IF falls THEN Cardinality(edges) = 1 ELSE edges = {}
  <2>1. Half \in Halves /\ n \in 1..Half
    <3>1. 2^timer_clock_overflow_bit = Half /\ Half \in Halves
      BY PowerIsWeight DEF Half, TypeOK
    <3>2. n <= Half /\ Half \in Nat
      BY <1>5, <3>1 DEF Halves
    <3> QED
      BY <1>1, <3>1, <3>2
  <2>2. \A t \in 0..n : Ideal!Watched(t) <=> enabled /\ High(internal_clock + t, Half)
    <3> TAKE t \in 0..n
    <3>1. internal_clock + t \in Nat
      BY <1>1
    <3>2. Ideal!Watched(t) <=> Ideal!Level(internal_clock + t)
      BY <1>1, <1>5 DEF Ideal!Watched, Ideal!Settled
    <3> QED
      BY <3>1, <3>2, LevelIsHigh
  <2>3. \A t \in edges : /\ t \in 1..n /\ enabled
                         /\ High(internal_clock + t - 1, Half)
                         /\ ~High(internal_clock + t, Half)
    <3> TAKE t \in edges
    <3>1. t \in 1..n /\ Ideal!Watched(t - 1) /\ ~Ideal!Watched(t)
      BY DEF Ideal!Edges
    <3>2. t - 1 \in 0..n /\ t \in 0..n /\ internal_clock + (t - 1) = internal_clock + t - 1
      BY <1>1, <3>1
    <3> QED
      BY <2>2, <3>1, <3>2
  <2>4. \A t, u \in edges : t = u
    BY <1>1, <2>1, <2>3, FallsOnce
  <2>5. edges # {} => falls
    <3> SUFFICES ASSUME NEW t \in edges PROVE falls
      OBVIOUS
    <3>1. enabled /\ High(internal_clock, Half) /\ ~High(internal_clock + n, Half)
      BY <1>1, <2>1, <2>3, FallsOnce
    <3>2. previous_tima_reload_bit /\ ~Ideal!Level(internal_clock + n)
      BY <1>1, <1>5, <3>1, LevelIsHigh DEF Ideal!Settled
    <3> QED
      BY <1>3, <3>2
  <2>6. CASE falls
    <3>1. PICK t : t \in edges
      BY <1>4, <2>6
    <3>2. edges = {t}
      BY <2>4, <3>1
    <3> QED
      BY <2>6, <3>2, FS_Singleton
  <2> QED
    BY <2>5, <2>6
<1>6. edges # {} => Cardinality(edges) # 0
  BY <1>2, FS_EmptySet
<1>7. Cardinality({}) = 0
  BY FS_EmptySet
<1> HIDE DEF falls, edges
<1>8. /\ (IF falls THEN 1 ELSE 0) \in 0..Cardinality(edges)
      /\ n <= 2^timer_clock_overflow_bit /\ Ideal!Settled
            => (IF falls THEN 1 ELSE 0) = Cardinality(edges)
  BY <1>2, <1>4, <1>5, <1>6, <1>7
<1> QED
  BY <1>8 DEF falls, edges

\* The ideal timer counts with the operator of the same library module.
LEMMA SameCardinality == \A S : Ideal!Cardinality(S) = Cardinality(S)
BY DEF Ideal!Cardinality, Cardinality

LEMMA SameTruth ==
    ASSUME NEW a \in BOOLEAN, NEW b \in BOOLEAN, a <=> b
    PROVE  a = b
OBVIOUS

\* A tick is a step of the ideal timer: it counts what it may count, and reloads
\* TIMA in the step of the overflow or in the next one.
LEMMA TickElapses ==
    ASSUME IInv, Tuned, NEW cycles \in TickCycles, Tick(cycles)
    PROVE  Ideal!Elapse(cycles)
<1> DEFINE clock == (internal_clock + cycles) % ClockMod
           counted == IF FallingEdge(clock) THEN 1 ELSE 0
           left == ReloadAfter(clock) - cycles
           due == ReloadAfter(clock) > 0 /\ left <= 0
<1>0. /\ TypeOK
      /\ cycles \in 4..44
      /\ internal_clock + cycles \in Nat
  BY TickRange, ClockAssumption DEF IInv, TypeOK
<1>1. /\ counted \in 0..Cardinality(Ideal!Edges(cycles))
      /\ cycles <= 2^timer_clock_overflow_bit /\ Ideal!Settled
            => counted = Cardinality(Ideal!Edges(cycles))
  BY <1>0, EdgesOfTick
<1>2. /\ internal_clock' = clock
      /\ previous_tima_reload_bit' = ReloadBit(clock)
      /\ tima_reload_cycles' = IF left > 0 THEN left ELSE 0
      /\ tima' = IF due THEN tma ELSE TimaAfter(clock)
      /\ interrupt_flags' = interrupt_flags \cup (IF due THEN {"timer"} ELSE {})
      /\ UNCHANGED <<tma, enabled, timer_clock_overflow_bit>>
  BY DEF Tick
<1>3. previous_tima_reload_bit' = Ideal!Level(internal_clock + cycles)
  <2>1. ReloadBit(clock) <=> Ideal!Level(internal_clock + cycles)
    BY <1>0, LevelWraps
  <2>2. ReloadBit(clock) \in BOOLEAN /\ Ideal!Level(internal_clock + cycles) \in BOOLEAN
    BY <1>0 DEF ReloadBit, Ideal!Level, BitTest, TypeOK
  <2> QED
    BY <1>2, <2>1, <2>2, SameTruth
<1>4. /\ tima \in 0..TimaMod - 1 /\ TimaMod \in Nat \ {0, 1}
      /\ tima_reload_cycles \in {0, 2, 6}
  BY <1>0, TimaAssumption DEF TypeOK, Tima, ReloadDelay
<1>5. /\ TimaAfter(clock) = (tima + counted) % TimaMod
      /\ Overflows(clock) <=> tima + counted >= TimaMod
      /\ tima + counted < TimaMod => TimaAfter(clock) = tima + counted
  <2>1. tima % TimaMod = tima
    BY <1>4
  <2>2. IF tima + 1 < TimaMod THEN (tima + 1) % TimaMod = tima + 1
        ELSE (tima + 1) % TimaMod = 0 /\ tima + 1 >= TimaMod
    BY <1>4
  <2> HIDE DEF clock
  <2> QED
    BY <1>4, <2>1, <2>2 DEF TimaAfter, Overflows
<1> DEFINE Effect ==
        \/ tima_reload_cycles > 0 /\ Ideal!Reload
        \/ ~(tima_reload_cycles > 0) /\ tima + counted >= TimaMod /\ Ideal!Reload
        \/ /\ ~(tima_reload_cycles > 0) /\ tima + counted >= TimaMod
           /\ tima' = (tima + counted) % TimaMod
           /\ (tima_reload_cycles > 0)' = TRUE
           /\ UNCHANGED interrupt_flags
        \/ /\ ~(tima_reload_cycles > 0) /\ tima + counted < TimaMod
           /\ tima' = tima + counted
           /\ UNCHANGED <<tima_reload_cycles > 0, interrupt_flags>>
<1>6. Effect
  <2>1. CASE tima_reload_cycles > 0
    BY <2>1, TickWindow DEF Ideal!Reload
  <2>2. CASE tima_reload_cycles = 0 /\ Overflows(clock)
    <3>1. ReloadAfter(clock) = 6
      BY <2>2 DEF ReloadAfter, ReloadDelay
    <3>2. CASE due
      <4>1. ~(left > 0)
        BY <1>0, <3>1, <3>2
      <4>2. tima_reload_cycles' = 0 /\ tima' = tma
            /\ interrupt_flags' = interrupt_flags \cup {"timer"}
        BY <1>2, <3>2, <4>1
      <4>3. Ideal!Reload
        BY <4>2 DEF Ideal!Reload
      <4> QED
        BY <1>5, <2>2, <4>3
    <3>3. CASE ~due
      <4>1. left > 0
        BY <1>0, <3>1, <3>3
      <4>2. tima_reload_cycles' > 0 /\ tima' = TimaAfter(clock)
            /\ interrupt_flags' = interrupt_flags
        BY <1>2, <3>3, <4>1
      <4> QED
        BY <1>5, <2>2, <4>2
    <3> QED
      BY <3>2, <3>3
  <2>3. CASE tima_reload_cycles = 0 /\ ~Overflows(clock)
    <3>1. ReloadAfter(clock) = 0
      BY <2>3 DEF ReloadAfter
    <3>2. ~due /\ ~(left > 0)
      BY <1>0, <3>1
    <3>3. tima_reload_cycles' = 0 /\ tima' = TimaAfter(clock)
          /\ interrupt_flags' = interrupt_flags
      BY <1>2, <3>2
    <3>4. tima + counted < TimaMod
      BY <1>4, <1>5, <2>3
    <3> QED
      BY <1>5, <2>3, <3>3, <3>4
  <2>4. tima_reload_cycles > 0 \/ tima_reload_cycles = 0
    BY <1>4
  <2> HIDE DEF Effect
  <2> QED
    BY <2>1, <2>2, <2>3, <2>4
<1>7. /\ counted \in 0..Ideal!Cardinality(Ideal!Edges(cycles))
      /\ cycles <= 2^timer_clock_overflow_bit /\ Ideal!Settled
            => counted = Ideal!Cardinality(Ideal!Edges(cycles))
  BY <1>1, SameCardinality
<1>8. /\ internal_clock' = (internal_clock + cycles) % ClockMod
      /\ UNCHANGED <<tma, enabled, timer_clock_overflow_bit>>
  BY <1>2
<1> HIDE DEF counted
<1> QED
  BY <1>3, <1>6, <1>7, <1>8 DEF Ideal!Elapse

LEMMA DivRestarts == ASSUME IInv, WriteDiv PROVE Ideal!RestartClock
<1> DEFINE fell == IF previous_tima_reload_bit /\ ~Ideal!Level(0) THEN 1 ELSE 0
<1>0. TypeOK
  BY DEF IInv
<1>1. ReloadBit(0) = FALSE
  BY <1>0, ClearedClock
<1>2. Ideal!Level(0) = FALSE
  <2>1. Ideal!Level(0) \in BOOLEAN
    BY <1>0 DEF Ideal!Level, TypeOK
  <2>2. 0 \in Nat
    OBVIOUS
  <2>3. ~Ideal!Level(0)
    BY <1>0, <1>1, <2>2, LevelIsHigh
  <2> QED
    BY <2>1, <2>3, Zenon
<1>3. tima \in 0..TimaMod - 1 /\ TimaMod \in Nat \ {0, 1}
      /\ tima_reload_cycles \in {0, 2, 6}
  BY <1>0, TimaAssumption DEF TypeOK, Tima, ReloadDelay
<1>4. /\ TimaAfter(0) = (tima + fell) % TimaMod
      /\ Overflows(0) <=> tima + fell = TimaMod
  <2>1. tima % TimaMod = tima
    BY <1>3
  <2>2. IF tima + 1 < TimaMod THEN (tima + 1) % TimaMod = tima + 1
        ELSE (tima + 1) % TimaMod = 0 /\ tima + 1 = TimaMod
    BY <1>3
  <2> QED
    BY <1>1, <1>2, <1>3, <2>1, <2>2 DEF TimaAfter, Overflows, FallingEdge
<1>5. (ReloadAfter(0) > 0) = (tima_reload_cycles > 0 \/ tima + fell = TimaMod)
  BY <1>3, <1>4 DEF ReloadAfter, ReloadDelay
<1> QED
  BY <1>1, <1>2, <1>4, <1>5 DEF WriteDiv, Ideal!RestartClock

\* The code implements the ideal timer (timer.cpp:43-112), for every clock that
\* divides the period of the counter and every set of instruction lengths.
THEOREM TimerImplementsIdeal == Spec => ImplementsIdeal
<1>1. Init => Ideal!Init
  BY DEF Init, Ideal!Init
<1>2. ASSUME IInv, Tuned, [Next]_vars PROVE [Ideal!Next]_Ideal!vars
  <2>0. TypeOK
    BY <1>2 DEF IInv
  <2>1. ASSUME NEW cycles \in TickCycles, Tick(cycles) PROVE Ideal!Next
    BY <1>2, <2>1, TickElapses DEF Ideal!Next
  <2>2. CASE WriteDiv
    BY <1>2, <2>2, DivRestarts DEF Ideal!Next
  <2>3. ASSUME NEW data \in Tima, WriteTima(data) PROVE Ideal!Next
    BY <2>0, <2>3 DEF WriteTima, WriteLock, ReloadDelay, TypeOK, Tima,
                      Ideal!SetTima, Ideal!Next
  <2>4. ASSUME NEW data \in Tima, WriteTma(data) PROVE Ideal!Next
    BY <2>4 DEF WriteTma, Tima, Ideal!SetTma, Ideal!Next
  <2>5. ASSUME NEW enable \in BOOLEAN, NEW select \in TacSelects,
               WriteTac(enable, select)
        PROVE  Ideal!Next
    BY <2>5 DEF WriteTac, timer_clock_overflow_index_select, Ideal!SetControl, Ideal!Next
  <2>6. CASE ClearInterruptFlag
    BY <2>0, <2>6 DEF ClearInterruptFlag, registers, TypeOK, Ideal!Serve, Ideal!Next
  <2>7. CASE UNCHANGED vars
    BY <2>7 DEF vars, registers, Ideal!vars
  <2> QED
    BY <1>2, <2>1, <2>2, <2>3, <2>4, <2>5, <2>6, <2>7 DEF Next
<1>3. IInv /\ Tuned /\ [Next]_vars => [Ideal!Next]_Ideal!vars
  BY <1>2
<1> QED
  BY <1>1, <1>3, Inductive, TunedInductive, PTL DEF Spec, ImplementsIdeal, Ideal!Spec
=============================================================================
