------------------------------- MODULE Timer -------------------------------
(***************************************************************************)
(* The divider / timer unit of the emulated Game Boy                       *)
(* (gameboy/src/timer/timer.cpp).                                          *)
(*                                                                         *)
(* The emulated program reaches the unit through the register write        *)
(* delegates while an instruction runs; once the instruction is over       *)
(* gameboy::tick hands the unit all the clock cycles the instruction took  *)
(* in one call.  An instruction therefore is up to MaxBusWrites register   *)
(* writes followed by one Tick.                                            *)
(*                                                                         *)
(* The width of the 16-bit internal clock and of the 8-bit TIMA / TMA      *)
(* registers are parameters.  The TAC byte itself is only ever read back,  *)
(* so it is represented by the two members the code derives from it.       *)
(***************************************************************************)
EXTENDS Integers

CONSTANTS
    ClockMod,      \* 2^width of internal_clock_; a uint16_t in the code
    TimaMod,       \* 2^width of tima_ and tma_; 256 in the code
    TickCycles,    \* the cycle counts one instruction may take
    TacSelects     \* the clock selections (TAC & 3) the program may write

ASSUME ClockAssumption == ClockMod \in Nat \ {0}
ASSUME TimaAssumption  == TimaMod \in Nat \ {0, 1}
\* Instructions take a multiple of four cycles and at least four of them.
ASSUME TickAssumption  == TickCycles \subseteq {4 * n : n \in 1..11}
ASSUME TacAssumption   == TacSelects \subseteq 0..3

VARIABLES
    internal_clock,             \* the free running system counter
    tima_reload_cycles,         \* cycles left before TIMA is reloaded, or 0
    timer_clock_overflow_bit,   \* the bit of internal_clock that clocks TIMA
    tima, tma,
    enabled,
    previous_tima_reload_bit,   \* last sampled value of "enabled and bit"
    interrupt_flags,            \* the CPU's IF register, as a set of sources
    bus_writes                  \* bus writes of the instruction in progress

registers == <<tima, tma, enabled, timer_clock_overflow_bit>>
vars == <<internal_clock, tima_reload_cycles, registers,
          previous_tima_reload_bit, interrupt_flags, bus_writes>>

\* PUSH, CALL and LD (nn),SP are the instructions with the most bus writes.
MaxBusWrites == 2
\* No instruction that writes to memory takes fewer cycles (LD (HL),r).
MinWriteCycles == 8
\* A defect the checks notice: a delay outside the range timer.cpp:64-65 gives.
ReloadDelayTooLong == 10
\* The delay update_internal_clock loads on overflow.
ReloadDelay == 6
\* A TIMA write is ignored from this many remaining cycles on.
WriteLock == 4

\* timer_clock_overflow_index_select
timer_clock_overflow_index_select(select) == <<9, 3, 5, 7>>[select + 1]

\* The weight of the four bits that can clock TIMA.
Weight(bit) == CASE bit = 3 -> 8 [] bit = 5 -> 32 [] bit = 7 -> 128 [] OTHER -> 512

BitTest(value, bit) == (value \div Weight(bit)) % 2 = 1

ReloadBit(clock) == enabled /\ BitTest(clock, timer_clock_overflow_bit)

\* Defects the checks notice: counting both edges, and looking at the enable
\* bit alone.
AnyEdge(clock) == previous_tima_reload_bit # ReloadBit(clock)
EnableEdge(clock) == previous_tima_reload_bit /\ ~enabled
FallingEdge(clock) == previous_tima_reload_bit /\ ~ReloadBit(clock)

TimaAfter(clock) ==
    IF FallingEdge(clock) THEN (tima + 1) % TimaMod ELSE tima

Overflows(clock) == FallingEdge(clock) /\ TimaAfter(clock) = 0

ReloadAfter(clock) ==
    IF Overflows(clock) THEN ReloadDelay ELSE tima_reload_cycles

-----------------------------------------------------------------------------
\* reset(), and the machine reset that clears the IF register
Init ==
    /\ internal_clock = 0
    /\ tima_reload_cycles = 0
    /\ timer_clock_overflow_bit = 9
    /\ tima = 0
    /\ tma = 0
    /\ enabled = FALSE
    /\ previous_tima_reload_bit = FALSE
    /\ interrupt_flags = {}
    /\ bus_writes = 0

\* tick(): update_internal_clock, then the countdown to the reload of TIMA.
\* The countdown includes the tick that overflowed.
Tick(cycles) ==
    LET clock == (internal_clock + cycles) % ClockMod
        left  == ReloadAfter(clock) - cycles
        due   == ReloadAfter(clock) > 0 /\ left <= 0
    IN  /\ bus_writes > 0 => cycles >= MinWriteCycles
        /\ internal_clock' = clock
        /\ previous_tima_reload_bit' = ReloadBit(clock)
        /\ tima_reload_cycles' = IF left > 0 THEN left ELSE 0
        /\ tima' = IF due THEN tma ELSE TimaAfter(clock)
        /\ interrupt_flags' =
               interrupt_flags \cup (IF due THEN {"timer"} ELSE {})
        /\ bus_writes' = 0
        /\ UNCHANGED <<tma, enabled, timer_clock_overflow_bit>>

BusWrite ==
    /\ bus_writes < MaxBusWrites
    /\ bus_writes' = bus_writes + 1

\* on_write(DIV): the clock restarts, which may itself be a falling edge.
WriteDiv ==
    /\ BusWrite
    /\ internal_clock' = 0
    /\ previous_tima_reload_bit' = ReloadBit(0)
    /\ tima' = TimaAfter(0)
    /\ tima_reload_cycles' = ReloadAfter(0)
    /\ UNCHANGED <<tma, enabled, timer_clock_overflow_bit, interrupt_flags>>

\* on_write(TIMA): drops a reload that is under way, unless it is locked.
WriteTima(data) ==
    /\ BusWrite
    /\ IF tima_reload_cycles < WriteLock
       THEN tima_reload_cycles' = 0 /\ tima' = data
       ELSE UNCHANGED <<tima_reload_cycles, tima>>
    /\ UNCHANGED <<internal_clock, tma, enabled, timer_clock_overflow_bit,
                   previous_tima_reload_bit, interrupt_flags>>

WriteTma(data) ==
    /\ BusWrite
    /\ tma' = data
    /\ UNCHANGED <<internal_clock, tima_reload_cycles, tima, enabled,
                   timer_clock_overflow_bit, previous_tima_reload_bit,
                   interrupt_flags>>

\* on_write(TAC): the sampled bit keeps its old value until the next update.
WriteTac(enable, select) ==
    /\ BusWrite
    /\ enabled' = enable
    /\ timer_clock_overflow_bit' = timer_clock_overflow_index_select(select)
    /\ UNCHANGED <<internal_clock, tima_reload_cycles, tima, tma,
                   previous_tima_reload_bit, interrupt_flags>>

\* The CPU dispatches the timer interrupt, or the program clears its flag.
ClearInterruptFlag ==
    /\ "timer" \in interrupt_flags
    /\ interrupt_flags' = interrupt_flags \ {"timer"}
    /\ UNCHANGED <<internal_clock, tima_reload_cycles, registers,
                   previous_tima_reload_bit, bus_writes>>

Tima == 0..TimaMod - 1

Next ==
    \/ \E cycles \in TickCycles : Tick(cycles)
    \/ WriteDiv
    \/ \E data \in Tima : WriteTima(data)
    \/ \E data \in Tima : WriteTma(data)
    \/ \E enable \in BOOLEAN, select \in TacSelects : WriteTac(enable, select)
    \/ ClearInterruptFlag

Spec == Init /\ [][Next]_vars

\* gameboy::tick never stops calling timer::tick while the CPU runs.
FairSpec == Spec /\ WF_vars(\E cycles \in TickCycles : Tick(cycles))

-----------------------------------------------------------------------------
\* Type invariant of the members of class timer.  The reload countdown takes
\* only three values: idle, the 2 cycles a four-cycle instruction leaves, and
\* the full delay between an overflow forced by a DIV write and the next tick.
TypeOK ==
    /\ internal_clock \in 0..ClockMod - 1
    /\ tima_reload_cycles \in {0, 2, ReloadDelay}
    /\ timer_clock_overflow_bit \in {3, 5, 7, 9}
    /\ tima \in Tima
    /\ tma \in Tima
    /\ enabled \in BOOLEAN
    /\ previous_tima_reload_bit \in BOOLEAN
    /\ interrupt_flags \subseteq {"timer"}
    /\ bus_writes \in 0..MaxBusWrites

\* A TIMA write is refused (timer.cpp:99) only within the very instruction
\* whose DIV write forced the overflow: no other instruction can be caught by
\* the lock, whatever the order of ticks and register writes before it.
LockIsInstructionLocal ==
    tima_reload_cycles >= WriteLock => bus_writes > 0

\* The window between the overflow of TIMA and its reload (timer.cpp:45-52)
\* spans at most the next instruction: a tick that finds the window open closes
\* it, and always with the reload and the interrupt.
WindowEndsAtNextTick ==
    [][bus_writes' = 0 /\ internal_clock' # internal_clock
           /\ tima_reload_cycles > 0
         => tima_reload_cycles' = 0 /\ "timer" \in interrupt_flags']_vars

\* The instruction is not longer than half a period of the selected clock.
ShortTick ==
    (internal_clock' - internal_clock) % ClockMod <= Weight(timer_clock_overflow_bit)

\* A running timer goes on interrupting: once the program leaves the timer
\* registers alone with the timer enabled, and its instructions are short enough
\* not to hide the clock from the samples, the timer flag is raised again and
\* again (timer.cpp:43-71 and the frequencies of timer.cpp:75-80).
RunningTimerInterrupts ==
    (<>[]enabled /\ <>[](bus_writes = 0) /\ <>[][ShortTick]_internal_clock)
        => []<>("timer" \in interrupt_flags)
=============================================================================
