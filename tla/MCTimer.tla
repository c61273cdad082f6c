------------------------------ MODULE MCTimer -------------------------------
(* Instances of Timer for TLC, and its refinement of TimerIdeal. *)
EXTENDS Timer

\* The clocks the program selects divide the period of the counter, as all of
\* them do in the code: no edge comes or goes where the counter wraps.
ASSUME WrapAssumption ==
    \A select \in TacSelects :
        ClockMod % (2 * Weight(timer_clock_overflow_index_select(select))) = 0

\* The cycle counts of the instruction set, and those of the first
\* instruction after an interrupt dispatch, which pays 20 cycles more.
AllCycles == {4, 8, 12, 16, 20, 24, 28, 32, 36, 40, 44}

Ideal == INSTANCE TimerIdeal WITH
    clock      <- internal_clock,
    bit        <- timer_clock_overflow_bit,
    signal     <- previous_tima_reload_bit,
    overflowed <- tima_reload_cycles > 0,
    flags      <- interrupt_flags

\* Timer implements TimerIdeal: it counts every period of the selected clock
\* exactly once, or at most once when an instruction is longer than half of it,
\* and turns every overflow into exactly one reload and one interrupt
\* (timer.cpp:43-112).
ImplementsIdeal == Ideal!Spec
=============================================================================
