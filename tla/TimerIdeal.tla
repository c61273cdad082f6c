----------------------------- MODULE TimerIdeal -----------------------------
(***************************************************************************)
(* What the timer promises: TIMA counts the periods of the selected clock  *)
(* one cycle at a time, and every overflow is followed by one reload from  *)
(* TMA and one interrupt, unless the program writes TIMA in between.       *)
(*                                                                         *)
(* Nothing here knows about sampling, countdowns or write locks: the       *)
(* selected bit is watched in every single cycle of a step.  Timer is      *)
(* shown to implement this module.  A step longer than half a period of    *)
(* the selected clock may miss edges, and so may the step right after a    *)
(* change of the control register, but no step counts an edge that did not *)
(* happen.                                                                 *)
(***************************************************************************)
EXTENDS Integers, FiniteSets

CONSTANTS ClockMod, TimaMod, TickCycles, TacSelects

VARIABLES
    clock,        \* the system counter
    bit,          \* the bit of the counter that clocks TIMA
    enabled,
    signal,       \* the value the clock input of TIMA had when last watched
    tima, tma,
    overflowed,   \* TIMA overflowed and has not been reloaded yet
    flags         \* raised interrupts

vars == <<clock, bit, enabled, signal, tima, tma, overflowed, flags>>

Level(value) == enabled /\ (value \div 2^bit) % 2 = 1

\* The clock input of TIMA after the t-th cycle of a step.
Watched(t) == IF t = 0 THEN signal ELSE Level(clock + t)

\* The control register has not been changed since the input was last watched.
Settled == signal = Level(clock)

\* The cycles, among the next n, in which the clock input of TIMA falls.
Edges(n) == {t \in 1..n : Watched(t - 1) /\ ~Watched(t)}

Init ==
    /\ clock = 0
    /\ bit = 9
    /\ enabled = FALSE
    /\ signal = FALSE
    /\ tima = 0
    /\ tma = 0
    /\ overflowed = FALSE
    /\ flags = {}

Reload ==
    /\ tima' = tma
    /\ overflowed' = FALSE
    /\ flags' = flags \cup {"timer"}

\* n cycles go by.  An overflow is served within the step or in the next one.
Elapse(n) ==
    \E counted \in 0..Cardinality(Edges(n)) :
        /\ n <= 2^bit /\ Settled => counted = Cardinality(Edges(n))
        /\ clock' = (clock + n) % ClockMod
        /\ signal' = Level(clock + n)
        /\ \/ overflowed /\ Reload
           \/ ~overflowed /\ tima + counted >= TimaMod /\ Reload
           \/ /\ ~overflowed /\ tima + counted >= TimaMod
              /\ tima' = (tima + counted) % TimaMod
              /\ overflowed' = TRUE
              /\ UNCHANGED flags
           \/ /\ ~overflowed /\ tima + counted < TimaMod
              /\ tima' = tima + counted
              /\ UNCHANGED <<overflowed, flags>>
        /\ UNCHANGED <<bit, enabled, tma>>

\* The counter restarts, and with it the clock input of TIMA.
RestartClock ==
    LET fell == IF signal /\ ~Level(0) THEN 1 ELSE 0
    IN  /\ clock' = 0
        /\ signal' = Level(0)
        /\ tima' = (tima + fell) % TimaMod
        /\ overflowed' = (overflowed \/ tima + fell = TimaMod)
        /\ UNCHANGED <<bit, enabled, tma, flags>>

\* The program sets TIMA, or fails to because a reload is under way.
SetTima ==
    /\ \/ tima' \in 0..TimaMod - 1 /\ overflowed' = FALSE
       \/ overflowed /\ UNCHANGED <<tima, overflowed>>
    /\ UNCHANGED <<clock, bit, enabled, signal, tma, flags>>

SetTma ==
    /\ tma' \in 0..TimaMod - 1
    /\ UNCHANGED <<clock, bit, enabled, signal, tima, overflowed, flags>>

SetControl ==
    /\ enabled' \in BOOLEAN
    /\ bit' \in {<<9, 3, 5, 7>>[select + 1] : select \in TacSelects}
    /\ UNCHANGED <<clock, signal, tima, tma, overflowed, flags>>

Serve ==
    /\ flags' = {}
    /\ UNCHANGED <<clock, bit, enabled, signal, tima, tma, overflowed>>

Next ==
    \/ \E n \in TickCycles : Elapse(n)
    \/ RestartClock
    \/ SetTima
    \/ SetTma
    \/ SetControl
    \/ Serve

Spec == Init /\ [][Next]_vars
=============================================================================
