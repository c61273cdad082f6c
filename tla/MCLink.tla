------------------------------- MODULE MCLink -------------------------------
(***************************************************************************)
(* LinkPair in two settings: either the first machine uses all its speeds  *)
(* and the second leaves its port alone, or both use the normal speed.     *)
(* History variables, which no step depends on, account for the clock      *)
(* cycles of a transfer of the first machine.                              *)
(***************************************************************************)
EXTENDS LinkPair

VARIABLES
    alone,     \* the second machine leaves its port alone
    elapsed,   \* cycles the transfer shifted since SC or the speed changed
    debt,      \* what the shift counters were worth then, in cycles
    in_time    \* the shift clock was not a bit behind then

mcvars == <<vars, second, alone, elapsed, debt, in_time>>

LongestTick == CHOOSE c \in TickCycles : \A d \in TickCycles : c >= d

Setting ==
    /\ alone' = alone
    /\ IF alone
       THEN /\ sb' = OpenLine
            /\ UNCHANGED <<transferring2, fast2, clock_mode2, shift_clock2,
                           shift_counter2, double_speed2, interrupt_flags2>>
       ELSE ~(fast \/ double_speed \/ fast2 \/ double_speed2)'

Worth == shift_counter * clock_rate + shift_clock

Capture ==
    /\ debt' = Worth'
    /\ in_time' = (shift_clock < clock_rate)'

MCTick ==
    \E cycles \in TickCycles :
        /\ alone \/ cycles = LongestTick
        /\ TickA(cycles)
        /\ elapsed' = IF alone /\ transferring' /\ Shifting THEN elapsed + cycles ELSE 0
        /\ IF alone /\ Completes(cycles) THEN Capture ELSE UNCHANGED <<debt, in_time>>
        /\ Setting

MCPeer ==
    /\ \/ \E cycles \in TickCycles : cycles = LongestTick /\ TickB(cycles)
       \/ B!Program /\ UNCHANGED vars
    /\ ~alone
    /\ UNCHANGED <<elapsed, debt, in_time>>
    /\ Setting

MCProgram ==
    /\ Program
    /\ UNCHANGED second
    /\ IF alone /\ (control' # control \/ double_speed' # double_speed)
       THEN elapsed' = 0 /\ Capture
       ELSE UNCHANGED <<elapsed, debt, in_time>>
    /\ Setting

MCInit ==
    /\ PairInit
    /\ alone \in BOOLEAN
    /\ alone => sb = OpenLine /\ sb2 = OpenLine
    /\ elapsed = 0 /\ debt = 0 /\ in_time = TRUE
MCNext == MCTick \/ MCPeer \/ MCProgram
MCSpec == MCInit /\ [][MCNext]_mcvars
MCFairSpec == MCSpec /\ WF_mcvars(MCTick)

\* A transfer lasts as long as its bits (link.cpp:45-57): it never ends early,
\* counting what an abandoned transfer left in the shift counters, and where
\* instructions are not longer than a bit it does not end late either.
EndsOnTime ==
    [][\A cycles \in TickCycles :
         alone /\ TickA(cycles) /\ Completes(cycles) =>
            LET total == debt + elapsed + cycles
            IN  /\ total >= TransferBits * clock_rate
                /\ in_time /\ (\A c \in TickCycles : c <= clock_rate)
                     => total < TransferBits * clock_rate + cycles]_mcvars
=============================================================================
