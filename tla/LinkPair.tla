------------------------------ MODULE LinkPair ------------------------------
(***************************************************************************)
(* Two machines joined by a link cable: on_transfer_master of each is      *)
(* connected to on_transfer_slave of the other (gameboy.h:41-42).  Every   *)
(* machine runs on its own: a tick or a register write of one can fall     *)
(* between any two of the other.  The first machine is that of Link.       *)
(***************************************************************************)
EXTENDS Link

VARIABLES
    sb2, transferring2, fast2, clock_mode2, shift_clock2, shift_counter2,
    double_speed2, interrupt_flags2                \* of the second machine

second == <<sb2, transferring2, fast2, clock_mode2, shift_clock2,
            shift_counter2, double_speed2, interrupt_flags2>>

B == INSTANCE Link WITH
    sb <- sb2, transferring <- transferring2, fast <- fast2,
    clock_mode <- clock_mode2, shift_clock <- shift_clock2,
    shift_counter <- shift_counter2, double_speed <- double_speed2,
    interrupt_flags <- interrupt_flags2

PairInit == Init /\ B!Init

\* A defect the checks notice: the slave keeps its byte.
TickAKeeps(cycles) ==
    /\ Tick(cycles, sb2)
    /\ UNCHANGED second

\* link::tick of one machine calls on_transfer_slave of the other.
TickA(cycles) ==
    /\ Tick(cycles, sb2)
    /\ IF Completes(cycles) THEN B!on_transfer_slave(sb) ELSE UNCHANGED second

TickB(cycles) ==
    /\ B!Tick(cycles, sb)
    /\ IF B!Completes(cycles) THEN on_transfer_slave(sb2) ELSE UNCHANGED vars

PairNext ==
    \/ \E cycles \in TickCycles : TickA(cycles) \/ TickB(cycles)
    \/ Program /\ UNCHANGED second
    \/ B!Program /\ UNCHANGED vars

PairSpec == PairInit /\ [][PairNext]_<<vars, second>>

-----------------------------------------------------------------------------
Cable == INSTANCE LinkCable WITH
    Machines <- {"first", "second"},
    byte <- [m \in {"first", "second"} |-> IF m = "first" THEN sb ELSE sb2],
    asking <- {m \in {"first", "second"} :
                 IF m = "first" THEN Shifting ELSE B!Shifting}

\* The pair implements the cable: no byte is lost, duplicated or made up, in
\* whatever order the two machines tick, and an exchange always answers a
\* transfer that one of them has asked for under its own clock
\* (link.cpp:39-67).
ImplementsCable == Cable!Spec
=============================================================================
