-------------------------------- MODULE Link --------------------------------
(***************************************************************************)
(* The serial port of one machine (gameboy/src/link/link.cpp).             *)
(*                                                                         *)
(* A transfer under the internal clock shifts one bit per clock period and *)
(* exchanges the whole byte with the peer, through the callback given to   *)
(* on_transfer_master, when the last bit is out.  Under the external clock *)
(* the port only answers the peer's call of on_transfer_slave.             *)
(***************************************************************************)
EXTENDS Integers

CONSTANTS
    Bytes,          \* the values of SB
    OpenLine,       \* 0xFF, received when nothing is connected
    BaseRate,       \* base_clock_rate, 512 cycles per bit
    TransferBits,   \* bits of a transfer, 8
    ShiftMod,       \* 2^width of shift_clock_, a uint16_t in the code
    TickCycles,     \* the cycle counts one instruction may take
    Cgb             \* cartridge::cgb_enabled()

ASSUME BytesAssumption == OpenLine \in Bytes
ASSUME RateAssumption == BaseRate \in Nat /\ BaseRate >= 64
ASSUME BitsAssumption == TransferBits \in Nat \ {0}
\* The addition to a clock that is short of a period does not wrap.
ASSUME ShiftAssumption == ShiftMod \in Nat /\ ShiftMod >= BaseRate + 44
\* Fewer than 2^9 cycles in one instruction (44 in the code).
ASSUME TickAssumption == TickCycles \subseteq 1..44
ASSUME CgbAssumption == Cgb \in BOOLEAN

VARIABLES
    sb,
    transferring,      \* SC bit 7
    fast,              \* SC bit 1
    clock_mode,        \* SC bit 0
    shift_clock,
    shift_counter,
    double_speed,      \* cpu::is_in_double_speed()
    interrupt_flags    \* the CPU's IF register, as a set of sources

control == <<transferring, fast, clock_mode>>
shifter == <<shift_clock, shift_counter>>
vars == <<sb, control, shifter, double_speed, interrupt_flags>>

Mode == {"external", "internal"}

\* reset().  SB keeps its value; a monochrome SC reads back with bit 1 set.
Init ==
    /\ sb \in Bytes
    /\ transferring = FALSE
    /\ fast = ~Cgb
    /\ clock_mode = "external"
    /\ shift_clock = 0
    /\ shift_counter = 0
    /\ double_speed = FALSE
    /\ interrupt_flags = {}

clock_rate ==
    BaseRate \div ((IF fast THEN 32 ELSE 1) * (IF double_speed THEN 2 ELSE 1))

Shifting == transferring /\ clock_mode = "internal"

\* shift_clock_ after the addition of tick().
Clock(cycles) == (shift_clock + cycles) % ShiftMod

\* A defect the checks notice: only a period that is hit exactly ends.
ShiftsExactly(cycles) == Shifting /\ Clock(cycles) = clock_rate
\* The tick ends a clock period: one bit goes out, and only one.
Shifts(cycles) == Shifting /\ Clock(cycles) >= clock_rate

\* A defect the checks notice: the transfer ends one bit early.
CompletesEarly(cycles) == Shifts(cycles) /\ shift_counter + 2 = TransferBits
\* The bit the tick sends is the last one.
Completes(cycles) == Shifts(cycles) /\ shift_counter + 1 = TransferBits

\* What the clock keeps when a period ends.
ClockLeft(cycles) == Clock(cycles) - clock_rate

\* tick(), with received the answer of on_transfer_, or OpenLine without one.
Tick(cycles, received) ==
    /\ shift_clock' = IF Shifts(cycles) THEN ClockLeft(cycles)
                      ELSE IF Shifting THEN Clock(cycles) ELSE shift_clock
    /\ shift_counter' = IF Completes(cycles) THEN 0
                        ELSE IF Shifts(cycles) THEN shift_counter + 1
                        ELSE shift_counter
    /\ IF Completes(cycles)
       THEN /\ sb' = received
            /\ transferring' = FALSE
            /\ interrupt_flags' = interrupt_flags \cup {"serial"}
       ELSE UNCHANGED <<sb, transferring, interrupt_flags>>
    /\ UNCHANGED <<fast, clock_mode, double_speed>>

\* on_transfer_slave(): the byte to send is read by the caller; SC, the shift
\* counter and the interrupts are left alone.
on_transfer_slave(data) ==
    /\ sb' = data
    /\ UNCHANGED <<control, shifter, double_speed, interrupt_flags>>

on_sb_write(data) ==
    /\ sb' = data
    /\ UNCHANGED <<control, shifter, double_speed, interrupt_flags>>

\* A transfer under way is neither finished nor restarted: what is left of its
\* clock and its bits stays in the shift counters.
on_sc_write(start, quick, mode) ==
    /\ transferring' = start
    /\ fast' = (quick \/ ~Cgb)
    /\ clock_mode' = mode
    /\ UNCHANGED <<sb, shifter, double_speed, interrupt_flags>>

\* The program switches the speed of the processor.
SwitchSpeed ==
    /\ Cgb
    /\ double_speed' = ~double_speed
    /\ UNCHANGED <<sb, control, shifter, interrupt_flags>>

\* The CPU dispatches the serial interrupt, or the program clears its flag.
ClearInterruptFlag ==
    /\ "serial" \in interrupt_flags
    /\ interrupt_flags' = interrupt_flags \ {"serial"}
    /\ UNCHANGED <<sb, control, shifter, double_speed>>

SomeTick == \E cycles \in TickCycles, received \in Bytes : Tick(cycles, received)

Program ==
    \/ \E data \in Bytes : on_sb_write(data)
    \/ \E start, quick \in BOOLEAN, mode \in Mode : on_sc_write(start, quick, mode)
    \/ SwitchSpeed
    \/ ClearInterruptFlag

Next == SomeTick \/ Program \/ \E data \in Bytes : on_transfer_slave(data)

Spec == Init /\ [][Next]_vars

\* gameboy::tick calls link::tick after every instruction.
FairSpec == Spec /\ WF_vars(SomeTick)

-----------------------------------------------------------------------------
\* A transfer under the internal clock ends unless the program keeps writing
\* SC, whatever the peer, the processor speed and the state an abandoned
\* transfer left behind (link.cpp:39-60).
MasterCompletes ==
    (/\ <>[][~\E start, quick \in BOOLEAN, mode \in Mode :
                 on_sc_write(start, quick, mode)]_vars
     /\ <>[](clock_mode = "internal"))
        => <>[]~transferring
=============================================================================
