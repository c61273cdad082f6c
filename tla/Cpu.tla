-------------------------------- MODULE Cpu --------------------------------
(***************************************************************************)
(* The control part of the emulated processor (gameboy/src/cpu/cpu.cpp):   *)
(* the interrupt registers, the delayed EI and DI, HALT, STOP, the speed   *)
(* switch and the cycles the processor reports to the other units.         *)
(*                                                                         *)
(* gameboy::tick alternates cpu::tick, which executes one instruction, and *)
(* cpu::process_interrupts; the other units run in between.  What an       *)
(* instruction does to registers and memory is left out: an instruction is *)
(* one of those that touch the control state, or an ordinary one, of which *)
(* only the length is known.  Which instruction comes next is up to the    *)
(* emulated program; only a HALT that rewinds the program counter forces   *)
(* its own repetition.                                                     *)
(***************************************************************************)
EXTENDS Integers, Sequences

CONSTANTS
    Sources,          \* the interrupt sources in use
    OrdinaryCycles,   \* the lengths of ordinary instructions
    Cgb               \* cartridge::cgb_enabled()

Interrupts == {"lcd_vblank", "lcd_stat", "timer", "serial", "joypad"}

ASSUME SourcesAssumption == Sources \subseteq Interrupts
ASSUME CyclesAssumption == OrdinaryCycles \subseteq {4, 8, 12, 16, 20, 24}
ASSUME CgbAssumption == Cgb \in BOOLEAN

VARIABLES
    interrupt_flags,          \* IF, as a set of sources
    interrupt_enable,         \* IE, as a set of sources
    interrupt_master_enable,  \* IME
    pending_enable,           \* pending_enable_interrupts_counter_
    pending_disable,          \* pending_disable_interrupts_counter_
    is_stopped,
    is_halted,
    wait_before_unhalt,       \* wait_before_unhalt_cycles_
    extra_cycles,
    key_1,                    \* KEY1: the bits "prepare" (0) and "double" (7)
    rewound,                  \* the program counter points at the last HALT
    cycle_count,              \* what the last tick returned
    phase                     \* the step of gameboy::tick that comes next

control == <<interrupt_enable, interrupt_master_enable, pending_enable,
             pending_disable, is_stopped, is_halted, wait_before_unhalt,
             extra_cycles, key_1, rewound, cycle_count, phase>>
vars == <<interrupt_flags, control>>

UnhaltDelay == 12
DispatchCycles == 20
Idle == -1

\* The order in which process_interrupts looks for a request.
Priority == <<"joypad", "serial", "timer", "lcd_stat", "lcd_vblank">>

is_in_double_speed == key_1.double /\ ~key_1.prepare

Pending == interrupt_enable \cap interrupt_flags

\* std::find_if over the static array of sources.
InterruptRequest ==
    Priority[CHOOSE i \in 1..5 : /\ Priority[i] \in Pending
                                 /\ \A j \in 1..i - 1 : Priority[j] \notin Pending]

\* The members an instruction can change.
Regs == [flags   |-> interrupt_flags, enable |-> interrupt_enable,
         ime     |-> interrupt_master_enable,
         ei      |-> pending_enable,  di     |-> pending_disable,
         stopped |-> is_stopped,      halted |-> is_halted,
         key     |-> key_1,           rewind |-> FALSE]

-----------------------------------------------------------------------------
\* reset().  KEY1 starts as zero when the processor is constructed.
Init ==
    /\ interrupt_flags = IF Cgb THEN {"lcd_vblank"} \cap Sources ELSE {}
    /\ interrupt_enable = {}
    /\ interrupt_master_enable = FALSE
    /\ pending_enable = Idle
    /\ pending_disable = Idle
    /\ is_stopped = FALSE
    /\ is_halted = FALSE
    /\ wait_before_unhalt = 0
    /\ extra_cycles = 0
    /\ key_1 = [prepare |-> FALSE, double |-> FALSE]
    /\ rewound = FALSE
    /\ cycle_count = 0
    /\ phase = "execute"

\* --pending_..._counter_, which does not go below -1.
Countdown(counter) == IF counter = Idle THEN Idle ELSE counter - 1

\* The part of tick() that follows the instruction: r is the state the
\* instruction left, cycles its length.
EndOfInstruction(r, cycles) ==
    LET wait   == wait_before_unhalt - cycles
        unhalt == wait_before_unhalt > 0 /\ wait <= 0
        halted == r.halted /\ ~unhalt
        spent  == cycles + extra_cycles
    IN  /\ wait_before_unhalt' = IF wait > 0 THEN wait ELSE 0
        /\ is_halted' = halted
        /\ IF halted
           THEN /\ interrupt_master_enable' = r.ime
                /\ pending_enable' = r.ei
                /\ pending_disable' = r.di
           ELSE /\ interrupt_master_enable' = ((r.ime \/ r.ei = 0) /\ r.di # 0)
                /\ pending_enable' = Countdown(r.ei)
                /\ pending_disable' = Countdown(r.di)
        /\ extra_cycles' = 0
        /\ cycle_count' = IF r.key.double /\ ~r.key.prepare
                          THEN spent \div 2 ELSE spent
        /\ interrupt_flags' = r.flags
        /\ interrupt_enable' = r.enable
        /\ is_stopped' = r.stopped
        /\ key_1' = r.key
        /\ rewound' = r.rewind
        /\ phase' = "process_interrupts"

\* tick() of a processor that is not halted: fetch and decode.
Execute(r, cycles) ==
    /\ phase = "execute"
    /\ ~is_halted
    /\ EndOfInstruction(r, cycles)

Ordinary(cycles) == ~rewound /\ Execute(Regs, cycles)

EI == /\ ~rewound
      /\ Execute([Regs EXCEPT !.di = Idle,
                              !.ei = IF @ = Idle THEN 1 ELSE @], 4)

\* A defect the checks notice: a DI that takes two instructions to arrive.
DIDelaysTwo ==
    /\ ~rewound
    /\ Execute([Regs EXCEPT !.ei = Idle,
                            !.di = IF @ = Idle THEN 2 ELSE @], 4)

DI == /\ ~rewound
      /\ Execute([Regs EXCEPT !.ei = Idle,
                              !.di = IF @ = Idle THEN 1 ELSE @], 4)

RETI == /\ ~rewound
        /\ Execute([Regs EXCEPT !.ei = Idle, !.di = Idle, !.ime = TRUE], 16)

\* halt(): right after EI or DI, HALT only completes their effect and repeats.
HALT ==
    Execute(IF pending_enable # Idle
            THEN [Regs EXCEPT !.ime = TRUE, !.ei = Idle, !.rewind = TRUE]
            ELSE IF pending_disable # Idle
            THEN [Regs EXCEPT !.ime = FALSE, !.di = Idle, !.rewind = TRUE]
            ELSE [Regs EXCEPT !.halted = TRUE], 4)

\* stop(): the speed switch if it has been prepared.
STOP ==
    /\ ~rewound
    /\ Execute(IF key_1.prepare
               THEN [Regs EXCEPT !.key = [prepare |-> FALSE,
                                          double  |-> ~key_1.double]]
               ELSE [Regs EXCEPT !.stopped = TRUE, !.halted = TRUE], 4)

\* Stores to IE, IF and KEY1 (LDH (n),A takes 12 cycles).
WriteIE(data) == ~rewound /\ Execute([Regs EXCEPT !.enable = data], 12)
WriteIF(data) == ~rewound /\ Execute([Regs EXCEPT !.flags = data], 12)
WriteKey1(prepare) ==
    /\ ~rewound
    /\ Execute(IF Cgb THEN [Regs EXCEPT !.key = [prepare |-> prepare,
                                                 double  |-> FALSE]]
               ELSE Regs, 12)

\* tick() of a halted processor.
HaltedTick ==
    /\ phase = "execute"
    /\ is_halted
    /\ EndOfInstruction(Regs, 4)

\* request_interrupt(), called by the units that run between cpu::tick and
\* process_interrupts, and by the joypad between two gameboy::tick calls.
\* A stopped machine runs none of the units.
RequestInterrupt(source) ==
    /\ IF source = "joypad"
       THEN phase = "execute"
       ELSE phase = "process_interrupts" /\ ~is_stopped
    /\ interrupt_flags' = interrupt_flags \cup {source}
    /\ UNCHANGED control

\* process_interrupts() with no request to serve.
NoInterrupt ==
    /\ phase = "process_interrupts"
    /\ Pending = {}
    /\ phase' = "execute"
    /\ UNCHANGED <<interrupt_flags, interrupt_enable, interrupt_master_enable,
                   pending_enable, pending_disable, is_stopped, is_halted,
                   wait_before_unhalt, extra_cycles, key_1, rewound,
                   cycle_count>>

\* Defects the checks notice: the wake-up is left to the dispatch, a dispatch
\* leaves IME set, a key does not end STOP.
ServeWithoutUnhalt ==
    /\ phase = "process_interrupts"
    /\ Pending # {}
    /\ IF interrupt_master_enable
       THEN /\ interrupt_master_enable' = FALSE
            /\ interrupt_flags' = interrupt_flags \ {InterruptRequest}
            /\ is_halted' = FALSE
       ELSE UNCHANGED <<interrupt_master_enable, interrupt_flags, is_halted>>
    /\ phase' = "execute"
    /\ UNCHANGED <<interrupt_enable, pending_enable, pending_disable, key_1,
                   rewound, extra_cycles, cycle_count, is_stopped,
                   wait_before_unhalt>>

ServeWithIme ==
    /\ phase = "process_interrupts"
    /\ Pending # {}
    /\ IF interrupt_master_enable
       THEN interrupt_flags' = interrupt_flags \ {InterruptRequest}
       ELSE UNCHANGED interrupt_flags
    /\ wait_before_unhalt' = IF is_halted THEN UnhaltDelay ELSE 0
    /\ phase' = "execute"
    /\ UNCHANGED <<interrupt_enable, interrupt_master_enable, pending_enable,
                   pending_disable, key_1, rewound, extra_cycles, cycle_count,
                   is_stopped, is_halted>>

\* process_interrupts() with a request: it ends STOP, starts the end of HALT,
\* and is dispatched if IME is set.
ServeInterrupt ==
    LET wake == is_stopped /\ InterruptRequest = "joypad"
    IN  /\ phase = "process_interrupts"
        /\ Pending # {}
        /\ is_stopped' = (is_stopped /\ ~wake)
        /\ is_halted' = (is_halted /\ ~wake)
        /\ wait_before_unhalt' = IF is_halted' /\ wait_before_unhalt = 0
                                 THEN UnhaltDelay ELSE wait_before_unhalt
        /\ IF interrupt_master_enable
           THEN /\ interrupt_master_enable' = FALSE
                /\ interrupt_flags' = interrupt_flags \ {InterruptRequest}
                /\ extra_cycles' = DispatchCycles
                /\ rewound' = FALSE
           ELSE UNCHANGED <<interrupt_master_enable, interrupt_flags,
                            extra_cycles, rewound>>
        /\ phase' = "execute"
        /\ UNCHANGED <<interrupt_enable, pending_enable, pending_disable,
                       key_1, cycle_count>>

Instruction ==
    \/ \E cycles \in OrdinaryCycles : Ordinary(cycles)
    \/ EI
    \/ DI
    \/ RETI
    \/ HALT
    \/ STOP
    \/ \E data \in SUBSET Sources : WriteIE(data) \/ WriteIF(data)
    \/ \E prepare \in BOOLEAN : WriteKey1(prepare)

\* gameboy::tick as far as the processor takes part in it.
Step == Instruction \/ HaltedTick \/ NoInterrupt \/ ServeInterrupt

Next == Step \/ \E source \in Sources : RequestInterrupt(source)

Spec == Init /\ [][Next]_vars

\* The main loop keeps calling gameboy::tick.
FairSpec == Spec /\ WF_vars(Step)

-----------------------------------------------------------------------------
\* Type invariant of the control members of class cpu (cpu.h:76-95).  The
\* unhalt countdown is a signed byte in the code and is never negative here.
TypeOK ==
    /\ interrupt_flags \subseteq Sources
    /\ interrupt_enable \subseteq Sources
    /\ interrupt_master_enable \in BOOLEAN
    /\ pending_enable \in -1..1
    /\ pending_disable \in -1..1
    /\ is_stopped \in BOOLEAN
    /\ is_halted \in BOOLEAN
    /\ wait_before_unhalt \in {0, 4, 8, UnhaltDelay}
    /\ extra_cycles \in {0, DispatchCycles}
    /\ key_1 \in [prepare : BOOLEAN, double : BOOLEAN]
    /\ rewound \in BOOLEAN
    /\ cycle_count \in 0..44
    /\ phase \in {"execute", "process_interrupts"}

\* A delayed EI or DI reaches one instruction beyond its own and no further,
\* and the two are never under way together, whatever sequence of EI, DI, HALT,
\* RETI and interrupts comes before (cpu.cpp:135-151, 1274-1280, 1305-1311,
\* 2525-2538, 2592-2598).
DelayIsOneInstruction ==
    /\ {pending_enable, pending_disable} \subseteq {Idle, 0}
    /\ pending_enable = Idle \/ pending_disable = Idle

\* No wake-up is lost: a halted processor about to sleep on, with no end of
\* the halt under way, has no enabled request waiting, other than a key pressed
\* since process_interrupts last ran (cpu.cpp:164-198).
NoMissedWakeup ==
    phase = "execute" /\ is_halted /\ wait_before_unhalt = 0
        => Pending \subseteq {"joypad"}

\* Sleep ends (cpu.cpp:126-133, 182-189): a HALT with an enabled request, with
\* IME set or not and even if the machine is stopped; a STOP at the press of a
\* key whose interrupt is enabled, however many other requests come first.
SleepEnds ==
    /\ is_halted /\ Pending # {} ~> ~is_halted
    /\ is_stopped /\ is_halted /\ "joypad" \in Pending ~> ~is_stopped
=============================================================================
