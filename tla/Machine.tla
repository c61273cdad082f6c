------------------------------ MODULE Machine -------------------------------
(***************************************************************************)
(* The machine as its owner runs it (gameboy/src/gameboy.cpp): the         *)
(* processor, the timer and the screen take turns in gameboy::tick and     *)
(* share the IF register, and tick_one_frame calls tick until the screen   *)
(* reaches the vertical blank.  Keys are pressed between two frames.       *)
(*                                                                         *)
(* The units are those of modules Cpu, Timer and Ppu, which see each other *)
(* only through the cycles of an instruction and the IF register.  Sound   *)
(* raises no interrupt and is left out; so is the serial port, whose       *)
(* requests come no other way than those of the timer.                     *)
(***************************************************************************)
EXTENDS Integers

CONSTANTS
    Sources, OrdinaryCycles,                      \* see Cpu
    ClockMod, TimaMod, TacSelects,                \* see Timer
    ScreenHeight, VblankLines,                    \* see Ppu
    Program,                                      \* the instructions of the program
    EnableWrites                                  \* what it writes to IE

Instructions == {"ordinary", "RETI", "HALT", "STOP", "IE", "TAC", "LCDC", "LY"}
ASSUME ProgramAssumption ==
    Program \subseteq Instructions /\ EnableWrites \subseteq SUBSET Sources
ASSUME ScreenAssumption ==      \* as in Ppu
    /\ ScreenHeight \in Nat \ {0} /\ VblankLines \in Nat \ {0}
    /\ VblankLines <= ScreenHeight /\ ScreenHeight + VblankLines <= 256
ASSUME OrdinaryAssumption ==    \* as in Cpu
    OrdinaryCycles \subseteq {4, 8, 12, 16, 20, 24}
\* The sources in use are those of the units that can make a request: the screen
\* always, the timer if the program starts it.
ASSUME UnitsAssumption ==
    "lcd_vblank" \in Sources /\ ("TAC" \in Program => "timer" \in Sources)

\* A monochrome machine.
Cgb == FALSE
\* What the instructions above may take, with and without a dispatch.
TickCycles == {4 * n : n \in 1..11}
LycValues == {}
StatWrites == {}

VARIABLES
    interrupt_flags,
    interrupt_enable, interrupt_master_enable, pending_enable, pending_disable,
    is_stopped, is_halted, wait_before_unhalt, extra_cycles, key_1, rewound,
    cpu_cycles, phase,
    internal_clock, tima_reload_cycles, timer_clock_overflow_bit, tima, tma,
    enabled, previous_tima_reload_bit, bus_writes,
    lcd_enabled, line_rendered, vblank_line, delay_frames, delay_cycles,
    cycle_count, secondary_cycle_count, lcdc_on, mode, coincidence, enables,
    ly, lyc, interrupt_request, shown,
    unit,       \* the unit whose turn it is in gameboy::tick
    frame       \* where tick_one_frame is

C == INSTANCE Cpu WITH cycle_count <- cpu_cycles
T == INSTANCE Timer
P == INSTANCE Ppu

cpu_vars == <<interrupt_enable, interrupt_master_enable, pending_enable,
              pending_disable, is_stopped, is_halted, wait_before_unhalt,
              extra_cycles, key_1, rewound, cpu_cycles, phase>>
timer_vars == <<internal_clock, tima_reload_cycles, timer_clock_overflow_bit,
                tima, tma, enabled, previous_tima_reload_bit, bus_writes>>
raster == <<lcd_enabled, line_rendered, vblank_line, delay_frames, delay_cycles,
            cycle_count, secondary_cycle_count, lcdc_on, mode, coincidence,
            enables, ly, lyc, interrupt_request>>
ppu_vars == <<raster, shown>>
vars == <<interrupt_flags, cpu_vars, timer_vars, ppu_vars, unit, frame>>

-----------------------------------------------------------------------------
\* The constructor of the machine, which resets every unit.
Init ==
    /\ C!Init /\ T!Init /\ P!Init
    /\ unit = "cpu"
    /\ frame = "returned"

\* A frame is under way and its loop condition holds: tick() is called.
Ticking ==
    \/ frame = "to_line_zero" /\ ly # 0
    \/ frame = "to_vblank" /\ ly < ScreenHeight

\* A defect the checks notice: the first loop is left where it stands.
ReachAnyLine == frame = "to_line_zero" /\ frame' = "to_vblank"

\* tick_one_frame() is called, passes from the first to the second loop, and
\* returns.
BeginFrame == frame = "returned" /\ frame' = "to_line_zero"
ReachLineZero == frame = "to_line_zero" /\ ly = 0 /\ frame' = "to_vblank"
EndFrame == frame = "to_vblank" /\ ly >= ScreenHeight /\ frame' = "returned"

FrameLoop ==
    /\ unit = "cpu"
    /\ BeginFrame \/ ReachLineZero \/ EndFrame
    /\ UNCHANGED <<interrupt_flags, cpu_vars, timer_vars, ppu_vars, unit>>

\* The owner presses a key between two frames.
PressKey ==
    /\ "joypad" \in Sources
    /\ frame = "returned"
    /\ unit = "cpu"
    /\ C!RequestInterrupt("joypad")
    /\ UNCHANGED <<timer_vars, ppu_vars, unit, frame>>

-----------------------------------------------------------------------------
\* An instruction that touches the control state of the processor alone.
ControlInstruction ==
    /\ \/ "ordinary" \in Program /\ \E cycles \in OrdinaryCycles : C!Ordinary(cycles)
       \/ "RETI" \in Program /\ C!RETI
       \/ "HALT" \in Program /\ C!HALT
       \/ "STOP" \in Program /\ C!STOP
       \/ "IE" \in Program /\ \E data \in EnableWrites : C!WriteIE(data)
       \/ C!HaltedTick
    /\ UNCHANGED <<timer_vars, ppu_vars>>

\* A store to a register of the timer.  Stores take 12 cycles.
TimerStore ==
    /\ "TAC" \in Program
    /\ \E enable \in BOOLEAN, select \in TacSelects : T!WriteTac(enable, select)
    /\ C!Ordinary(12)
    /\ UNCHANGED ppu_vars

\* A store to a register of the screen, which may raise a request.
ScreenStore ==
    /\ \/ "LCDC" \in Program /\ \E on \in BOOLEAN : P!WriteLcdc(on)
       \/ "LY" \in Program /\ P!WriteLy
    /\ ~rewound
    /\ C!Execute([C!Regs EXCEPT !.flags = interrupt_flags'], 12)
    /\ UNCHANGED timer_vars

\* Defects the checks notice: the units of a stopped machine run on, those of a
\* halted machine do not.
TurnAfterCpuAlways == "timer"
TurnAfterCpuAwake == IF is_halted' THEN "interrupts" ELSE "timer"
\* Whose turn it is after the processor's.
TurnAfterCpu == IF is_stopped' THEN "interrupts" ELSE "timer"

\* cpu_.tick()
CpuTick ==
    /\ unit = "cpu"
    /\ Ticking
    /\ ControlInstruction \/ TimerStore \/ ScreenStore
    /\ unit' = TurnAfterCpu
    /\ UNCHANGED frame

\* The timer runs at the speed of the processor.
TimerCycles == IF C!is_in_double_speed THEN 2 * cpu_cycles ELSE cpu_cycles

\* timer_.tick()
TimerTick ==
    /\ unit = "timer"
    /\ T!Tick(TimerCycles)
    /\ unit' = "ppu"
    /\ UNCHANGED <<cpu_vars, ppu_vars, frame>>

\* ppu_.tick()
PpuTick ==
    /\ unit = "ppu"
    /\ P!Tick(cpu_cycles)
    /\ unit' = "interrupts"
    /\ UNCHANGED <<cpu_vars, timer_vars, frame>>

\* cpu_.process_interrupts().  The frame a dispatched vblank announced is over.
ProcessInterrupts ==
    /\ unit = "interrupts"
    /\ C!NoInterrupt \/ C!ServeInterrupt
    /\ shown' = (shown /\ ("lcd_vblank" \in interrupt_flags
                              => "lcd_vblank" \in interrupt_flags'))
    /\ unit' = "cpu"
    /\ UNCHANGED <<timer_vars, raster, frame>>

Step == FrameLoop \/ CpuTick \/ TimerTick \/ PpuTick \/ ProcessInterrupts

Next == Step \/ PressKey

Spec == Init /\ [][Next]_vars

\* The owner calls tick_one_frame in a loop, which calls tick in a loop.
FairSpec == Spec /\ WF_vars(Step)

-----------------------------------------------------------------------------
\* The machine gives the processor the environment module Cpu assumes: requests
\* only between cpu::tick and process_interrupts, one at a time, and none from
\* a unit of a stopped machine (gameboy.cpp:37-49).
ImplementsCpu == C!Spec

\* A call of tick_one_frame returns (gameboy.cpp:51-72): src/README.md:71-75 shows
\* it called in a loop, with the keys pressed between two calls.
FrameReturns == frame # "returned" ~> frame = "returned"

\* A program that halts until the vertical blank or the running timer goes on,
\* whatever it or the units were in the middle of: no request falls between the
\* units' ticks and the end of the instruction, and the short ticks of a halted
\* processor miss no edge of the timer's clock, as longer instructions may
\* (gameboy.cpp:37-49, cpu.cpp:84-198, timer.cpp:60-61).
HaltsEnd ==
    /\ is_halted /\ "lcd_vblank" \in interrupt_enable ~> ~is_halted
    /\ is_halted /\ enabled /\ "timer" \in interrupt_enable ~> ~is_halted
=============================================================================
