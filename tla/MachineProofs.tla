--------------------------- MODULE MachineProofs ---------------------------
(***************************************************************************)
(* Proofs about Machine: it implements the processor of module Cpu, and a  *)
(* call of tick_one_frame shows one frame, for every program, every set of *)
(* sources and every size of the timer and of the screen.                  *)
(***************************************************************************)
EXTENDS MCMachine, TLAPS

\* cpu::tick opens the window in which the units make their requests, and
\* process_interrupts closes it; the units of a stopped machine do not run.
TurnOk ==
    /\ unit \in {"cpu", "timer", "ppu", "interrupts"}
    /\ phase = IF unit = "cpu" THEN "execute" ELSE "process_interrupts"
    /\ unit \in {"timer", "ppu"} => ~is_stopped

SourcesOk == interrupt_flags \subseteq Sources /\ interrupt_enable \subseteq Sources

\* A timer the program never starts makes no request.
TimerOk ==
    "TAC" \notin Program => ~enabled /\ ~previous_tima_reload_bit /\ tima_reload_cycles = 0

\* Nobody writes STAT: its line stays low.
StatOk == enables = {} /\ interrupt_request = {}

\* The processor never changes its speed, and an instruction, with the dispatch
\* before it, takes 4 to 44 cycles.
CyclesOk ==
    /\ key_1 = [prepare |-> FALSE, double |-> FALSE]
    /\ extra_cycles \in {0, 20}
    /\ phase = "process_interrupts" => cpu_cycles \in TickCycles

\* The inductive invariant.
IInv == TurnOk /\ SourcesOk /\ TimerOk /\ StatOk /\ CyclesOk

LEMMA Lengths == TickCycles = {4, 8, 12, 16, 20, 24, 28, 32, 36, 40, 44}
BY DEF TickCycles

LEMMA InitIInv == Init => IInv
BY DEF Init, C!Init, T!Init, P!Init, Cgb, IInv, TurnOk, SourcesOk, TimerOk, StatOk, CyclesOk

-----------------------------------------------------------------------------
(* The processor. *)

\* What the registers an instruction leaves tell the rest of the machine.
Named(r) ==
    /\ r.flags \subseteq Sources /\ r.enable \subseteq Sources
    /\ r.key = [prepare |-> FALSE, double |-> FALSE]

\* What follows from an instruction that ends.
Window == phase = "execute" /\ phase' = "process_interrupts" /\ SourcesOk' /\ CyclesOk'

\* An instruction opens the window and leaves IE and IF as its registers say.
LEMMA InstructionEnds ==
    ASSUME CyclesOk, phase = "execute", NEW r, Named(r),
           NEW cycles \in {4, 8, 12, 16, 20, 24}, C!EndOfInstruction(r, cycles)
    PROVE  Window
<1>1. /\ phase' = "process_interrupts"
      /\ interrupt_flags' = r.flags
      /\ interrupt_enable' = r.enable
      /\ key_1' = r.key
      /\ extra_cycles' = 0
  BY DEF C!EndOfInstruction
<1>2. cpu_cycles' = IF r.key.double /\ ~r.key.prepare
                    THEN (cycles + extra_cycles) \div 2 ELSE cycles + extra_cycles
  BY DEF C!EndOfInstruction
<1>3. r.key.double = FALSE
  BY DEF Named
<1>4. cpu_cycles' = cycles + extra_cycles
  BY <1>2, <1>3
<1>5. cpu_cycles' \in TickCycles
  BY <1>4, Lengths DEF CyclesOk
<1> QED
  BY <1>1, <1>5 DEF Window, SourcesOk, CyclesOk, Named

\* The registers an instruction starts from, and those that differ in others.
LEMMA RegsNamed ==
    ASSUME SourcesOk, CyclesOk
    PROVE  /\ Named(C!Regs)
           /\ \A r : /\ r.flags = C!Regs.flags /\ r.enable = C!Regs.enable
                     /\ r.key = C!Regs.key
                     => Named(r)
<1>1. Named(C!Regs)
  BY DEF SourcesOk, CyclesOk, C!Regs, Named
<1> QED
  BY <1>1 DEF Named

\* Every instruction of the program is one of the processor's, and names
\* sources in use only.
LEMMA ControlIsInstruction ==
    ASSUME SourcesOk, CyclesOk, ControlInstruction
    PROVE  C!Step /\ Window
<1> USE RegsNamed, InstructionEnds
<1>1. ASSUME NEW cycles \in OrdinaryCycles, C!Ordinary(cycles) PROVE C!Step /\ Window
  <2>1. C!Step
    BY <1>1 DEF C!Step, C!Instruction
  <2>2. cycles \in {4, 8, 12, 16, 20, 24}
    BY OrdinaryAssumption
  <2> QED
    BY <1>1, <2>1, <2>2 DEF C!Ordinary, C!Execute
<1>2. ASSUME C!RETI PROVE C!Step /\ Window
  <2>1. C!Step
    BY <1>2 DEF C!Step, C!Instruction
  <2>2. PICK r : /\ C!Execute(r, 16)
                 /\ r.flags = C!Regs.flags /\ r.enable = C!Regs.enable
                 /\ r.key = C!Regs.key
    <3> DEFINE r == [C!Regs EXCEPT !.ei = C!Idle, !.di = C!Idle, !.ime = TRUE]
    <3>1. r.flags = C!Regs.flags /\ r.enable = C!Regs.enable /\ r.key = C!Regs.key
      BY DEF C!Regs
    <3>2. C!Execute(r, 16)
      BY <1>2 DEF C!RETI
    <3> HIDE DEF r
    <3> QED
      BY <3>1, <3>2
  <2> QED
    BY <2>1, <2>2 DEF C!Execute
<1>3. ASSUME C!HALT PROVE C!Step /\ Window
  <2>1. C!Step
    BY <1>3 DEF C!Step, C!Instruction
  <2>2. PICK r : /\ C!Execute(r, 4)
                 /\ r.flags = C!Regs.flags /\ r.enable = C!Regs.enable
                 /\ r.key = C!Regs.key
    <3> DEFINE on    == [C!Regs EXCEPT !.ime = TRUE, !.ei = C!Idle, !.rewind = TRUE]
               off   == [C!Regs EXCEPT !.ime = FALSE, !.di = C!Idle, !.rewind = TRUE]
               sleep == [C!Regs EXCEPT !.halted = TRUE]
    <3>1. \A r \in {on, off, sleep} :
             r.flags = C!Regs.flags /\ r.enable = C!Regs.enable /\ r.key = C!Regs.key
      BY DEF C!Regs
    <3>2. C!Execute(on, 4) \/ C!Execute(off, 4) \/ C!Execute(sleep, 4)
      BY <1>3 DEF C!HALT
    <3> HIDE DEF on, off, sleep
    <3> QED
      BY <3>1, <3>2
  <2> QED
    BY <2>1, <2>2 DEF C!Execute
<1>4. ASSUME C!STOP PROVE C!Step /\ Window
  <2>1. C!Step
    BY <1>4 DEF C!Step, C!Instruction
  <2>2. PICK r : /\ C!Execute(r, 4)
                 /\ r.flags = C!Regs.flags /\ r.enable = C!Regs.enable
                 /\ r.key = C!Regs.key
    <3> DEFINE r == [C!Regs EXCEPT !.stopped = TRUE, !.halted = TRUE]
    <3>1. r.flags = C!Regs.flags /\ r.enable = C!Regs.enable /\ r.key = C!Regs.key
      BY DEF C!Regs
    <3>2. key_1.prepare = FALSE
      BY DEF CyclesOk
    <3>3. C!Execute(r, 4)
      BY <1>4, <3>2 DEF C!STOP
    <3> HIDE DEF r
    <3> QED
      BY <3>1, <3>3
  <2> QED
    BY <2>1, <2>2 DEF C!Execute
<1>5. ASSUME NEW data \in EnableWrites, C!WriteIE(data) PROVE C!Step /\ Window
  <2>1. data \in SUBSET Sources
    BY ProgramAssumption
  <2>2. C!Step
    BY <1>5, <2>1 DEF C!Step, C!Instruction
  <2>3. PICK r : /\ C!Execute(r, 12)
                 /\ r.flags = C!Regs.flags /\ r.enable = data /\ r.key = C!Regs.key
    BY <1>5 DEF C!WriteIE, C!Regs
  <2>4. Named(r)
    BY <2>1, <2>3, RegsNamed DEF Named
  <2> QED
    BY <2>2, <2>3, <2>4 DEF C!Execute
<1>6. ASSUME C!HaltedTick PROVE C!Step /\ Window
  <2>1. C!Step
    BY <1>6 DEF C!Step
  <2> QED
    BY <1>6, <2>1 DEF C!HaltedTick
<1> QED
  BY <1>1, <1>2, <1>3, <1>4, <1>5, <1>6 DEF ControlInstruction

\* A store to the timer is, to the processor, a store that leaves IE as it is.
LEMMA TimerStoreIsInstruction ==
    ASSUME SourcesOk, CyclesOk, TimerStore
    PROVE  C!Step /\ Window
<1>1. ~rewound /\ C!Execute(C!Regs, 12)
  BY DEF TimerStore, C!Ordinary
<1>2. [C!Regs EXCEPT !.enable = C!Regs.enable] = C!Regs
  BY Zenon DEF C!Regs
<1>3. C!Regs.enable = interrupt_enable
  BY DEF C!Regs
<1>4. C!WriteIE(interrupt_enable)
  BY <1>1, <1>2, <1>3 DEF C!WriteIE
<1>5. C!Step
  BY <1>4 DEF SourcesOk, C!Step, C!Instruction
<1> QED
  BY <1>1, <1>5, RegsNamed, InstructionEnds DEF C!Execute

\* The line of STAT without an enabled request.
NoRequest == [active |-> {}, raised |-> FALSE]

LEMMA LineStaysLow ==
    ASSUME StatOk
    PROVE  /\ P!Line = NoRequest
           /\ \A types : P!Release(NoRequest, types) = NoRequest
           /\ \A type : P!RequestIfEnabled(NoRequest, type) = NoRequest
           /\ \A y, c : P!Compare(NoRequest, y, c) = NoRequest
<1>1. P!Line = NoRequest
  BY DEF StatOk, P!Line, NoRequest
<1>2. \A types : P!Release(NoRequest, types) = NoRequest
  BY DEF P!Release, NoRequest
<1>3. \A type : P!RequestIfEnabled(NoRequest, type) = NoRequest
  BY DEF StatOk, P!RequestIfEnabled
<1> QED
  BY <1>1, <1>2, <1>3 DEF P!Compare

LEMMA LowLineDrives ==
    ASSUME NEW others, P!Drive(NoRequest, others)
    PROVE  interrupt_request' = {} /\ interrupt_flags' = interrupt_flags \cup others
BY DEF P!Drive, NoRequest

\* A store to the screen is, to the processor, a store to IF.
LEMMA ScreenStoreIsInstruction ==
    ASSUME SourcesOk, CyclesOk, StatOk, ScreenStore
    PROVE  C!Step /\ Window /\ StatOk'
<1>1. interrupt_flags' = interrupt_flags /\ StatOk'
  <2>1. CASE \E on \in BOOLEAN : P!WriteLcdc(on)
    BY <2>1 DEF P!WriteLcdc, StatOk
  <2>2. CASE P!WriteLy
    <3>1. P!Drive(NoRequest, {}) /\ enables' = enables
      BY <2>2, LineStaysLow DEF P!WriteLy
    <3> QED
      BY <3>1, LowLineDrives DEF StatOk
  <2> QED
    BY <2>1, <2>2 DEF ScreenStore
<1>2. ~rewound /\ C!Execute([C!Regs EXCEPT !.flags = interrupt_flags'], 12)
  BY DEF ScreenStore
<1>3. interrupt_flags' \in SUBSET Sources
  BY <1>1 DEF SourcesOk
<1>4. C!Step
  BY <1>2, <1>3 DEF C!WriteIF, C!Step, C!Instruction
<1>5. PICK r : /\ C!Execute(r, 12)
               /\ r.flags = interrupt_flags' /\ r.enable = C!Regs.enable
               /\ r.key = C!Regs.key
  BY <1>2 DEF C!Regs
<1>6. Named(r)
  BY <1>3, <1>5, RegsNamed DEF Named
<1> QED
  BY <1>1, <1>4, <1>5, <1>6, InstructionEnds DEF C!Execute

-----------------------------------------------------------------------------
(* The other units. *)

\* The timer requests its own interrupt or none, and none if it never ran.
LEMMA TimerRequests ==
    ASSUME TimerOk, NEW cycles \in Nat, T!Tick(cycles)
    PROVE  /\ TimerOk'
           /\ \/ interrupt_flags' = interrupt_flags
              \/ "timer" \in Sources /\ interrupt_flags' = interrupt_flags \cup {"timer"}
<1>1. enabled' = enabled
  BY DEF T!Tick
<1>2. CASE "TAC" \in Program
  <2>1. "timer" \in Sources
    BY <1>2, UnitsAssumption
  <2>2. \/ interrupt_flags' = interrupt_flags \cup {}
        \/ interrupt_flags' = interrupt_flags \cup {"timer"}
    BY DEF T!Tick
  <2> QED
    BY <1>2, <2>1, <2>2 DEF TimerOk
<1>3. CASE "TAC" \notin Program
  <2>1. ~enabled /\ ~previous_tima_reload_bit /\ tima_reload_cycles = 0
    BY <1>3 DEF TimerOk
  <2>2. \A clock : ~T!ReloadBit(clock) /\ T!ReloadAfter(clock) = 0
    BY <2>1 DEF T!ReloadBit, T!ReloadAfter, T!Overflows, T!FallingEdge
  <2>3. ~previous_tima_reload_bit'
    BY <2>2 DEF T!Tick
  <2>4. tima_reload_cycles' = IF 0 - cycles > 0 THEN 0 - cycles ELSE 0
    BY <2>2 DEF T!Tick
  <2>5. interrupt_flags' = interrupt_flags \cup {}
    BY <2>2 DEF T!Tick
  <2> QED
    BY <1>1, <2>1, <2>3, <2>4, <2>5 DEF TimerOk
<1> QED
  BY <1>2, <1>3

\* The screen requests the vertical blank or nothing.
Draws ==
    /\ StatOk'
    /\ \/ interrupt_flags' = interrupt_flags
       \/ interrupt_flags' = interrupt_flags \cup {"lcd_vblank"}

LEMMA LineTells ==
    ASSUME StatOk, enables' = enables, NEW others \in SUBSET {"lcd_vblank"},
           P!Drive(NoRequest, others)
    PROVE  Draws
<1>1. others = {} \/ others = {"lcd_vblank"}
  OBVIOUS
<1>2. interrupt_request' = {} /\ interrupt_flags' = interrupt_flags \cup others
  BY LowLineDrives
<1> QED
  BY <1>1, <1>2 DEF StatOk, Draws

LEMMA LineIsLeft ==
    ASSUME StatOk, UNCHANGED <<enables, interrupt_request, interrupt_flags>>
    PROVE  Draws
BY DEF StatOk, Draws

LEMMA ScreenRequests ==
    ASSUME StatOk, NEW cycles, P!Tick(cycles)
    PROVE  Draws
<1> USE LineStaysLow, LineTells, LineIsLeft
<1>1. CASE P!TickOff(cycles)
  BY <1>1 DEF P!TickOff
<1>2. CASE P!TickEnabling(cycles)
  <2>1. enables' = enables
    BY <1>2 DEF P!TickEnabling
  <2>2. CASE delay_cycles > cycles
    BY <1>2, <2>1, <2>2 DEF P!TickEnabling
  <2>3. CASE ~(delay_cycles > cycles)
    <3>1. P!Drive(P!Compare([active |-> IF "oam" \in enables THEN {"oam"} ELSE {},
                             raised |-> "oam" \in enables], 0, lyc), {})
      BY <1>2, <2>3 DEF P!TickEnabling
    <3>2. [active |-> IF "oam" \in enables THEN {"oam"} ELSE {},
           raised |-> "oam" \in enables] = NoRequest
      <4>1. "oam" \notin enables
        BY DEF StatOk
      <4>2. ("oam" \in enables) = FALSE
        BY <4>1
      <4> QED
        BY <4>2 DEF NoRequest
    <3>3. P!Drive(NoRequest, {})
      BY <3>1, <3>2
    <3> QED
      BY <2>1, <3>3
  <2> QED
    BY <2>2, <2>3
<1>3. CASE P!TickHblank(cycles)
  <2> DEFINE total == cycle_count + cycles
             next == (ly + 1) % 256
             last == next = ScreenHeight
  <2>1. enables' = enables
    BY <1>3 DEF P!TickHblank
  <2>2. CASE P!StaysInMode(total, P!HblankCycles)
    BY <2>1, <2>2 DEF P!StaysInMode
  <2>3. CASE P!Drive(P!Release(P!RequestIfEnabled(P!Release(P!Compare(P!Line, next, lyc),
                                                            {"v_blank", "oam"}),
                                                  IF last THEN "v_blank" ELSE "oam"),
                               {"h_blank"}),
                     IF last THEN {"lcd_vblank"} ELSE {})
    <3>1. (IF last THEN {"lcd_vblank"} ELSE {}) \in SUBSET {"lcd_vblank"}
      OBVIOUS
    <3>2. P!Drive(NoRequest, IF last THEN {"lcd_vblank"} ELSE {})
      BY <2>3
    <3> QED
      BY <2>1, <3>1, <3>2
  <2> QED
    BY <1>3, <2>2, <2>3 DEF P!TickHblank
<1>4. CASE P!TickVblank(cycles)
  <2>1. enables' = enables
    BY <1>4 DEF P!TickVblank
  <2>2. P!Drive(NoRequest, {})
    BY <1>4 DEF P!TickVblank
  <2> QED
    BY <2>1, <2>2
<1>5. CASE P!TickOam(cycles)
  <2>1. enables' = enables
    BY <1>5 DEF P!TickOam
  <2>2. \/ UNCHANGED <<interrupt_request, interrupt_flags>>
        \/ P!Drive(NoRequest, {})
    BY <1>5 DEF P!TickOam, P!StaysInMode
  <2> QED
    BY <2>1, <2>2
<1>6. CASE P!TickVram(cycles)
  <2>1. enables' = enables
    BY <1>6 DEF P!TickVram
  <2>2. \/ UNCHANGED <<interrupt_request, interrupt_flags>>
        \/ P!Drive(NoRequest, {})
    BY <1>6 DEF P!TickVram, P!StaysInMode
  <2> QED
    BY <2>1, <2>2
<1> QED
  BY <1>1, <1>2, <1>3, <1>4, <1>5, <1>6 DEF P!Tick

-----------------------------------------------------------------------------
(* The machine. *)

\* The turn passes on, and none of the units runs in STOP.
LEMMA CpuPassesTurn ==
    ASSUME phase' = "process_interrupts", unit' = TurnAfterCpu
    PROVE  TurnOk'
BY DEF TurnAfterCpu, TurnOk

\* Each step keeps the invariant and is a step of the processor or none.
Sound == IInv' /\ [C!Next]_C!vars

LEMMA FrameLoopSound == IInv /\ FrameLoop => Sound
BY DEF FrameLoop, IInv, Sound, TurnOk, SourcesOk, TimerOk, StatOk, CyclesOk,
       cpu_vars, timer_vars, ppu_vars, raster, C!vars, C!control

LEMMA PressKeySound == IInv /\ PressKey => Sound
<1> SUFFICES ASSUME IInv, PressKey PROVE Sound
  OBVIOUS
<1>1. C!Next
  BY DEF PressKey, C!Next
<1>2. interrupt_flags' = interrupt_flags \cup {"joypad"} /\ "joypad" \in Sources
  BY DEF PressKey, C!RequestInterrupt
<1>3. UNCHANGED <<cpu_vars, timer_vars, ppu_vars, unit>>
  BY DEF PressKey, C!RequestInterrupt, C!control, cpu_vars
<1>4. IInv'
  BY <1>2, <1>3 DEF IInv, TurnOk, SourcesOk, TimerOk, StatOk, CyclesOk, cpu_vars,
                    timer_vars, ppu_vars, raster
<1> QED
  BY <1>1, <1>4 DEF Sound

LEMMA CpuTickSound == IInv /\ CpuTick => Sound
<1> SUFFICES ASSUME IInv, CpuTick PROVE Sound
  OBVIOUS
<1> USE DEF IInv
<1>1. C!Step /\ Window /\ TimerOk' /\ StatOk'
  <2>1. CASE ControlInstruction
    <3>1. TimerOk' /\ StatOk'
      BY <2>1 DEF ControlInstruction, timer_vars, ppu_vars, raster, TimerOk, StatOk
    <3> QED
      BY <2>1, <3>1, ControlIsInstruction
  <2>2. CASE TimerStore
    <3>1. TimerOk' /\ StatOk'
      BY <2>2 DEF TimerStore, ppu_vars, raster, TimerOk, StatOk
    <3> QED
      BY <2>2, <3>1, TimerStoreIsInstruction
  <2>3. CASE ScreenStore
    <3>1. TimerOk'
      BY <2>3 DEF ScreenStore, timer_vars, TimerOk
    <3> QED
      BY <2>3, <3>1, ScreenStoreIsInstruction
  <2> QED
    BY <2>1, <2>2, <2>3 DEF CpuTick
<1>2. TurnOk'
  BY <1>1, CpuPassesTurn DEF CpuTick, Window
<1> QED
  BY <1>1, <1>2 DEF Sound, Window, C!Next

\* A unit that runs between cpu::tick and process_interrupts may make a request.
LEMMA UnitRequests ==
    ASSUME IInv, unit \in {"timer", "ppu"}, UNCHANGED cpu_vars,
           NEW request \in Sources \ {"joypad"},
           \/ interrupt_flags' = interrupt_flags
           \/ interrupt_flags' = interrupt_flags \cup {request}
    PROVE  SourcesOk' /\ CyclesOk' /\ [C!Next]_C!vars
<1>1. SourcesOk' /\ CyclesOk'
  BY DEF IInv, SourcesOk, CyclesOk, cpu_vars
<1>2. CASE interrupt_flags' = interrupt_flags
  BY <1>1, <1>2 DEF C!vars, C!control, cpu_vars
<1>3. CASE interrupt_flags' = interrupt_flags \cup {request}
  <2>1. phase = "process_interrupts" /\ ~is_stopped
    BY DEF IInv, TurnOk
  <2>2. UNCHANGED C!control
    BY DEF C!control, cpu_vars
  <2>3. C!RequestInterrupt(request)
    BY <1>3, <2>1, <2>2 DEF C!RequestInterrupt
  <2> QED
    BY <1>1, <2>3 DEF C!Next
<1> QED
  BY <1>2, <1>3

LEMMA TimerTickSound == IInv /\ TimerTick => Sound
<1> SUFFICES ASSUME IInv, TimerTick PROVE Sound
  OBVIOUS
<1>1. TimerCycles \in Nat
  <2>1. cpu_cycles \in TickCycles
    BY DEF IInv, CyclesOk, TurnOk, TimerTick
  <2> QED
    BY <2>1, Lengths DEF TimerCycles
<1>2. /\ TimerOk'
      /\ \/ interrupt_flags' = interrupt_flags
         \/ "timer" \in Sources /\ interrupt_flags' = interrupt_flags \cup {"timer"}
  BY <1>1, TimerRequests DEF IInv, TimerTick
<1>3. unit = "timer" /\ unit' = "ppu" /\ UNCHANGED <<cpu_vars, ppu_vars>>
  BY DEF TimerTick
<1>4. SourcesOk' /\ CyclesOk' /\ [C!Next]_C!vars
  BY <1>2, <1>3, UnitRequests, UnitsAssumption
<1>5. TurnOk' /\ StatOk'
  BY <1>3 DEF IInv, TurnOk, StatOk, cpu_vars, ppu_vars, raster
<1> QED
  BY <1>2, <1>4, <1>5 DEF IInv, Sound

LEMMA PpuTickSound == IInv /\ PpuTick => Sound
<1> SUFFICES ASSUME IInv, PpuTick PROVE Sound
  OBVIOUS
<1>1. Draws
  BY ScreenRequests DEF IInv, PpuTick
<1>2. unit = "ppu" /\ unit' = "interrupts" /\ UNCHANGED <<cpu_vars, timer_vars>>
  BY DEF PpuTick
<1>3. SourcesOk' /\ CyclesOk' /\ [C!Next]_C!vars
  BY <1>1, <1>2, UnitRequests, UnitsAssumption DEF Draws
<1>4. TurnOk' /\ TimerOk'
  BY <1>2 DEF IInv, TurnOk, TimerOk, cpu_vars, timer_vars
<1> QED
  BY <1>1, <1>3, <1>4 DEF IInv, Sound, Draws

LEMMA ProcessInterruptsSound == IInv /\ ProcessInterrupts => Sound
<1> SUFFICES ASSUME IInv, ProcessInterrupts PROVE Sound
  OBVIOUS
<1>1. C!Next
  BY DEF ProcessInterrupts, C!Next, C!Step
<1>2. /\ phase' = "execute" /\ interrupt_enable' = interrupt_enable
      /\ interrupt_flags' \subseteq interrupt_flags
      /\ key_1' = key_1 /\ extra_cycles' \in {extra_cycles, 20}
  BY DEF ProcessInterrupts, C!NoInterrupt, C!ServeInterrupt, C!DispatchCycles
<1>3. unit' = "cpu" /\ UNCHANGED <<timer_vars, raster>>
  BY DEF ProcessInterrupts
<1>4. SourcesOk' /\ CyclesOk'
  BY <1>2 DEF IInv, SourcesOk, CyclesOk
<1>5. TurnOk' /\ TimerOk' /\ StatOk'
  BY <1>2, <1>3 DEF IInv, TurnOk, TimerOk, StatOk, timer_vars, raster
<1> QED
  BY <1>1, <1>4, <1>5 DEF IInv, Sound

LEMMA Keeps == IInv /\ [Next]_vars => Sound
<1> SUFFICES ASSUME IInv, [Next]_vars PROVE Sound
  OBVIOUS
<1>1. CASE UNCHANGED vars
  BY <1>1 DEF vars, IInv, Sound, TurnOk, SourcesOk, TimerOk, StatOk, CyclesOk,
              cpu_vars, timer_vars, ppu_vars, raster, C!vars, C!control
<1> QED
  BY <1>1, FrameLoopSound, PressKeySound, CpuTickSound, TimerTickSound,
     PpuTickSound, ProcessInterruptsSound DEF Next, Step

\* The units, the frame loop and the player drive the processor as module Cpu
\* assumes: requests between cpu::tick and process_interrupts only, none from
\* the units of a stopped machine, keys between two instructions
\* (gameboy.cpp:37-49).
THEOREM MachineImplementsCpu == Spec => ImplementsCpu
<1>1. Init => IInv /\ C!Init
  BY InitIInv DEF Init
<1>2. IInv /\ [Next]_vars => IInv' /\ [C!Next]_C!vars
  BY Keeps DEF Sound
<1> QED
  BY <1>1, <1>2, PTL DEF Spec, ImplementsCpu, C!Spec

-----------------------------------------------------------------------------
(* The screen of the machine is that of module Ppu: what PpuProofs shows of  *)
(* its steps holds here.  Of the IF register it sees the requests it makes;  *)
(* there are no transfers, so their registers and the memory map do not      *)
(* matter.                                                                   *)

ScreenRequestTypes == {"lcd_vblank", "lcd_stat"}

Screen == INSTANCE PpuProofs WITH
    interrupt_flags <- interrupt_flags \cap ScreenRequestTypes,
    scene <- "frames", drawn <- 0, undisturbed <- TRUE, ly_written <- FALSE,
    unrecorded <- FALSE, starts <- 0, plan <- <<>>, memory <- <<>>,
    source <- 0, destination <- 0, length_mode_start <- 0,
    vram_bank <- 0, wram_bank <- 0,
    DisabledBit <- 128, HdmaPages <- {}, StoredBlocks <- {}, PageBlocks <- 16,
    VramBegin <- 2048, XramBegin <- 2560, WramBegin <- 3072, BankedBegin <- 3328,
    EchoBegin <- 3584, OamBegin <- 4064, OamBlocks <- 10, WorkBanks <- 8

\* The assumptions of Ppu hold of the parameters of the machine.
ScreenParameters ==
    /\ TickCycles \subseteq 2..44 /\ LycValues \subseteq 0..255
    /\ StatWrites \subseteq SUBSET Screen!RequestTypes
    /\ Cgb \in BOOLEAN

LEMMA ScreenParametersHold == ScreenParameters
BY DEF ScreenParameters, TickCycles, LycValues, StatWrites, Cgb

LEMMA LineDriven ==
    ASSUME NEW line, NEW others \in SUBSET ScreenRequestTypes, P!Drive(line, others)
    PROVE  Screen!Drive(line, others)
BY DEF P!Drive, Screen!Drive, ScreenRequestTypes

\* The definitions of the two instances agree.
LEMMA SameScreen ==
    /\ Screen!Line = P!Line
    /\ \A line, types : Screen!Release(line, types) = P!Release(line, types)
    /\ \A line, type : Screen!RequestIfEnabled(line, type) = P!RequestIfEnabled(line, type)
    /\ \A line, y, c : Screen!Compare(line, y, c) = P!Compare(line, y, c)
BY DEF Screen!Line, P!Line, Screen!Release, P!Release, Screen!Compare, P!Compare,
       Screen!RequestIfEnabled, P!RequestIfEnabled, Screen!Request, P!Request

LEMMA StayOfScreen ==
    ASSUME NEW total, NEW length, P!StaysInMode(total, length)
    PROVE  Screen!StaysInMode(total, length)
BY DEF P!StaysInMode, Screen!StaysInMode, P!screen, Screen!screen

\* The lengths of the two instances agree.
LEMMA SameLengths ==
    /\ Screen!FrameCycles = P!FrameCycles /\ Screen!HblankCycles = P!HblankCycles
    /\ Screen!OamCycles = P!OamCycles /\ Screen!VramCycles = P!VramCycles
    /\ Screen!RenderCycles = P!RenderCycles
    /\ Screen!DelayFrames = P!DelayFrames /\ Screen!DelayCycles = P!DelayCycles
    /\ Screen!VblankCycles = P!VblankCycles
    /\ \A spent : Screen!Wraps(spent) <=> P!Wraps(spent)
    /\ \A total, rest, y : Screen!ClearsLy(total, rest, y) <=> P!ClearsLy(total, rest, y)
    /\ \A rest : Screen!SecondaryStart(rest) = P!SecondaryStart(rest)
    /\ Screen!DelayFramesLeft = P!DelayFramesLeft
    /\ Screen!LineCycles = P!LineCycles
BY DEF P!FrameCycles, Screen!FrameCycles, P!HblankCycles, Screen!HblankCycles, P!OamCycles,
       Screen!OamCycles, P!VramCycles, Screen!VramCycles, P!RenderCycles, Screen!RenderCycles,
       P!DelayFrames, Screen!DelayFrames, P!DelayCycles, Screen!DelayCycles,
       P!VblankCycles, Screen!VblankCycles, P!Wraps, Screen!Wraps, P!ClearsLy, Screen!ClearsLy,
       P!SecondaryStart, Screen!SecondaryStart, P!DelayFramesLeft, Screen!DelayFramesLeft,
       P!LineCycles, Screen!LineCycles, P!LyMax, Screen!LyMax

\* A tick of the machine's screen is a tick of Ppu.
LEMMA TickOfScreen ==
    ASSUME NEW cycles, P!Tick(cycles)
    PROVE  Screen!Tick(cycles)
<1> DEFINE total == cycle_count + cycles
<1> USE SameScreen, SameLengths
<1>0. \A line : /\ P!Drive(line, {}) => Screen!Drive(line, {})
                /\ P!Drive(line, {"lcd_vblank"}) => Screen!Drive(line, {"lcd_vblank"})
  BY LineDriven DEF ScreenRequestTypes
<1>1. CASE P!TickOff(cycles)
  BY <1>1 DEF P!TickOff, Screen!TickOff, Screen!Tick, P!screen, Screen!screen
<1>2. CASE P!TickEnabling(cycles)
  <2> DEFINE oam  == "oam" \in enables
             line == P!Compare([active |-> IF oam THEN {"oam"} ELSE {},
                                raised |-> oam], 0, lyc)
  <2>1. CASE delay_cycles > cycles
    BY <1>2, <2>1 DEF P!TickEnabling, Screen!TickEnabling, Screen!Tick
  <2>2. CASE ~(delay_cycles > cycles)
    <3>1. Screen!Drive(line, {})
      BY <1>0, <1>2, <2>2 DEF P!TickEnabling
    <3>2. line = Screen!Compare([active |-> IF oam THEN {"oam"} ELSE {},
                                 raised |-> oam], 0, lyc)
      OBVIOUS
    <3> QED
      BY <1>2, <2>2, <3>1, <3>2 DEF P!TickEnabling, Screen!TickEnabling, Screen!Tick
  <2> QED
    BY <2>1, <2>2
<1>3. CASE P!TickHblank(cycles)
  <2> DEFINE next  == (ly + 1) % 256
             last  == next = ScreenHeight
             line  == P!Release(P!RequestIfEnabled(
                          P!Release(P!Compare(P!Line, next, lyc), {"v_blank", "oam"}),
                          IF last THEN "v_blank" ELSE "oam"), {"h_blank"})
  <2>1. CASE P!StaysInMode(total, P!HblankCycles) /\ shown' = FALSE
    <3>1. Screen!StaysInMode(total, Screen!HblankCycles)
      BY <2>1, StayOfScreen
    <3> QED
      BY <1>3, <2>1, <3>1 DEF P!TickHblank, Screen!TickHblank, Screen!Tick
  <2>2. CASE ~(P!StaysInMode(total, P!HblankCycles) /\ shown' = FALSE)
    <3>1. Screen!Drive(line, IF last THEN {"lcd_vblank"} ELSE {})
      BY <1>0, <1>3, <2>2 DEF P!TickHblank
    <3>2. line = Screen!Release(Screen!RequestIfEnabled(
                    Screen!Release(Screen!Compare(Screen!Line, next, lyc), {"v_blank", "oam"}),
                    IF last THEN "v_blank" ELSE "oam"), {"h_blank"})
      OBVIOUS
    <3> QED
      BY <1>3, <2>2, <3>1, <3>2, ZenonT(60) DEF P!TickHblank, Screen!TickHblank, Screen!Tick
  <2> QED
    BY <2>1, <2>2
<1>4. CASE P!TickVblank(cycles)
  <2> DEFINE spent == secondary_cycle_count + cycles
         wraps == P!Wraps(spent)
         rest  == IF wraps THEN spent - P!LineCycles ELSE spent
         count == IF wraps THEN vblank_line + 1 ELSE vblank_line
         moves == wraps /\ count < VblankLines
         ly1   == IF moves THEN (ly + 1) % 256 ELSE ly
         line1 == IF moves THEN P!Compare(P!Line, ly1, lyc) ELSE P!Line
         clear == P!ClearsLy(total, rest, ly1)
         ly2   == IF clear THEN 0 ELSE ly1
         line2 == IF clear THEN P!Compare(line1, 0, lyc) ELSE line1
         ends  == total >= P!VblankCycles
         line3 == P!RequestIfEnabled(P!Release(line2, {"h_blank", "oam"}), "oam")
  <2>1. Screen!Drive(IF ends THEN P!Release(line3, {"v_blank"}) ELSE line2, {})
    BY <1>0, <1>4 DEF P!TickVblank
  <2> QED
    BY <1>4, <2>1 DEF P!TickVblank, Screen!TickVblank, Screen!Tick, P!screen, Screen!screen
<1>5. CASE P!TickOam(cycles)
  <2> DEFINE line == P!Release(P!Line, {"h_blank", "v_blank", "oam"})
  <2>1. CASE P!StaysInMode(total, P!OamCycles) /\ UNCHANGED line_rendered
    <3>1. Screen!StaysInMode(total, Screen!OamCycles)
      BY <2>1, StayOfScreen
    <3> QED
      BY <1>5, <2>1, <3>1 DEF P!TickOam, Screen!TickOam, Screen!Tick, P!screen, Screen!screen
  <2>2. CASE ~(P!StaysInMode(total, P!OamCycles) /\ UNCHANGED line_rendered)
    <3>1. Screen!Drive(line, {})
      BY <1>0, <1>5, <2>2 DEF P!TickOam
    <3> QED
      BY <1>5, <2>2, <3>1 DEF P!TickOam, Screen!TickOam, Screen!Tick, P!screen, Screen!screen
  <2> QED
    BY <2>1, <2>2
<1>6. CASE P!TickVram(cycles)
  <2> DEFINE line == P!Release(P!Line, {"h_blank", "v_blank", "oam"})
  <2>1. CASE P!StaysInMode(total, P!VramCycles)
    <3>1. Screen!StaysInMode(total, Screen!VramCycles)
      BY <2>1, StayOfScreen
    <3> QED
      BY <1>6, <2>1, <3>1 DEF P!TickVram, Screen!TickVram, Screen!Tick, P!screen, Screen!screen
  <2>2. CASE ~P!StaysInMode(total, P!VramCycles)
    <3>1. Screen!Drive(P!RequestIfEnabled(line, "h_blank"), {})
      BY <1>0, <1>6, <2>2 DEF P!TickVram
    <3> QED
      BY <1>6, <2>2, <3>1 DEF P!TickVram, Screen!TickVram, Screen!Tick, P!screen, Screen!screen
  <2> QED
    BY <2>1, <2>2
<1> QED
  BY <1>1, <1>2, <1>3, <1>4, <1>5, <1>6 DEF P!Tick

\* A step that leaves the screen alone, its frames taken or not.
LEMMA ScreenLeft ==
    ASSUME Screen!IInv, UNCHANGED raster, shown' \in BOOLEAN
    PROVE  Screen!IInv'
<1>1. UNCHANGED <<Screen!counters, lcd_enabled, mode, ly>>
  BY DEF raster, Screen!counters
<1>2. /\ delay_frames' \in 0..Screen!DelayFrames /\ delay_cycles' \in 0..Screen!DelayCycles
      /\ lcdc_on' \in BOOLEAN /\ coincidence' \in BOOLEAN
      /\ enables' \subseteq Screen!RequestTypes /\ lyc' \in Screen!Ly
      /\ interrupt_request' \subseteq Screen!RequestTypes
  BY DEF raster, Screen!IInv, Screen!TypeOK, Screen!DelayFrames, Screen!DelayCycles,
         Screen!RequestTypes, Screen!Ly
<1>3. (interrupt_flags \cap ScreenRequestTypes)' \subseteq {"lcd_vblank", "lcd_stat"}
  BY DEF ScreenRequestTypes
<1> QED
  BY <1>1, <1>2, <1>3, Screen!QuietIInv, ScreenParametersHold, ScreenAssumption
     DEF ScreenParameters

\* The screen keeps the invariant of Ppu.
LEMMA ScreenSound ==
    ASSUME IInv, Screen!IInv, [Next]_vars
    PROVE  Screen!IInv'
<1> USE ScreenParametersHold, ScreenAssumption DEF ScreenParameters
<1>1. CASE UNCHANGED ppu_vars
  <2>1. UNCHANGED raster /\ shown' \in BOOLEAN
    BY <1>1 DEF ppu_vars, Screen!IInv, Screen!TypeOK
  <2> QED
    BY <2>1, ScreenLeft
<1>2. CASE ScreenStore
  <2>1. ASSUME NEW on \in BOOLEAN, P!WriteLcdc(on) PROVE Screen!IInv'
    <3>1. Screen!WriteLcdc(on)
      BY <2>1 DEF P!WriteLcdc, Screen!WriteLcdc, P!DelayArmed, Screen!DelayArmed,
                  P!DelayCycles, Screen!DelayCycles
    <3> QED
      BY <3>1, Screen!WriteLcdcIInv
  <2>2. CASE P!WriteLy
    <3>1. Screen!Drive(Screen!Compare(Screen!Line, 0, lyc), {})
      BY <2>2, LineDriven, SameScreen DEF P!WriteLy
    <3>2. Screen!WriteLy
      BY <2>2, <3>1 DEF P!WriteLy, Screen!WriteLy, P!counters, Screen!counters,
                        P!screen, Screen!screen
    <3> QED
      BY <3>2, Screen!WriteLyIInv
  <2> QED
    BY <1>2, <2>1, <2>2 DEF ScreenStore
<1>3. CASE PpuTick
  <2>1. cpu_cycles \in TickCycles
    BY <1>3 DEF IInv, CyclesOk, TurnOk, PpuTick
  <2>2. Screen!Tick(cpu_cycles)
    BY <1>3, TickOfScreen DEF PpuTick
  <2> QED
    BY <2>1, <2>2, Screen!TickOffIInv, Screen!TickEnablingIInv, Screen!TickHblankIInv,
       Screen!TickVblankIInv, Screen!TickOamIInv, Screen!TickVramIInv DEF Screen!Tick
<1>4. CASE ProcessInterrupts
  <2>1. UNCHANGED raster /\ shown' \in BOOLEAN
    BY <1>4, Zenon DEF ProcessInterrupts
  <2> QED
    BY <2>1, ScreenLeft
<1> QED
  BY <1>1, <1>2, <1>3, <1>4
     DEF Next, Step, FrameLoop, PressKey, CpuTick, ControlInstruction, TimerStore,
         TimerTick, vars

LEMMA InitScreen == Init => Screen!IInv
<1> SUFFICES ASSUME Init PROVE Screen!IInv
  OBVIOUS
<1>1. interrupt_flags = {}
  BY DEF Init, P!Init
<1>2. Screen!Init
  BY <1>1 DEF Init, P!Init, Screen!Init
<1> QED
  BY <1>2, Screen!InitIInv, ScreenParametersHold, ScreenAssumption DEF ScreenParameters

-----------------------------------------------------------------------------
(* One call of tick_one_frame. *)

\* Where an undisturbed call is: in its first loop the vertical blank of the
\* frame before goes on; the frame is shown as its own begins.
Undisturbed ==
    /\ ScreenOn
    /\ unit \in {"timer", "ppu"} => Ticking
    /\ frame = "to_line_zero" => /\ frames_shown = 0
                                 /\ ly = 0 \/ (mode = "v_blank" /\ ly >= ScreenHeight)
    /\ frame = "to_vblank" => frames_shown = IF ly < ScreenHeight THEN 0 ELSE 1

FramesOk ==
    /\ frame \in {"returned", "to_line_zero", "to_vblank"}
    /\ frame = "returned" => unit = "cpu" /\ (ly = 0 \/ ly >= ScreenHeight)
    /\ frame # "returned" /\ ~disturbed => Undisturbed

\* A tick of a screen that is on shows a frame exactly if it carries LY from the
\* screen into the vertical blank.
LEMMA ShowsAtVblank ==
    ASSUME Screen!IInv, Screen!IInv', ScreenOn, NEW cycles \in TickCycles, P!Tick(cycles)
    PROVE  /\ ScreenOn'
           /\ ly >= ScreenHeight => ~shown' /\ (ly' = 0 \/ (mode' = "v_blank" /\ ly' >= ScreenHeight))
           /\ ly < ScreenHeight => IF ly' < ScreenHeight THEN ~shown' ELSE shown'
<1>1. /\ ly \in 0..255 /\ ly' \in 0..255 /\ ScreenHeight \in Nat /\ VblankLines \in Nat
      /\ ScreenHeight > 0 /\ VblankLines > 0 /\ VblankLines <= ScreenHeight
      /\ ScreenHeight + VblankLines <= 256
      /\ mode \in {"h_blank", "v_blank", "oam", "vram"}
      /\ vblank_line \in Nat
  BY ScreenAssumption DEF Screen!IInv, Screen!TypeOK, Screen!Ly
<1>2. /\ mode # "v_blank" => ly < ScreenHeight
      /\ mode' # "v_blank" => ly' < ScreenHeight
  BY DEF Screen!IInv, Screen!LineOnScreen
<1>3. lcd_enabled /\ delay_cycles = 0 /\ delay_frames = 0
  BY DEF ScreenOn
<1>4. CASE P!TickHblank(cycles)
  <2> DEFINE next == (ly + 1) % 256
  <2>0. mode = "h_blank" /\ ly < ScreenHeight
    BY <1>2, <1>4 DEF P!TickHblank
  <2>1. next = ly + 1
    BY <1>1, <2>0
  <2>2. CASE P!StaysInMode(cycle_count + cycles, P!HblankCycles) /\ shown' = FALSE
    <3>1. ly' = ly /\ ScreenOn' /\ shown' = FALSE
      BY <1>3, <2>2 DEF P!StaysInMode, P!screen, ScreenOn
    <3> QED
      BY <1>1, <2>0, <3>1
  <2>3. CASE ~(P!StaysInMode(cycle_count + cycles, P!HblankCycles) /\ shown' = FALSE)
    <3>1. /\ ly' = next /\ UNCHANGED <<lcd_enabled, delay_cycles>>
          /\ IF next = ScreenHeight
             THEN shown' = (delay_frames = 0) /\ delay_frames' = P!DelayFramesLeft
             ELSE shown' = FALSE /\ UNCHANGED delay_frames
      BY <1>4, <2>3 DEF P!TickHblank
    <3>2. P!DelayFramesLeft = 0
      BY <1>3 DEF P!DelayFramesLeft
    <3>3. ScreenOn'
      BY <1>3, <3>1, <3>2 DEF ScreenOn
    <3> HIDE DEF next
    <3>4. CASE next = ScreenHeight
      <4>1. shown'
        BY <1>3, <3>1, <3>4
      <4>2. ly' = ScreenHeight
        BY <3>1, <3>4
      <4> QED
        BY <1>1, <2>0, <3>3, <4>1, <4>2
    <3>5. CASE next # ScreenHeight
      BY <1>1, <2>0, <2>1, <3>1, <3>3, <3>5
    <3> QED
      BY <3>4, <3>5
  <2> QED
    BY <2>2, <2>3
<1>5. CASE P!TickVblank(cycles)
  <2>0. mode = "v_blank" /\ shown' = FALSE /\ UNCHANGED P!screen
    BY <1>5 DEF P!TickVblank
  <2>1. ScreenOn'
    BY <1>3, <2>0 DEF P!screen, ScreenOn
  <2>2. vblank_line < VblankLines /\ (ly = ScreenHeight + vblank_line \/ ly <= vblank_line)
    BY <2>0 DEF Screen!IInv, Screen!VblankClocksAgree
  <2>3. ly' = 0 \/ ly' = ly
        \/ (vblank_line + 1 < VblankLines /\ ly' = (ly + 1) % 256)
    BY <1>5 DEF P!TickVblank
  <2>4. vblank_line + 1 < VblankLines => (ly + 1) % 256 = ly + 1
    BY <1>1, <2>2
  <2>5. ly >= ScreenHeight => ly' = 0 \/ ly' >= ScreenHeight
    BY <1>1, <2>3, <2>4
  <2>6. ly < ScreenHeight => ly' < ScreenHeight
    BY <1>1, <2>2, <2>3, <2>4
  <2> QED
    BY <1>1, <1>2, <2>0, <2>1, <2>5, <2>6
<1>6. CASE P!TickOam(cycles) \/ P!TickVram(cycles)
  <2>1. mode # "v_blank" /\ shown' = FALSE /\ ly' = ly /\ UNCHANGED P!screen
    BY <1>6 DEF P!TickOam, P!TickVram, P!StaysInMode
  <2>2. ScreenOn'
    BY <1>3, <2>1 DEF P!screen, ScreenOn
  <2> QED
    BY <1>1, <1>2, <2>1, <2>2
<1> QED
  BY <1>3, <1>4, <1>5, <1>6 DEF P!Tick, P!TickOff, P!TickEnabling

OneFrame == frame' = "returned" /\ frame # frame' /\ ~disturbed => frames_shown = 1

LEMMA FramesStep ==
    ASSUME Screen!IInv, Screen!IInv', IInv, IInv', FramesOk, [MCNext]_mcvars
    PROVE  FramesOk' /\ OneFrame
<1> USE DEF FramesOk
<1>0. ly \in 0..255 /\ ScreenHeight \in Nat /\ ScreenHeight > 0
      /\ (mode # "v_blank" => ly < ScreenHeight)
  BY ScreenAssumption DEF Screen!IInv, Screen!TypeOK, Screen!LineOnScreen, Screen!Ly
<1>1. CASE UNCHANGED mcvars
  BY <1>1 DEF mcvars, vars, ppu_vars, raster, Undisturbed, OneFrame, Ticking, ScreenOn
<1> SUFFICES ASSUME Next, History PROVE FramesOk' /\ OneFrame
  BY <1>1 DEF MCNext
<1>2. CASE BeginFrame /\ FrameLoop
  <2>1. /\ frame = "returned" /\ frame' = "to_line_zero" /\ unit' = "cpu" /\ unit = "cpu"
        /\ UNCHANGED ppu_vars
    BY <1>2 DEF FrameLoop, BeginFrame
  <2>2. frames_shown' = 0 /\ disturbed' = ~ScreenOn
    BY <2>1 DEF History
  <2>3. ScreenOn' <=> ScreenOn
    BY <2>1 DEF ppu_vars, raster, ScreenOn
  <2>4. ly' = ly /\ mode' = mode
    BY <2>1 DEF ppu_vars, raster
  <2>5. ~disturbed' => ScreenOn'
    BY <2>2, <2>3
  <2> QED
    BY <1>0, <2>1, <2>2, <2>4, <2>5 DEF Undisturbed, OneFrame
\* Every other step.
<1>3. ASSUME ~(BeginFrame /\ FrameLoop)
      PROVE  /\ frame = "returned" => frame' = frame
             /\ ~disturbed' => ~disturbed /\ ~ScreenStore
             /\ ~(unit = "ppu" /\ shown') => frames_shown' = frames_shown
  <2>1. frame = "returned" => frame' = frame
    BY <1>3 DEF Next, Step, FrameLoop, BeginFrame, ReachLineZero, EndFrame, PressKey,
                CpuTick, TimerTick, PpuTick, ProcessInterrupts
  <2> QED
    BY <2>1 DEF History
<1>4. ASSUME UNCHANGED <<raster, frame>>, unit # "ppu", ~(BeginFrame /\ FrameLoop),
             unit' \in {"timer", "ppu"} => Ticking \/ unit \in {"timer", "ppu"},
             frame = "returned" => unit' = "cpu"
      PROVE  FramesOk' /\ OneFrame
  <2>1. ly' = ly /\ mode' = mode /\ frame' = frame /\ (ScreenOn' <=> ScreenOn)
        /\ (Ticking' <=> Ticking)
    BY <1>4 DEF raster, ScreenOn, Ticking
  <2> QED
    BY <1>3, <1>4, <2>1 DEF Undisturbed, OneFrame
<1>5. CASE FrameLoop /\ ~BeginFrame
  <2>1. unit = "cpu" /\ unit' = "cpu" /\ UNCHANGED raster
    BY <1>5 DEF FrameLoop, ppu_vars
  <2>2. ly' = ly /\ mode' = mode /\ (ScreenOn' <=> ScreenOn)
    BY <2>1 DEF raster, ScreenOn
  <2>3. CASE ReachLineZero
    BY <1>0, <1>3, <1>5, <2>1, <2>2, <2>3 DEF ReachLineZero, Undisturbed, OneFrame
  <2>4. CASE EndFrame
    BY <1>0, <1>3, <1>5, <2>1, <2>2, <2>4 DEF EndFrame, Undisturbed, OneFrame
  <2> QED
    BY <1>5, <2>3, <2>4 DEF FrameLoop
<1>6. CASE PressKey
  BY <1>4, <1>6 DEF PressKey, ppu_vars, FrameLoop, BeginFrame
<1>7. CASE CpuTick
  <2>1. unit = "cpu" /\ Ticking /\ frame' = frame /\ frame # "returned"
    BY <1>7 DEF CpuTick, Ticking
  <2>2. CASE ScreenStore
    BY <1>3, <2>1, <2>2 DEF BeginFrame, OneFrame
  <2>3. CASE ControlInstruction \/ TimerStore
    <3>1. UNCHANGED raster
      BY <2>3 DEF ControlInstruction, TimerStore, ppu_vars
    <3> QED
      BY <1>4, <2>1, <3>1 DEF BeginFrame
  <2> QED
    BY <1>7, <2>2, <2>3 DEF CpuTick
<1>8. CASE TimerTick
  <2>1. UNCHANGED <<raster, frame>> /\ unit = "timer" /\ unit' = "ppu" /\ frame # "returned"
    BY <1>8 DEF TimerTick, ppu_vars
  <2> QED
    BY <1>4, <2>1 DEF BeginFrame
<1>9. CASE PpuTick
  <2>1. /\ unit = "ppu" /\ unit' = "interrupts" /\ frame' = frame /\ frame # "returned"
        /\ P!Tick(cpu_cycles)
    BY <1>9 DEF PpuTick
  <2>2. cpu_cycles \in TickCycles
    BY <2>1 DEF IInv, CyclesOk, TurnOk
  <2>3. ~disturbed' => ~disturbed
    BY <1>3, <2>1 DEF BeginFrame
  <2>4. SUFFICES ASSUME ~disturbed PROVE Undisturbed'
    BY <2>1, <2>3 DEF OneFrame
  <2>5. Undisturbed /\ ScreenOn /\ Ticking
    BY <2>1, <2>4 DEF Undisturbed
  <2>6. /\ ScreenOn'
        /\ ly >= ScreenHeight => ~shown' /\ (ly' = 0 \/ (mode' = "v_blank" /\ ly' >= ScreenHeight))
        /\ ly < ScreenHeight => IF ly' < ScreenHeight THEN ~shown' ELSE shown'
    BY <2>1, <2>2, <2>5, ShowsAtVblank
  <2>7. frames_shown = 0 /\ frames_shown' = IF shown' THEN 1 ELSE 0
    BY <2>1, <2>5 DEF History, Undisturbed, Ticking
  <2>8. ly' \in 0..255
    BY DEF Screen!IInv, Screen!TypeOK, Screen!Ly
  <2> QED
    BY <1>0, <2>1, <2>5, <2>6, <2>7, <2>8 DEF Undisturbed, Ticking
<1>10. CASE ProcessInterrupts
  <2>1. UNCHANGED <<raster, frame>> /\ unit = "interrupts" /\ unit' = "cpu"
    BY <1>10 DEF ProcessInterrupts
  <2> QED
    BY <1>4, <2>1 DEF FrameLoop
<1> QED
  BY <1>2, <1>5, <1>6, <1>7, <1>8, <1>9, <1>10 DEF Next, Step

\* A call of tick_one_frame that finds the screen on, and whose program leaves
\* it so, hands the frontend exactly one frame (gameboy.cpp:51-72).
THEOREM OneFramePerCall == MCSpec => OneFrameAtATime
<1> DEFINE AllInv == IInv /\ Screen!IInv /\ FramesOk
<1>1. MCInit => AllInv
  <2> SUFFICES ASSUME MCInit PROVE AllInv
    OBVIOUS
  <2>1. IInv /\ Screen!IInv
    BY InitIInv, InitScreen DEF MCInit
  <2>2. frame = "returned" /\ unit = "cpu" /\ ly = 0
    BY DEF MCInit, Init, P!Init, Cgb
  <2> QED
    BY <2>1, <2>2 DEF FramesOk
<1>2. AllInv /\ [MCNext]_mcvars => AllInv' /\ [OneFrame]_mcvars
  <2> SUFFICES ASSUME AllInv, [MCNext]_mcvars PROVE AllInv' /\ OneFrame
    OBVIOUS
  <2>1. [Next]_vars
    BY DEF MCNext, mcvars
  <2>2. IInv'
    BY <2>1, Keeps DEF Sound
  <2>3. Screen!IInv'
    BY <2>1, ScreenSound
  <2> QED
    BY <2>2, <2>3, FramesStep
<1> HIDE DEF AllInv
<1>3. MCSpec => [][OneFrame]_mcvars
  BY <1>1, <1>2, PTL DEF MCSpec
<1> QED
  BY <1>3 DEF OneFrameAtATime, OneFrame
=============================================================================
