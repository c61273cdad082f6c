# Formal model of gameboi

A TLA+ development of the emulator in `src/gameboy` and of the frontend around
it: modules that model its units, TLC configurations that check them on small
instances, and TLAPS proofs of theorems that hold for every value of the
parameters. File names below are relative to `src/gameboy/src` unless they begin
with `src/`.

## The system

gameboi emulates a Game Boy. `gameboy` (gameboy.cpp) owns the units; a frontend
(or any other owner) calls `gameboy::tick_one_frame`, which calls
`gameboy::tick` until the screen reaches the vertical blank. One
`gameboy::tick` (gameboy.cpp:37-49)

1. executes one instruction of the emulated program (`cpu::tick`), which may
   write registers of any unit through the memory delegates of `mmu`;
2. hands the instruction's cycle count, in one call each, to timer, APU, PPU
   and link — unless the processor is stopped;
3. lets the processor serve interrupts (`cpu::process_interrupts`).

Everything runs in one thread. The concurrency of the machine is the order in
which register writes, unit ticks, interrupt requests, interrupt dispatch, the
player's events and the owner's calls fall, and the hazards come from units that
look at the world only once per instruction, after 4 to 44 cycles have gone by
at once, and from a frontend that looks at the player only once per frame.

### Components, their state and their operations

| Component | State | Operations | What makes it correct | Modelled |
|---|---|---|---|---|
| Processor control (cpu/cpu.cpp) | IF, IE, IME, two delay counters, halted, stopped, unhalt countdown, extra cycles, KEY1 | tick, process_interrupts, request_interrupt, EI, DI, RETI, HALT, STOP, stores to IE, IF, KEY1 | a delay is one instruction; no wake-up is lost; a handler is not interrupted; halts and stops end | `Cpu` |
| Decode and execution (cpu/cpu.cpp), ALU (cpu/alu.cpp), registers | registers A–L, SP, PC, flags | 512 opcodes | arithmetic of several bytes and of decimal digits, counterparts that cancel, durations that cover the accesses | `Instructions`, `Alu` |
| Timer (timer/timer.cpp) | internal clock, TIMA, TMA, TAC, last sample, reload countdown | tick, four writes | counts the selected clock; one reload and one interrupt per overflow | `Timer` |
| PPU timing (ppu/ppu.cpp) | mode, LY, LYC, STAT, clocks of the mode and of the line, delays of switching on | tick, writes to LCDC, STAT, LY, LYC | every frame has all its lines once, frames keep coming, STAT interrupts once | `Ppu` |
| Video DMA (ppu/ppu.cpp) | source, destination, length and mode; video, object and work memory, their banks | HDMA1–5, FF46, VBK, SVBK, a block at the end of a horizontal blank | a transfer left alone ends and delivers what it announced | `VideoDma`, `MemoryMap` |
| PPU rendering, palettes | palettes, window line | render, palette writes | pixels | no |
| APU and channels (apu/) | frame sequencer, lengths, envelopes, sweep, noise register, sample buffer | tick, register writes, power | notes end on time, what is off is silent, the sample rate is kept | `Apu`, `PulseChannel`, `WaveChannel`, `NoiseChannel` |
| Link (link/link.cpp) | SB, SC, shift clock, shift counter | tick, writes, on_transfer_slave, on_transfer_master | bytes are exchanged; a transfer lasts its bits | `Link`, `LinkPair`, `LinkCable` |
| Joypad (joypad/joypad.cpp) | keys, selected rows | press, release, read, write | a poll sees the keys | `Joypad` |
| Memory map, bus (memory/mmu.cpp, bus.cpp) | WRAM banks, delegates | read, write, dma | an address reaches one owner | `MemoryMap`, in part |
| Cartridge and controllers (cartridge.cpp, memory/controller/) | ROM, RAM, bank registers, save files | load_rom, save_ram_rtc, ROM and RAM accesses | accesses stay in range; RAM and saves belong to their cartridge | `Cartridge` |
| MBC3 clock (memory/controller/mbc3.cpp) | clock registers, latch, time of the last update | latch, select, write, save, load | no second is lost or counted twice | `Rtc` |
| Machine (gameboy.cpp) | whose turn it is, the two loops of a frame | tick, tick_one_frame | a frame returns, and is one frame; halts end | `Machine` |
| Frontend (src/frontend) | state, five lists, favourites, remembered palettes, window, queue of events | main loop, tick, events, menus, loading, saving, closing | keys reach the game, progress is kept, the program ends when asked | `Session` |
| Debugger, audio output (src/debugger, src/frontend) | views, an SDL device | — | — | no |

### How they interact

* Calls down: the main loop to `frontend` and `gameboy`, `gameboy` to the units,
  in a fixed order.
* Shared state: the IF register. Timer, PPU, link and joypad add to it
  (`cpu::request_interrupt`), the processor and the program take from it.
* Callbacks up: `on_render_line`, `on_vblank`, `on_audio_buffer_full`, the two
  link callbacks; the program's stores reach the units through delegates.
* The joypad and the cartridge are touched by the frontend, between two frames;
  everything else by the emulated program.

### What is hard about it

* **Sampling.** The timer, the PPU and the link see one number of cycles per
  instruction. Windows of the real hardware (the reload of TIMA, the early end
  of line 153, the moment a line is rendered) are narrower than an instruction.
* **Two counters for one thing.** EI and DI have a counter each, the vertical
  blank has two clocks, the STAT interrupt has a set of holders beside the
  registers it is computed from, the link has a shift clock and a bit counter, a
  sound channel has a length and an envelope clicked at different steps.
* **Who may wake whom.** HALT, STOP, IME, IE and IF decide together whether the
  machine ever runs again; `tick_one_frame` depends on LY, which depends on the
  PPU running, which depends on the processor not being stopped.
* **State that survives.** Loading a cartridge reuses buffers and controllers of
  the one before; the clock of an MBC3 catches up only when it is latched; the
  menus remember where they were while the list behind them is sorted anew.

`PROJECT.json` lists each hazard at its line with the properties that cover it.

## Modules

| Module | Role |
|---|---|
| `Timer`, `TimerIdeal` | the timer, and a timer that counts the selected clock |
| `Cpu` | processor control |
| `Alu`, `Instructions` | the operations with their flags; fetch, decode, execution and the tables |
| `Ppu`, `MemoryMap`, `VideoDma` | PPU timing and the STAT line; the ranges and banks a transfer reaches; the transfers, on top of the other two |
| `PulseChannel`, `WaveChannel`, `NoiseChannel`, `Apu` | the channels as operators on records; the unit that ticks and clicks them |
| `Link`, `LinkPair`, `LinkCable` | one port, two joined ports, the cable they implement |
| `Joypad`, `Session` | the keys; the frontend and the main loop, which extend them |
| `Cartridge`, `Rtc` | the cartridge slot with its controllers and files; the clock |
| `Machine` | instances of `Cpu`, `Timer` and `Ppu` that share IF, under `tick` and `tick_one_frame` |
| `MC…` | history variables, programs, players and values of constants for TLC |
| `TimerProofs`, `CpuProofs`, `PpuProofs`, `MachineProofs`, `LinkProofs`, `CartridgeProofs`, `ApuProofs`, `SessionProofs` | theorems, each about the module of that name and its MC module; `CpuProofs` also about `Alu`, `Instructions` and their programs |

Conventions: a variable has the name of the member it stands for, without the
trailing underscore; an action has the name of the function, or the register
write, it models. One action is one whole handler. A definition under a comment
"defect the checks notice" is not part of the model: it is a plausible bug kept
beside the definition it would replace, and the property that notices it is
recorded in `PROJECT.json`. The arms of a CASE exclude each other, as TLA+
leaves open which of two true ones is meant. The history variables of the MC
modules are computed from the steps of the module and no step of the program
depends on them.

### Timer

An instruction is up to two register writes and one `Tick`. `Tick` is
`update_internal_clock` plus the countdown to the reload. The 16-bit clock and
the 8-bit TIMA are counted modulo `ClockMod` and `TimaMod`. The code looks at the
selected clock bit once per tick and counts when `enabled ∧ bit` fell.
`TimerIdeal` says what the unit promises: TIMA advances by the number of falling
edges between the two instants when the tick is at most half a period, and by
at most that number otherwise; each overflow gives one reload and one interrupt.
`ImplementsIdeal` is the refinement.

### Cpu

`gameboy::tick` is two steps, `phase = "execute"` and
`phase = "process_interrupts"`; requests of the units fall in between, joypad
requests before an instruction. Instructions are those that touch control state
and `Ordinary`, of which only the length is known. `rewound` stands for the
program counter that HALT decrements when an EI or DI is pending. IF and IE are
sets of sources.

### Alu, Instructions

A machine is a record: registers, flags as a set, SP, PC, the memory that has a
value, and what the last tick did. The switch over 512 opcodes is written by the
fields of the opcode, as regular as they are; the two tables of lengths and
durations are functions of the opcode. `tick` is one instruction, `dispatch` the
entry of an interrupt. HALT, STOP, EI, DI and RETI name the call that `Cpu`
models. Memory is plain here; what an address means is in the units.

### Ppu, VideoDma

One tick action per branch of `ppu::tick`, one write action per register. All
lengths are the code's; the number of lines is a parameter. `Line` carries the
STAT line through a handler: the requests that hold it and whether `lcd_stat`
was raised, in the order of the calls in the code. In the STAT write the code
makes a request on a *copy* of the request set and drops it: so does the model.
`shown` says whether the step called `on_vblank`.

`VideoDma` adds the transfers. Addresses are blocks of sixteen bytes, the unit
of a transfer; what a block holds is named by the cell it came from. `Copied` is
`mmu::dma`, block after block through `Load` and `Store`, which refuse what the
mode of the screen keeps to itself. The end of a horizontal blank moves a block
after the mode has changed, as in the code.

### Apu

`Run` is one turn of the loop in `apu::tick`: one cycle, with the frame sequencer,
the channels and the sample that fall on it; the loop ends early when the buffer
is full. Channels are records with one operator per function of their class.
What a sample is worth (volumes, routing, floating point) is left out: an output
is a level of its channel, for the wave channel zero or not.

### Link, LinkPair

`Link` has SC in parts (transferring, fast, clock mode), the cycles and the bits
shifted so far. `LinkPair` joins two by their callbacks; each machine may take
any step between two of the other. `LinkCable` is the abstract exchange.

### Cartridge, Rtc

`Cartridge` keeps the controller, the RAM as one cell per bank that names the
cartridge that wrote it last, and the save files. Controllers are modelled by
what `control()` does to the bank registers, with the masks of the code. `Rtc`
has the byte arithmetic of `update_rtc_latch` register by register, with the
wrap of a byte.

### Joypad, Session

`Joypad` is four handlers. `Session` is the loop of `main()`, in steps between
which the player acts: asleep without focus, an event taken from the queue, the
end of a tick, a frame, the end of the program. The lists are `list_view` with
its disabled entries; the games list is partitioned by favourites each time it
opens, as `generate_rom_select_menu_items` does. Progress in a game is a
counter, so that what is lost shows. The window system (SFML) is external; the
model assumes what the program relies on: events come in order, a window without
focus gets no key events, a held key repeats, a closed window has no focus and
no events. Drawing, the audio device itself, the configuration file and the
debugger build (off by default, src/CMakeLists.txt:4) are left out.

### Machine

`unit` says whose turn it is within `gameboy::tick`, `frame` where
`tick_one_frame` is. Keys arrive only while `frame = "returned"`. The program is
any sequence of the instructions in `Program`, a parameter, with stores of
`EnableWrites` to IE. The APU raises no interrupt, and the requests of the link
come the same way as those of the timer: both are left out of the composition.
The debugger's `tick_enabled` is left out: it exists in debugger builds only.

## Runs

Each run takes between seconds and three minutes with two workers.

| Run | Checks | Bounds, and why they are enough |
|---|---|---|
| `timer` | `LockIsInstructionLocal`, `WindowEndsAtNextTick`, `ImplementsIdeal`, `RunningTimerInterrupts` | a 6-bit clock contains both selected clocks (bits 3 and 5) and wraps; a 2-bit TIMA overflows often; every instruction length from 4 to 44, dispatch included |
| `cpu` | `DelayIsOneInstruction`, `NoMissedWakeup`, `HandlerShielded`, `SleepEnds` | joypad (served first) and one other source; a short and a long ordinary instruction against the 12-cycle unhalt delay; colour machine, so the speed switch is in |
| `ppu` | `LineOnScreen`, `VblankClocksAgree`, `FramesComplete`, `StatInterruptsOnce`, `ScreenComesOn`, `FramesGoOn`, `TransferDelivers` | two visible lines and two of vertical blank: a first and a last of each. A behaviour is one of three. *Frames*: the shortest and the longest tick, whose mixtures reach every multiple of four, with LCDC and LY writes at any time. *STAT*: none, two or all enables, LYC 0 (a line both a wrap and an LY write reach) and 1, written any number of times, also while the screen is off or about to come on. *Transfers*: a map of twelve blocks with a ring of three in the video memory, so that one and two blocks pass each end; two HDMA5 writes, the second inside or after the first transfer, begun in any mode, also with the screen off |
| `apu` | `TypeOK`, `SilentWhenDisabled`, `NoteLength`, `NoiseKeepsRunning`, `ConstantRate`, `DisabledFallsSilent` | every range at the smallest that keeps its edges (lengths of two, frequencies below four, a noise register of five bits); three stores on one channel, five on the wave channel, which needs them to make a sound, at any moment of the frame sequencer, and then any time without stores |
| `cartridge` | `AccessInRange`, `NoForeignData`, `ClockKeepsTime` | a cartridge of each controller, 4 to 64 banks, with and without battery; bytes that reach every mask. Pauses of 12:34:56 and 23:59:59 carry through every register; up to about two days |
| `cartridge_scope` | `SavedOnLeave`, violated | the same, for a machine that goes out of scope |
| `instructions` | `DecimalArithmetic`, `WideArithmetic`, `CounterpartsCancel`, `AccessesFitDuration` | programs of one to six instructions, each interrupted at most once, between any two; decimal digits on both sides of every carry, bytes at the edges of digits and of the sign, words at the edges of bytes; every opcode by itself |
| `link` | `EndsOnTime`, `MasterCompletes`, `ImplementsCable` | two-bit transfers. One colour machine in all four speeds, with ticks shorter and longer than a bit; or two monochrome machines and two bytes |
| `session` | `PollIsSound`, `PaletteIsTheGames`, `KeysFollowPlayer`, `ProgressKept`, `CloseEnds` | two games, one of them for colour, three keys, one event waiting at a time: every handler still meets every event in every state, as the loop drains the queue before each frame. A behaviour is one of three. *Keys*: up to two keys down at once, in the game, in its menus and while another game is loaded; focus comes and goes in the game, the list of palettes is a dead end, and nothing is saved or closed. *Polls*: one game that polls the joypad, up to two keys down at once. *Menus*: one key down at a time, the window in front, everything else. These bounds are only of the run: the theorems are about the player without them (`PlayerSpec`) |
| `session_quit` | `QuitEnds`, violated | one game, the same player |
| `machine` | `ImplementsCpu`, `OneFrameAtATime` | one visible line and one of vertical blank; LCDC and LY stores, IE, RETI, STOP, keys |
| `machine_live` | `FrameReturns`, `HaltsEnd` | vertical blank, timer and keys as sources; ordinary instructions, TAC, IE, HALT; the timer overflows every 32 cycles |

Preconditions that leave behaviour of the code out are stated in the properties
or in the constants. `AccessInRange` and `NoForeignData` are checked for
cartridges that have a controller, RAM wherever they have a battery, and a power
of two of ROM banks; `ClockKeepsTime` for a clock that is never halted, below day
256; `NoiseKeepsRunning` for a register whose width does not change;
`AccessesFitDuration` except for STOP and BIT b,(HL); `TransferDelivers` for
transfers that begin at an address in the video memory; `FrameReturns` without
STOP and LCDC writes; `KeysFollowPlayer` for keys whose last change the game was
in front for and that were not down when it was loaded; `HandlerShielded` after a
dispatch with no EI pending; `StatInterruptsOnce` for a line that went up
recorded in the request set (not by a STAT write or by switching on) and a
coincidence bit that is not left over from another LYC; `CloseEnds` unless Quit is
picked. Outside of these the code does
something else: see the divergences.

The type invariants of timer, processor and PPU are proved and not run; those of
the other modules are part of a property (`ClockKeepsTime`) or say more than a
type (`Apu`: no frequency, volume or buffer index leaves its range).

`session` and `session_quit` have no deadlock check: the program may end.

### Fairness

* `timer`, `ppu`, `link`, `apu`: weak fairness of the tick. `gameboy::tick` calls
  every unit once per instruction for as long as the owner runs the machine and
  it is not stopped. In `ppu` the vertical blank is also dispatched, which the
  instance does at once, and the transfers' program does not leave the screen
  off for ever.
* `cpu`: weak fairness of `Step`, the loop around `gameboy::tick`. No fairness
  for any particular instruction or for requests.
* `machine_live`: weak fairness of `Step`, which includes the owner calling
  `tick_one_frame` again. None for keys: nobody has to press one.
* `session`, `session_quit`: weak fairness of the program's own steps, the loop of
  `main()`; a frame returns, which `machine_live` checks. None for the player,
  nor for the focus, which is a premise of the liveness properties.

`RunningTimerInterrupts` needs instructions of at most half a period, as a
premise; the timer part of `HaltsEnd` does not, because a halted processor ticks
four cycles at a time (cpu.cpp:113-133), and the check of the composition shows
it.

## Theorems

TLC checks a property on the instance of its run; the theorems state it for every
value of the constants that satisfies the named assumptions of its module. Each
proof module shows, for an inductive invariant, that the initial states satisfy
it and that every step keeps it, with one lemma per action, and derives the
listed theorems from it. `tlapm` needs about a quarter of an hour for `CpuProofs`
and minutes for the others. The properties were checked by TLC on the instance of
the run before they were proved.

* **`TimerProofs`** — `TypeCorrect`, `LockLocal`, `WindowEnds`,
  `TimerImplementsIdeal`, for every clock width, every TIMA width above one bit,
  every set of instruction lengths. `IInv` adds to the type invariant that the full
  reload delay is only seen inside the instruction that forced the overflow, and
  that TIMA is 0, or 1 with the sample low, while a reload is pending. The second
  part is needed because a second overflow in the window would restart the
  countdown: it cannot happen as TIMA is too far from its maximum
  (`NoSecondOverflow`). The refinement counts the falling edges between two
  samples (`FallsBetween`), which are what the two samples tell when no tick is
  longer than half a period.
* **`CpuProofs`** — `TypeCorrect`, `DelayBounded`, `WakeupKept`,
  `HandlerUninterrupted`, for every set of sources, monochrome or colour. `IInv` is
  the conjunction of the first three: the type invariant allows a delay counter of
  1 and both counters at once, and only `DelayIsOneInstruction` shows that neither
  arises; `NoMissedWakeup` needs both phases, as a request arriving after the
  instruction is only seen by `process_interrupts`. `HandlerUninterrupted` is about
  a DI, or a dispatch with no EI pending: after it IME is clear or about to be, and
  no EI is pending until the program executes one. A dispatch with an EI pending is
  its exception, as there the code turns IME on inside the handler: see "Nested
  dispatch" below.
* **`CpuProofs`, the instructions** — `ProgDecimal`, `ProgWide`, `ProgCancel`,
  `ProgDurations`, for every set of digits, bytes and words (`OperandsAssumption`:
  0 to 9, eight and sixteen bits, of which the run takes samples) and
  wherever the one interrupt falls. The argument has four parts.
  1. *Instructions.* `InstructionsFit` and the lemmas of the sections DURATIONS and
     STEPS say, for every machine record and every memory, how many accesses each
     opcode makes in how many cycles, and which registers and cells the opcodes of
     the programs and of the handler change. Only STOP and BIT b,(HL) have less time than accesses (`Stop`, `TestsMemory`).
  2. *The handler* is transparent. `Interrupted(n, q)` says that `n` runs the handler
     on top of `q`: what was saved so far lies below the stack pointer of `q`, the
     other registers and every cell elsewhere are those of `q`. `HandlerStarts` shows
     it of a dispatch, `HandlerSteps` of every instruction of the handler, whose RETI
     leaves `q` again (`Same`) but for the six bytes below its stack pointer.
  3. *Programs.* `Run(p, s, q)` says where a program `p` begun in `s` is in `q` and
     what it has computed by then, one predicate per kind of program. `RunSound` is
     what the invariant needs of it: the next instruction goes on with it, it does
     not depend on the bytes below the stack pointer, and at the end it is the
     outcome that the property states. `ProgramsBegin` shows that it holds at the
     start of every program.
  4. `ProgInv`, the inductive invariant: `m` is in a `Run`, or has been interrupted
     and is `Interrupted` from some machine that is; and the last instruction had
     the time for its accesses (`Lasted`). The machine below the handler is a
     witness that no variable holds, so the invariant quantifies over it and TLC
     cannot evaluate it: the run checks the properties, and `RunSound` carries the
     witness from step to step.

  The programs, the places of their code and the flags they begin with are those of
  `MCInstructions`; the operands and the moment of the interrupt are arbitrary. The
  arithmetic (`DecimalSum`, `WideEnds` and their like) is integer arithmetic on the
  digits and bytes of the operands, not a case for each value.
* **`PpuProofs`** — `TypeCorrect`, `RenderedOnScreen`, `VblankClocks`,
  `FramesAreComplete`, `StatOnce`, for every screen height, vertical blank length and
  set of instruction lengths from 2 to 44 cycles. `IInv` adds how far the clock of
  each mode may be (`ClockInMode`) and that LY stays at its maximum only for the
  first cycles of the last line (`MaxIsBrief`): without it LY could be carried past
  the screen into a visible line. The assumption `VblankLines <= ScreenHeight` is
  the one the code's constants give, and it is used: an LY write in the vertical
  blank restarts LY, which then counts up to `VblankLines - 1` at most before
  visible lines begin. `FramesInv` adds that LY follows the clocks (`LyOnTime`) and
  how many lines have been drawn by now (`DrawnSoFar`). `StatInv` adds that the
  conditions that hold the line are in the request set (`Recorded`), also a
  comparison whose bit is left over, so that `StatOnce` holds of every behaviour:
  the two exceptions are named in the property itself (see "Screen off in its delay"
  and "Dropped requests" below).
* **`MachineProofs`** — `MachineImplementsCpu` and `OneFramePerCall`, for every
  program, every set of sources and every size of timer and screen. The first is the
  step-by-step refinement: a store to the timer is a store that leaves IE as it is, a
  store to the screen is one to IF, a tick that raises an interrupt is a request,
  and everything else of the machine is a stutter. Its invariant says that `phase`
  follows `unit`, that no unit runs in STOP, that a timer that is never started and
  a STAT line that is never enabled request nothing. For the second,
  `Screen == INSTANCE PpuProofs` carries the invariant of the screen over to the
  machine, where the screen sees only its own requests in IF; the invariant of the
  call (`FramesOk`) says that in its first loop the vertical blank of the frame
  before goes on and that in its second a frame has been shown exactly if LY has
  left the screen. By `MachineImplementsCpu` the invariants of `Cpu` hold of the
  processor in the machine.
* **`LinkProofs`** — `TransferTime` and `PairImplementsCable`, for every byte, number
  of bits and set of instruction lengths. `IInv` is an account: what the two shift
  counters are worth has been paid for by the cycles that went by, exactly so if no
  tick was longer than a bit (`Accounted`). `SettingsImplementCable` and the lemmas
  about the pair map each step of one port to a step of the cable.
* **`CartridgeProofs`** — `BanksInRange`, `DataIsOwn`, `ClockInRange`,
  `ClockIsExact`, for every set of cartridges, everything written to the
  controllers, every pause. `Mounted` ties the registers to the controller and the
  RAM behind them, `Clean` says whose every cell of RAM is. Premises, each of which
  the code needs: every header names a controller (`WithController`), a battery has
  RAM to keep (`BatteryKeepsRam`), the clock is not halted and below day 256
  (`PlainClock`). Without them the program does something else: see the divergences.
* **`ApuProofs`** — `TypeCorrect`, `OffIsSilent`, `NoiseGoesOn`, `SamplesKeepPace`,
  `NotesKeepTheirLength`, for every program of stores (`Stores`) and every size that
  `ApuAssumption` allows: sizes above zero, among which a frequency is a whole
  number of low bytes and the buffer holds whole pairs of samples.
  `InRange` is the type invariant with the members it leaves out and the silence of
  what is off; `NoiseFeeds` that the noise register has a bit to feed back while
  its width stays, by arithmetic on its two feedback bits; `InStep` that the cycles
  handed over are those run and those left; `NotesOnSchedule` what is left of a note
  at each step of the sequencer.
* **`SessionProofs`** — `PalettesAreKept`, `NoProgressIsLost`, `KeysAreThePlayers`,
  `PollsAreSound`, for every finite set of games (`GamesAssumption`), palettes,
  devices, and any set of the keys that are bound (`KeysAssumption`), any number of
  which may be down at once, over `PlayerSpec`: the histories of `MCSession` without
  the bounds of its scenes, so that games are loaded, saved and closed with keys
  down and polls under way. `BoundedPlayer` says that the run is an instance of it.
  `MenusOk` says that the selected entry is an enabled one and that the list shown is
  the one a pick looks games up in, although it is sorted anew meanwhile; `KeysOk`
  that the last change of a key the game heard of is in the queue or in the machine;
  `PollOk` that what was read lies between the keys held throughout and those held
  at some time.

Only model-checked:

* every liveness property (`RunningTimerInterrupts`, `SleepEnds`, `ScreenComesOn`,
  `FramesGoOn`, `TransferDelivers`, `DisabledFallsSilent`, `MasterCompletes`,
  `CloseEnds`, `FrameReturns`, `HaltsEnd`): fairness and `ENABLED` are out of the
  prover's reach;
* the transfers of `VideoDma`, whose copies are recursive functions on the memory.

## Divergences met while modelling

The models do what the code does in each of these. The first two are shown by
runs; the others were met with larger bounds, with weaker preconditions or in a
proof that needed a premise, and are left outside the bounds of the runs above.

Frontend:

* **Quit hangs** (src/frontend/src/main.cpp:70; run `session_quit`). Picking Quit
  closes the window and leaves the end to the next tick
  (src/frontend/src/frontend.cpp:236). A closed window has no focus, and the loop
  sleeps without focus before it ticks: the program runs on without a window and
  nothing is saved.
* **Save on scope exit** (src/README.md:56; run `cartridge_scope`). `gameboy` has no
  destructor; only `save_ram_rtc` saves (cartridge.cpp:272).
* **Stuck keys** (src/frontend/src/frontend.cpp:254). Keys released in a menu, or
  without focus, stay pressed in the machine.
* **Forgotten keys** (gameboy.cpp:82, joypad/joypad.cpp:25). Loading another game
  resets the joypad: a key held through it is released in the machine until its
  next press or repeat arrives.
* **Palette of a single game.** Started with a ROM file instead of a folder, the
  program does not apply the palette it remembers.
* **Progress.** Picking another game loads it without saving the one before. Two
  files that differ in the extension only (`.gb`, `.gbc`) share a save file.

Machine and processor:

* **STOP inside a frame** (gameboy.cpp:63). `tick_one_frame` waits for LY, which
  stands still in STOP; the key that would end STOP is pressed between two calls
  in the loop at src/README.md:71-75.
* **Screen off inside a frame** (gameboy.cpp:63). LY stays 0 while the screen is
  off, so the call does not return before the program switches it on again.
* **Request in STOP** (gameboy.cpp:41, cpu.cpp:182-189). A request other than a key
  that is already pending lets a stopped processor execute on while the units
  stand still; the assumption of `Timer` that a store is followed by its tick
  does not hold there, and `machine_live`, which relies on it, has no STOP.
* **Nested dispatch** (cpu.cpp:135-151, 191). EI executed with IME already set leaves
  the delay pending at a dispatch that comes at once: the first instruction of the
  handler turns IME on again, and a second interrupt is dispatched inside the
  handler unless that instruction is DI.
* **Speed switch** (cpu.cpp:99). A KEY1 write stores bit 0 and drops bit 7: a switch
  prepared in double speed leads to double speed again.
* **BIT b,(HL)** (cpu.cpp:1647 and its like) writes the byte back that it tested,
  within a duration that covers the reads only. **STOP** reports four cycles for
  two bytes.

Units:

* **Screen off in its delay** (ppu.cpp:565-574). Switching the screen off leaves the
  delay of switching it on under way: the screen comes on with bit 7 of LCDC clear.
  A write to LYC then does not compare (ppu.cpp:555-563), the coincidence bit goes
  stale, and a line that the old comparison kept up may interrupt a second time.
  The `ppu` run reaches this; `StatInterruptsOnce` leaves it out (`ComparisonHolds`).
* **Dropped requests** (ppu.cpp:427, 152-155). A STAT write raises the interrupt on a
  copy of the request set, and switching the screen on records mode 2 while the
  screen begins in mode 0: a line that went up so may interrupt again in a later
  tick while it stays up.
* **Timer sampling** (timer.cpp:61). A loop of 16-cycle instructions sees the same
  half of every period of the fastest clock ("256 KHz (base)", timer.cpp:77), and
  TIMA stands still.
* **Transfers** (ppu.cpp:617-629). A general transfer does not wrap at the end of
  the video memory: it stores on into the RAM of the cartridge and leaves source
  and destination where they are, for a transfer by blocks to go on from. A
  transfer by blocks cannot be stopped: HDMA5 with bit 7 clear only sets a new
  length (ppu.cpp:367-372). Begun inside a horizontal blank it moves one block at
  once and another at the end of the same blank. Object memory transfers begun in
  modes 2 and 3 (ppu.cpp:307-311) and general ones in mode 3 store nothing.
* **Palettes** (ppu.cpp:499). The upper byte of a colour is or-ed into the green
  that is there: written before the lower byte it is lost, written twice it keeps
  stale bits. BGPD and OBPD read stale values after a write without increment.
* **Wave length** (wave_channel.cpp:44) is counted as written and not as its
  complement; a length of 0 never ends. The **noise length** before NR41 is written
  is 65 or more (noise_channel.cpp:76).
* **Noise register** (noise_channel.cpp:67-70). Switching to the narrow width can
  leave it empty: the noise stops until the next trigger.
* **Wave and noise level.** The last level of a channel that was disabled stands
  until its timer runs out; stores to the wave memory ignore the power switch.
* **Link slave** (link.cpp:62). `on_transfer_slave` swaps the byte, leaves SC bit 7
  set and requests no interrupt; `tick` ignores a machine under the external
  clock. Such a machine never sees its transfer end.

Cartridge:

* **Clock, day 256** (mbc3.cpp:117). Bit 8 of the day counter is extracted as 0 or 1
  and added to the low byte.
* **Clock, halt** (mbc3.cpp:93). A halted clock keeps the old time of the last update
  and jumps over the halted time when it runs again.
* **Clock, RAM** (mbc3.cpp:87). A write to a clock register goes on to the RAM.
* **Stale controller** (cartridge.cpp:153). `load_rom` of a cartridge without a
  controller leaves the controller of the one before ("we're already here.").
* **Battery without RAM** (cartridge.cpp:230). The RAM of the cartridge before is
  kept and saved into the new cartridge's file.
* **ROMs of 72, 80 or 96 banks** (cartridge.cpp:353). The mask `count - 1` hides banks.

## Not modelled

* Rendering, palettes and attributes: pixels computed from the memories at one
  moment. They feed back into nothing but the window line and a register read.
* Sample values of the APU; register reads that return a member.
* The delegates of the memory map: the write actions of the units stand for them.
* Debugger: views drawn with a GUI toolkit. Bus and utilities: no state of their
  own. Audio output: thin wrappers. Tests: not part of the program.
* Real time: the frame rate, the audio queue's blocking, the sleeping loop's pause.

## What is left

Proofs: that a transfer by blocks never leaves the video memory (`VideoDma`); that
the timer in `Machine` is that of `Timer`, as the screen is that of `Ppu`. Models:
link and APU in `Machine`, the window line, a cartridge of 72 banks.
