------------------------------- MODULE MCPpu -------------------------------
(***************************************************************************)
(* Ppu and VideoDma with history variables, which no step depends on, for  *)
(* the properties that speak of a whole frame, of the STAT line and of a   *)
(* transfer.  To keep the instance small a behaviour is about one of them: *)
(* frames without STAT interrupts; the STAT line, or the transfers, with   *)
(* instructions of one length.                                             *)
(***************************************************************************)
EXTENDS VideoDma

VARIABLES
    scene,         \* "frames", "stat" or "dma"
    drawn,         \* lines rendered since the frame began
    undisturbed,   \* the frame began at line zero and nothing restarted it
    ly_written,    \* LY was written since the vertical blank began
    unrecorded,    \* the STAT line went up in a way the request set forgot
    starts,        \* writes of HDMA5 so far
    plan           \* the memory a transfer under way announced, None if none

frames == <<drawn, undisturbed, ly_written>>
mcvars == <<all_vars, scene, frames, unrecorded, starts, plan>>

SomeEnables == {{}, {"coincidence", "oam"}, RequestTypes}
FrameTicks == {4, 44}
StatTick == 24

EntersVblank == mode # "v_blank" /\ mode' = "v_blank"
BeginsFrame == mode = "v_blank" /\ mode' = "oam"
Renders == line_rendered' /\ ~line_rendered
Restarts == WriteLy \/ WriteLcdc(FALSE) \/ lcd_enabled' # lcd_enabled
RaisesStat == "lcd_stat" \in interrupt_flags' \ interrupt_flags

\* Whether the STAT line is up: an enabled condition holds.
StatUp ==
    \/ mode \in enables
    \/ coincidence /\ "coincidence" \in enables

\* The bit of the comparison is set, and not left over from another LYC.
ComparisonHolds == coincidence /\ ly = lyc

Frames ==
    /\ scene = "frames"
    /\ enables' = enables /\ lyc' = lyc
    /\ SomeTick => \E cycles \in FrameTicks : Tick(cycles)
    /\ drawn' = IF BeginsFrame THEN 0
                ELSE IF Renders /\ drawn <= ScreenHeight THEN drawn + 1 ELSE drawn
    /\ undisturbed' = IF BeginsFrame THEN ly' = 0 ELSE undisturbed /\ ~Restarts
    /\ ly_written' = (~EntersVblank /\ (ly_written \/ WriteLy))
    /\ UNCHANGED unrecorded

Stat ==
    /\ scene = "stat"
    /\ SomeTick => Tick(StatTick)
    /\ unrecorded' = (/\ StatUp'
                      /\ unrecorded \/ enables' # enables \/ lcd_enabled' # lcd_enabled)
    /\ UNCHANGED frames

-----------------------------------------------------------------------------
None == <<>>
VramSize == XramBegin - VramBegin

\* The memory when a transfer of so many blocks, begun now, is over.
Announced(length) ==
    LET from(i) == source + i + (IF source < VramBegin /\ source + i >= VramBegin
                                 THEN VramSize ELSE 0)
        to(i)   == VramBegin + ((destination - VramBegin + i) % VramSize)
    IN  [c \in Cells |->
            LET here == {i \in 0..length - 1 : c = Cell(to(i), vram_bank, wram_bank)}
            IN  IF here = {} THEN memory[c]
                ELSE memory[Cell(from(CHOOSE i \in here : TRUE), vram_bank, wram_bank)]]

\* The plan after HDMA5 took the value: of transfers by blocks.
Plan(data) ==
    IF lcdc_on /\ (~disabled \/ data >= DisabledBit) THEN Announced(Length(data)) ELSE None

\* The plan is forgotten when the transfer is over and has done what it announced.
Follow(announced) ==
    plan' = IF disabled' /\ memory' = announced THEN None ELSE announced

FirstMoment == mode = "v_blank" /\ cycle_count = 0

\* The program stores; or it sets up a transfer in the first moment, perhaps with
\* the screen off, and writes HDMA5 twice in the first instructions of a mode: the
\* second time the transfer goes on from where it is, or begins where it ended.
DmaTick == lcdc_on /\ TickDma(StatTick) /\ Follow(plan) /\ UNCHANGED starts
DmaStart ==
    /\ starts < 2 /\ (starts = 1 => delay_frames = 0)
    /\ cycle_count < StatTick /\ wram_bank = vram_bank + 1
    /\ starts' = starts + 1
    /\ \E data \in IF starts = 0 THEN 0..2 * DisabledBit - 1 ELSE {2 * DisabledBit - 1} :
          WriteHdma5(data) /\ Follow(Plan(data))
DmaSetup ==
    /\ starts = 0
    /\ \/ FirstMoment /\ memory = [c \in Cells |-> c] /\ SetupWrite
       \/ source = Unset /\ destination = Unset /\ MemoryWrite
    /\ UNCHANGED <<starts, plan>>
DmaScreen ==
    /\ IF lcdc_on THEN starts = 0 /\ Prepared /\ FirstMoment /\ WriteLcdc(FALSE)
                  ELSE WriteLcdc(TRUE)
    /\ UNCHANGED <<dma_vars, starts, plan>>

\* The vertical blank is dispatched at once.
Dispatch == ClearInterruptFlag("lcd_vblank")

Urgent == "lcd_vblank" \in interrupt_flags => Dispatch

MCInit ==
    /\ DmaInit
    /\ scene \in {"frames", "stat", "dma"}
    /\ drawn = IF Cgb THEN ScreenHeight ELSE 0
    /\ undisturbed = TRUE
    /\ ly_written = FALSE
    /\ unrecorded = FALSE
    /\ starts = 0
    /\ plan = None

Others == UNCHANGED <<dma_vars, starts, plan, scene>>
PictureNext == scene # "dma" /\ Next /\ Urgent /\ (Frames \/ Stat) /\ Others
TransferNext ==
    /\ scene = "dma"
    /\ \/ Dispatch /\ UNCHANGED <<dma_vars, starts, plan>>
       \/ /\ interrupt_flags = {}
          /\ DmaTick \/ DmaStart \/ DmaSetup \/ DmaScreen
    /\ UNCHANGED <<scene, frames, unrecorded>>
MCNext == PictureNext \/ TransferNext
MCSpec == MCInit /\ [][MCNext]_mcvars

\* The main loop goes on: a tick, the dispatch it waits for, or the end of a
\* time with the screen off.
Onward ==
    \/ (Dispatch \/ (SomeTick /\ Urgent)) /\ (Frames \/ Stat) /\ Others
    \/ TransferNext /\ (SomeTick \/ DmaScreen \/ Dispatch)

MCFairSpec ==
    /\ MCSpec
    /\ WF_mcvars(Onward)

\* A frame the program does not restart shows every line of the screen exactly
\* once and in order (ppu.cpp:243-276): no line is skipped or rendered twice,
\* however the instruction lengths fall on the ends of the modes.  Unless the
\* program wrote LY in the vertical blank, the frame begins with LY = 0: the
\* early end of the last line is never missed (ppu.cpp:227-229).
FramesComplete ==
    [][scene = "frames" =>
          /\ undisturbed => /\ Renders => ly = drawn
                            /\ EntersVblank => drawn = ScreenHeight
          /\ BeginsFrame /\ ~ly_written => ly' = 0]_mcvars

\* A tick never interrupts again while the STAT line stays up (ppu.cpp:576-595):
\* neither the mode it leaves nor a comparison that goes on holding was keeping
\* the line up.  Two things break this.  A line that went up by a write to STAT
\* or by switching the screen on is not in the request set.  And the bit of the
\* comparison can be left over: LCDC bit 7 cleared while the screen is about to
\* come on does not stop it, and from then on a write to LYC is not compared
\* (ppu.cpp:415-421, 555-563), so that the bit is a premise of the property only
\* where LY = LYC in fact.
StatInterruptsOnce ==
    [][scene = "stat" /\ SomeTick /\ lcd_enabled /\ RaisesStat /\ ~unrecorded
         => /\ mode \notin enables
            /\ ~("coincidence" \in enables /\ ComparisonHolds /\ coincidence')]_mcvars

\* A transfer by blocks that the program leaves alone ends, and then the video
\* memory holds every block it announced and is otherwise as it was, whether it
\* began inside a horizontal blank, with the screen off or behind a shorter one,
\* and passed the end of the ROM or of the video memory (ppu.cpp:598-615).
TransferDelivers == []<>(plan = None)
=============================================================================
