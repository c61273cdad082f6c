-------------------------------- MODULE Ppu --------------------------------
(***************************************************************************)
(* The timing of the pixel processing unit (gameboy/src/ppu/ppu.cpp): the  *)
(* modes of a line, the lines of a frame, the STAT interrupt line, the LY  *)
(* comparison, and switching the screen on and off.                        *)
(*                                                                         *)
(* Video memory, palettes, the window counter and the DMA transfers are    *)
(* left out: they do not feed back into any of this.  A rendered line is   *)
(* known by its number.  Cycle counts are those of the code; the number of *)
(* lines is a parameter so that a frame can be made short.                 *)
(***************************************************************************)
EXTENDS Integers

CONSTANTS
    ScreenHeight,    \* screen_height, 144
    VblankLines,     \* lines of the vertical blank, 10
    TickCycles,      \* the cycle counts one instruction may take
    LycValues,       \* the values the program writes to LYC
    StatWrites,      \* the interrupt enables the program writes to STAT
    Cgb              \* cartridge::cgb_enabled()

ASSUME HeightAssumption == ScreenHeight \in Nat \ {0}
\* The lines an LY write in the vertical blank can leave LY at are on screen.
ASSUME VblankAssumption == VblankLines \in Nat \ {0} /\ VblankLines <= ScreenHeight
\* LY, an eight-bit register, can count every line.
ASSUME LyAssumption == ScreenHeight + VblankLines <= 256
\* Two clock cycles is the shortest step (a double speed NOP), 44 the longest.
ASSUME TickAssumption == TickCycles \subseteq 2..44
ASSUME LycAssumption == LycValues \subseteq 0..255
ASSUME CgbAssumption == Cgb \in BOOLEAN

VARIABLES
    lcd_enabled, line_rendered, vblank_line,
    delay_frames,       \* lcd_enable_delay_frame_count_
    delay_cycles,       \* lcd_enable_delay_cycle_count_
    cycle_count, secondary_cycle_count,
    lcdc_on,            \* LCDC bit 7
    mode,               \* STAT bits 0-1
    coincidence,        \* STAT bit 2
    enables,            \* STAT bits 3-6, as a set of request types
    ly, lyc,
    interrupt_request,  \* the active requests of the STAT line
    interrupt_flags,    \* the CPU's IF register, as a set of sources
    shown               \* the last step called on_vblank_

counters == <<vblank_line, cycle_count, secondary_cycle_count, line_rendered>>
screen == <<lcd_enabled, delay_frames, delay_cycles>>
vars == <<counters, screen, lcdc_on, mode, coincidence, enables, ly, lyc,
          interrupt_request, interrupt_flags, shown>>

RequestTypes == {"h_blank", "v_blank", "oam", "coincidence"}
ASSUME StatAssumption == StatWrites \subseteq SUBSET RequestTypes

LineCycles == 456
HblankCycles == 204
OamCycles == 80
\* A defect the checks notice: rendering later than the mode may last.
RenderCyclesLate == 176
RenderCycles == 160
VramCycles == 172
VblankCycles == LineCycles * VblankLines
LyMax == ScreenHeight + VblankLines - 1
FrameCycles == LineCycles * (LyMax + 1)
DelayFrames == 3
DelayCycles == 244

-----------------------------------------------------------------------------
\* The STAT line: the requests that hold it, and whether lcd_stat was raised.
Line == [active |-> interrupt_request, raised |-> FALSE]

\* A defect the checks notice: the line is not looked at.
RequestAlways(line, type) ==
    [active |-> line.active \cup {type}, raised |-> TRUE]

\* request_interrupt(type): raises lcd_stat only if nothing holds the line.
Request(line, type) ==
    [active |-> line.active \cup {type},
     raised |-> line.raised \/ line.active = {}]

RequestIfEnabled(line, type) ==
    IF type \in enables THEN Request(line, type) ELSE line

\* reset_interrupt_requests(types)
Release(line, types) == [line EXCEPT !.active = @ \ types]

\* compare_coincidence() when LY has the value y and LYC the value c.
Compare(line, y, c) ==
    IF y = c THEN RequestIfEnabled(line, "coincidence")
             ELSE Release(line, {"coincidence"})

\* The STAT line and the IF register take their new values.
Drive(line, others) ==
    /\ interrupt_request' = line.active
    /\ interrupt_flags' = interrupt_flags \cup others
                              \cup (IF line.raised THEN {"lcd_stat"} ELSE {})

-----------------------------------------------------------------------------
\* reset(); a colour machine starts at the beginning of the vertical blank.
Init ==
    /\ lcd_enabled = TRUE
    /\ line_rendered = FALSE
    /\ vblank_line = 0
    /\ delay_frames = 0
    /\ delay_cycles = 0
    /\ cycle_count = 0
    /\ secondary_cycle_count = 0
    /\ lcdc_on = TRUE
    /\ mode = IF Cgb THEN "v_blank" ELSE "oam"
    /\ coincidence = ~Cgb
    /\ enables = {}
    /\ ly = IF Cgb THEN ScreenHeight ELSE 0
    /\ lyc = 0
    /\ interrupt_request = {}
    /\ interrupt_flags = {}
    /\ shown = FALSE

\* tick() with the screen off and no request to switch it on: the frontend
\* still gets a frame every FrameCycles.
TickOff(cycles) ==
    LET total == cycle_count + cycles
    IN  /\ ~lcd_enabled
        /\ delay_cycles = 0
        /\ shown' = (total >= FrameCycles)
        /\ cycle_count' = IF total >= FrameCycles THEN total - FrameCycles
                                                  ELSE total
        /\ UNCHANGED <<vblank_line, secondary_cycle_count, line_rendered,
                       screen, lcdc_on, mode, coincidence, enables, ly, lyc,
                       interrupt_request, interrupt_flags>>

\* tick() while the screen is about to be switched on.  The code goes on adding
\* to cycle_count_ here, but sets it to zero before anything reads it again: it
\* is zero here from the start.
TickEnabling(cycles) ==
    LET oam  == "oam" \in enables
        line == Compare([active |-> IF oam THEN {"oam"} ELSE {},
                         raised |-> oam], 0, lyc)
    IN  /\ ~lcd_enabled
        /\ delay_cycles > 0
        /\ shown' = FALSE
        /\ IF delay_cycles > cycles
           THEN /\ delay_cycles' = delay_cycles - cycles
                /\ UNCHANGED <<vblank_line, secondary_cycle_count, lcd_enabled, delay_frames, mode,
                               coincidence, ly, interrupt_request,
                               interrupt_flags>>
           ELSE /\ delay_cycles' = 0
                /\ delay_frames' = DelayFrames
                /\ vblank_line' = 0
                /\ ly' = 0
                /\ secondary_cycle_count' = 0
                /\ lcd_enabled' = TRUE
                /\ mode' = "h_blank"
                /\ coincidence' = (lyc = 0)
                /\ Drive(line, {})
        /\ cycle_count' = 0
        /\ UNCHANGED <<line_rendered, lcdc_on, enables, lyc>>

\* tick() in a mode that goes on: only the clock moves.
StaysInMode(total, length) ==
    /\ total < length
    /\ cycle_count' = total
    /\ UNCHANGED <<vblank_line, secondary_cycle_count, screen, mode,
                   coincidence, ly, interrupt_request, interrupt_flags>>

\* Defects the checks notice: frames are withheld for ever after the screen was
\* switched on, the line counter does not inherit the cycles left over.
DelayFramesKept == delay_frames
SecondaryFromZero(rest) == 0

\* The frames still withheld from the frontend after one more.
DelayFramesLeft == IF delay_frames > 0 THEN delay_frames - 1 ELSE 0

\* The line counter starts with the cycles the horizontal blank left over.
SecondaryStart(rest) == rest

\* The end of the horizontal blank, which begins a line or the vertical blank.
TickHblank(cycles) ==
    LET total == cycle_count + cycles
        next  == (ly + 1) % 256
        line1 == Release(Compare(Line, next, lyc), {"v_blank", "oam"})
        last  == next = ScreenHeight
        line2 == RequestIfEnabled(line1, IF last THEN "v_blank" ELSE "oam")
    IN  /\ lcd_enabled
        /\ mode = "h_blank"
        /\ \/ StaysInMode(total, HblankCycles) /\ shown' = FALSE
           \/ /\ total >= HblankCycles
              /\ cycle_count' = total - HblankCycles
              /\ ly' = next
              /\ coincidence' = (next = lyc)
              /\ mode' = IF last THEN "v_blank" ELSE "oam"
              /\ Drive(Release(line2, {"h_blank"}),
                       IF last THEN {"lcd_vblank"} ELSE {})
              /\ IF last
                 THEN /\ secondary_cycle_count' = SecondaryStart(total - HblankCycles)
                      /\ vblank_line' = 0
                      /\ shown' = (delay_frames = 0)
                      /\ delay_frames' = DelayFramesLeft
                 ELSE /\ shown' = FALSE
                      /\ UNCHANGED <<secondary_cycle_count, vblank_line,
                                     delay_frames>>
              /\ UNCHANGED <<lcd_enabled, delay_cycles>>
        /\ UNCHANGED <<line_rendered, lcdc_on, enables, lyc>>

\* A defect the checks notice: LY is left at its maximum.
ClearsLyNever(total, rest, y) == total >= VblankCycles /\ rest >= 4 /\ y = LyMax

\* The line counter moves on.
Wraps(spent) == spent >= LineCycles

\* The last line of the vertical blank is over for LY.
ClearsLy(total, rest, y) ==
    total >= LineCycles * (VblankLines - 1) /\ rest >= 4 /\ y = LyMax

\* A line of the vertical blank.  The last line is cut short: LY goes back to
\* zero four cycles into it.
TickVblank(cycles) ==
    LET total == cycle_count + cycles
        spent == secondary_cycle_count + cycles
        wraps == Wraps(spent)
        rest  == IF wraps THEN spent - LineCycles ELSE spent
        count == IF wraps THEN vblank_line + 1 ELSE vblank_line
        moves == wraps /\ count < VblankLines
        ly1   == IF moves THEN (ly + 1) % 256 ELSE ly
        line1 == IF moves THEN Compare(Line, ly1, lyc) ELSE Line
        clear == ClearsLy(total, rest, ly1)
        ly2   == IF clear THEN 0 ELSE ly1
        line2 == IF clear THEN Compare(line1, 0, lyc) ELSE line1
        ends  == total >= VblankCycles
        line3 == RequestIfEnabled(Release(line2, {"h_blank", "oam"}), "oam")
    IN  /\ lcd_enabled
        /\ mode = "v_blank"
        /\ secondary_cycle_count' = rest
        /\ vblank_line' = count
        /\ ly' = ly2
        /\ coincidence' = IF moves \/ clear THEN ly2 = lyc ELSE coincidence
        /\ cycle_count' = IF ends THEN total - VblankCycles ELSE total
        /\ mode' = IF ends THEN "oam" ELSE "v_blank"
        /\ Drive(IF ends THEN Release(line3, {"v_blank"}) ELSE line2, {})
        /\ shown' = FALSE
        /\ UNCHANGED <<line_rendered, screen, lcdc_on, enables, lyc>>

TickOam(cycles) ==
    LET total == cycle_count + cycles
    IN  /\ lcd_enabled
        /\ mode = "oam"
        /\ \/ StaysInMode(total, OamCycles) /\ UNCHANGED line_rendered
           \/ /\ total >= OamCycles
              /\ cycle_count' = total - OamCycles
              /\ mode' = "vram"
              /\ line_rendered' = FALSE
              /\ Drive(Release(Line, {"h_blank", "v_blank", "oam"}), {})
              /\ UNCHANGED <<vblank_line, secondary_cycle_count, screen,
                             coincidence, ly>>
        /\ shown' = FALSE
        /\ UNCHANGED <<lcdc_on, enables, lyc>>

\* The line is rendered at the first tick past RenderCycles.
TickVram(cycles) ==
    LET total == cycle_count + cycles
        line  == Release(Line, {"h_blank", "v_blank", "oam"})
    IN  /\ lcd_enabled
        /\ mode = "vram"
        /\ line_rendered' = (line_rendered \/ total >= RenderCycles)
        /\ \/ StaysInMode(total, VramCycles)
           \/ /\ total >= VramCycles
              /\ cycle_count' = total - VramCycles
              /\ mode' = "h_blank"
              /\ Drive(RequestIfEnabled(line, "h_blank"), {})
              /\ UNCHANGED <<vblank_line, secondary_cycle_count, screen,
                             coincidence, ly>>
        /\ shown' = FALSE
        /\ UNCHANGED <<lcdc_on, enables, lyc>>

Tick(cycles) ==
    \/ TickOff(cycles)
    \/ TickEnabling(cycles)
    \/ TickHblank(cycles)
    \/ TickVblank(cycles)
    \/ TickOam(cycles)
    \/ TickVram(cycles)

-----------------------------------------------------------------------------
\* A defect the checks notice: nothing starts the delay.
DelayUnarmed == delay_cycles
\* The delay before the screen comes on starts, or starts again.
DelayArmed == IF lcd_enabled THEN delay_cycles ELSE DelayCycles

\* LCDC write: bit 7 set asks for the screen, bit 7 clear switches it off at
\* once (disable_screen), whatever else is under way.
WriteLcdc(on) ==
    /\ lcdc_on' = on
    /\ shown' = FALSE
    /\ IF on
       THEN /\ delay_cycles' = DelayArmed
            /\ UNCHANGED <<lcd_enabled, mode, interrupt_request, cycle_count,
                           secondary_cycle_count, ly>>
       ELSE /\ lcd_enabled' = FALSE
            /\ mode' = "h_blank"
            /\ interrupt_request' = {}
            /\ cycle_count' = 0
            /\ secondary_cycle_count' = 0
            /\ ly' = 0
            /\ UNCHANGED delay_cycles
    /\ UNCHANGED <<vblank_line, line_rendered, delay_frames, coincidence,
                   enables, lyc, interrupt_flags>>

\* STAT write.  The request for the current mode is made on a copy of the
\* active requests that is thrown away; only compare_coincidence is recorded.
WriteStat(new) ==
    LET kept  == [active |-> interrupt_request \cap new, raised |-> FALSE]
        now   == mode # "vram" /\ mode \in new /\ kept.active = {}
        line  == IF ly = lyc
                 THEN IF "coincidence" \in new THEN Request(kept, "coincidence")
                                               ELSE kept
                 ELSE Release(kept, {"coincidence"})
    IN  /\ enables' = new
        /\ shown' = FALSE
        /\ IF lcdc_on
           THEN /\ Drive([line EXCEPT !.raised = @ \/ now], {})
                /\ coincidence' = (ly = lyc)
           ELSE Drive(kept, {}) /\ UNCHANGED coincidence
        /\ UNCHANGED <<counters, screen, lcdc_on, mode, ly, lyc>>

\* LY write: set_ly(0), in any mode.
WriteLy ==
    /\ ly' = 0
    /\ coincidence' = (lyc = 0)
    /\ Drive(Compare(Line, 0, lyc), {})
    /\ shown' = FALSE
    /\ UNCHANGED <<counters, screen, lcdc_on, mode, enables, lyc>>

\* LYC write: set_lyc
WriteLyc(value) ==
    /\ lyc' = value
    /\ shown' = FALSE
    /\ IF value # lyc /\ lcdc_on
       THEN /\ coincidence' = (ly = value)
            /\ Drive(Compare(Line, ly, value), {})
       ELSE UNCHANGED <<coincidence, interrupt_request, interrupt_flags>>
    /\ UNCHANGED <<counters, screen, lcdc_on, mode, enables, ly>>

\* The CPU dispatches an interrupt, or the program clears its flag.
ClearInterruptFlag(source) ==
    /\ source \in interrupt_flags
    /\ interrupt_flags' = interrupt_flags \ {source}
    /\ shown' = FALSE
    /\ UNCHANGED <<counters, screen, lcdc_on, mode, coincidence, enables, ly,
                   lyc, interrupt_request>>

SomeTick == \E cycles \in TickCycles : Tick(cycles)

RegisterWrite ==
    \/ \E on \in BOOLEAN : WriteLcdc(on)
    \/ \E new \in StatWrites : WriteStat(new)
    \/ WriteLy
    \/ \E value \in LycValues : WriteLyc(value)

Next ==
    \/ SomeTick
    \/ RegisterWrite
    \/ \E source \in {"lcd_vblank", "lcd_stat"} : ClearInterruptFlag(source)

Spec == Init /\ [][Next]_vars

\* gameboy::tick calls ppu::tick after every instruction.
FairSpec == Spec /\ WF_vars(SomeTick)

-----------------------------------------------------------------------------
Ly == 0..255

\* Type invariant of the timing members of class ppu (ppu.h).
TypeOK ==
    /\ lcd_enabled \in BOOLEAN
    /\ line_rendered \in BOOLEAN
    /\ vblank_line \in 0..VblankLines
    /\ delay_frames \in 0..DelayFrames
    /\ delay_cycles \in 0..DelayCycles
    /\ cycle_count \in 0..FrameCycles
    /\ secondary_cycle_count \in 0..LineCycles - 1
    /\ lcdc_on \in BOOLEAN
    /\ mode \in {"h_blank", "v_blank", "oam", "vram"}
    /\ coincidence \in BOOLEAN
    /\ enables \subseteq RequestTypes
    /\ ly \in Ly
    /\ lyc \in Ly
    /\ interrupt_request \subseteq RequestTypes
    /\ interrupt_flags \subseteq {"lcd_vblank", "lcd_stat"}
    /\ shown \in BOOLEAN

\* Outside the vertical blank LY names a line of the screen.  The end of the
\* horizontal blank looks for LY = screen_height only (ppu.cpp:188), and
\* render() hands LY to the frontend as a pixel row (ppu.cpp:670): a frame that
\* began past the last line would count LY through 255 and draw off screen.
LineOnScreen == mode # "v_blank" => ly < ScreenHeight

\* The two clocks of the vertical blank agree: cycle_count_, which ends it, and
\* the line counter, which numbers its lines (ppu.cpp:215-242).  LY is the line
\* the clocks say, unless it has already been set back.
VblankClocksAgree ==
    mode = "v_blank" =>
        /\ vblank_line < VblankLines
        /\ cycle_count = LineCycles * vblank_line + secondary_cycle_count
        /\ ly = ScreenHeight + vblank_line \/ ly <= vblank_line

\* A screen that is asked for comes on, whatever else the program does, as long
\* as it does not write LCDC again (ppu.cpp:136-163, 415-421).
ScreenComesOn ==
    (<>[]lcdc_on /\ <>[][~\E on \in BOOLEAN : WriteLcdc(on)]_vars)
        => <>[]lcd_enabled

\* The frontend goes on getting frames, with the screen on or off, as long as
\* the program stops restarting them (ppu.cpp:160-163, 200-204).
FramesGoOn ==
    <>[][~WriteLy /\ ~\E on \in BOOLEAN : WriteLcdc(on)]_vars => []<>shown
=============================================================================
