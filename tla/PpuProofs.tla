----------------------------- MODULE PpuProofs -----------------------------
(***************************************************************************)
(* Proofs about Ppu, and about the frames and the STAT line of MCPpu, for  *)
(* every screen height, every length of the vertical blank and every set   *)
(* of instruction lengths.                                                 *)
(***************************************************************************)
EXTENDS MCPpu, TLAPS

\* How far the clock of a mode can be: a mode ends at the first tick past its
\* length, so at most the cycles of one instruction are carried over.
ClockInMode ==
    /\ ~lcd_enabled => mode = "h_blank"
    /\ lcd_enabled /\ mode = "h_blank" => cycle_count < HblankCycles
    /\ ~lcd_enabled => cycle_count < FrameCycles
    /\ mode = "oam" => cycle_count < OamCycles
    /\ mode = "vram" => cycle_count < VramCycles

\* LY does not stay at its maximum: the next ticks of the last line clear it.
MaxIsBrief == mode = "v_blank" /\ ly = LyMax => secondary_cycle_count < 44

\* The inductive invariant.
IInv == TypeOK /\ LineOnScreen /\ VblankClocksAgree /\ ClockInMode /\ MaxIsBrief

Lengths == LineCycles = 456 /\ HblankCycles = 204 /\ OamCycles = 80
               /\ VramCycles = 172 /\ DelayFrames = 3 /\ DelayCycles = 244
               /\ VblankCycles = 456 * VblankLines
               /\ FrameCycles = 456 * (ScreenHeight + VblankLines)
               /\ LyMax = ScreenHeight + VblankLines - 1

\* The lengths of the code, spelled out.
LEMMA LengthsHold == Lengths
BY HeightAssumption, VblankAssumption
   DEF Lengths, LineCycles, HblankCycles, OamCycles, VramCycles, DelayFrames,
       DelayCycles, VblankCycles, FrameCycles, LyMax

\* The sizes of the constants the proofs use.
LEMMA Sizes ==
    /\ ScreenHeight \in Nat /\ ScreenHeight > 0
    /\ VblankLines \in Nat /\ VblankLines > 0 /\ VblankLines <= ScreenHeight
    /\ ScreenHeight + VblankLines <= 256
BY HeightAssumption, VblankAssumption, LyAssumption

\* The type invariant in two parts, the flags and the rest.
Flags ==
    /\ lcd_enabled \in BOOLEAN /\ line_rendered \in BOOLEAN /\ lcdc_on \in BOOLEAN
    /\ coincidence \in BOOLEAN /\ shown \in BOOLEAN
Registers ==
    /\ vblank_line \in 0..VblankLines
    /\ delay_frames \in 0..DelayFrames
    /\ delay_cycles \in 0..DelayCycles
    /\ cycle_count \in 0..FrameCycles
    /\ secondary_cycle_count \in 0..LineCycles - 1
    /\ mode \in {"h_blank", "v_blank", "oam", "vram"}
    /\ enables \subseteq RequestTypes
    /\ ly \in Ly
    /\ lyc \in Ly
    /\ interrupt_request \subseteq RequestTypes
    /\ interrupt_flags \subseteq {"lcd_vblank", "lcd_stat"}

LEMMA TypeParts == (TypeOK => Flags /\ Registers) /\ (Flags' /\ Registers' => TypeOK')
BY DEF TypeOK, Flags, Registers

\* The clock of the vertical blank at its first line, and at the next one.
LEMMA SumOfLines ==
    /\ \A n, s, c \in Int : n = 0 /\ s = c => c = LineCycles * n + s
    /\ \A n, s, c, d \in Int :
           c = LineCycles * n + s => c + d = LineCycles * n + (s + d)
    /\ \A n, s, c \in Int :
           c = LineCycles * n + s => c = LineCycles * (n + 1) + (s - LineCycles)
BY DEF LineCycles

LineType == [active : SUBSET RequestTypes, raised : BOOLEAN]

\* The operations on the STAT line keep its type.
LEMMA LineTyped ==
    ASSUME TypeOK
    PROVE  /\ Line \in LineType
           /\ \A line \in LineType, type \in RequestTypes :
                  /\ Request(line, type) \in LineType
                  /\ RequestIfEnabled(line, type) \in LineType
           /\ \A line \in LineType, types \in SUBSET RequestTypes :
                  Release(line, types) \in LineType
           /\ \A line \in LineType : \A y, c : Compare(line, y, c) \in LineType
<1>1. Line \in LineType
  BY DEF TypeOK, Line, LineType
<1>2. ASSUME NEW line \in LineType, NEW type \in RequestTypes
      PROVE  Request(line, type) \in LineType /\ RequestIfEnabled(line, type) \in LineType
  <2>1. (line.raised \/ line.active = {}) \in BOOLEAN
    OBVIOUS
  <2>2. Request(line, type) \in LineType
    BY <2>1 DEF LineType, Request
  <2> QED
    BY <2>2 DEF RequestIfEnabled
<1>3. ASSUME NEW line \in LineType, NEW types \in SUBSET RequestTypes
      PROVE  Release(line, types) \in LineType
  BY DEF LineType, Release
<1>4. ASSUME NEW line \in LineType, NEW y, NEW c
      PROVE  Compare(line, y, c) \in LineType
  <2>1. "coincidence" \in RequestTypes
    BY DEF RequestTypes
  <2> QED
    BY <1>2, <1>3, <2>1 DEF Compare
<1> QED
  BY <1>1, <1>2, <1>3, <1>4

\* Driving the STAT line keeps the types of the two interrupt registers.
LEMMA DriveTyped ==
    ASSUME TypeOK, NEW line \in LineType, NEW others \in SUBSET {"lcd_vblank"},
           Drive(line, others)
    PROVE  /\ interrupt_request' \subseteq RequestTypes
           /\ interrupt_flags' \subseteq {"lcd_vblank", "lcd_stat"}
<1>1. line.active \subseteq RequestTypes
  BY DEF LineType
<1> QED
  BY <1>1, Zenon DEF TypeOK, Drive

LEMMA InitIInv == Init => IInv
<1> SUFFICES ASSUME Init PROVE IInv
  OBVIOUS
<1> USE Sizes, LengthsHold DEF Lengths
<1>1. /\ lcd_enabled \in BOOLEAN /\ line_rendered \in BOOLEAN
      /\ lcdc_on \in BOOLEAN /\ coincidence \in BOOLEAN /\ shown \in BOOLEAN
      /\ enables \subseteq RequestTypes /\ interrupt_request \subseteq RequestTypes
      /\ interrupt_flags \subseteq {"lcd_vblank", "lcd_stat"}
  BY CgbAssumption, Zenon DEF Init
<1>2. mode \in {"h_blank", "v_blank", "oam", "vram"} /\ ly \in Ly /\ lyc \in Ly
  BY DEF Init, Ly
<1>3. TypeOK
  BY <1>1, <1>2 DEF Init, TypeOK
<1>4. LineOnScreen /\ VblankClocksAgree /\ ClockInMode /\ MaxIsBrief
  BY DEF Init, LineOnScreen, VblankClocksAgree, ClockInMode, MaxIsBrief
<1> QED
  BY <1>3, <1>4 DEF IInv

\* A step that leaves the clocks, the mode, LY and the screen alone can only
\* disturb the types of the other members.
LEMMA QuietIInv ==
    ASSUME IInv, UNCHANGED <<counters, lcd_enabled, mode, ly>>,
           delay_frames' \in 0..DelayFrames, delay_cycles' \in 0..DelayCycles,
           lcdc_on' \in BOOLEAN, coincidence' \in BOOLEAN, shown' \in BOOLEAN,
           enables' \subseteq RequestTypes, lyc' \in Ly,
           interrupt_request' \subseteq RequestTypes,
           interrupt_flags' \subseteq {"lcd_vblank", "lcd_stat"}
    PROVE  IInv'
BY DEF IInv, TypeOK, LineOnScreen, VblankClocksAgree, ClockInMode, MaxIsBrief,
       counters, Ly

\* A tick that stays in its mode moves the clock and nothing else.
LEMMA StaysIInv ==
    ASSUME IInv, lcd_enabled, mode # "v_blank", NEW total \in Nat, NEW length,
           StaysInMode(total, length),
           length = CASE mode = "h_blank" -> HblankCycles
                      [] mode = "oam" -> OamCycles
                      [] mode = "vram" -> VramCycles,
           line_rendered' \in BOOLEAN, shown' \in BOOLEAN,
           UNCHANGED <<lcdc_on, enables, lyc>>
    PROVE  IInv'
<1> USE Sizes, LengthsHold DEF Lengths
<1>1. mode \in {"h_blank", "oam", "vram"}
  BY DEF IInv, TypeOK
<1>2. /\ total < length
      /\ cycle_count' = total
      /\ UNCHANGED <<vblank_line, secondary_cycle_count, screen, mode,
                     coincidence, ly, interrupt_request, interrupt_flags>>
  BY DEF StaysInMode
<1>3. /\ mode = "h_blank" => total < HblankCycles
      /\ mode = "oam" => total < OamCycles
      /\ mode = "vram" => total < VramCycles
  BY <1>1, <1>2
<1>4. total \in 0..FrameCycles
  BY <1>1, <1>3
<1>5. TypeOK'
  BY <1>2, <1>4 DEF IInv, TypeOK, screen
<1> QED
  BY <1>1, <1>2, <1>3, <1>5
     DEF IInv, LineOnScreen, VblankClocksAgree, ClockInMode, MaxIsBrief, screen

LEMMA TickOffIInv ==
    ASSUME IInv, NEW cycles \in TickCycles, TickOff(cycles)
    PROVE  IInv'
<1> USE Sizes, LengthsHold DEF Lengths
<1>1. cycles \in 2..44
  BY TickAssumption
<1>2. cycle_count \in Nat /\ cycle_count < FrameCycles
  BY DEF IInv, TypeOK, ClockInMode, TickOff
<1>3. /\ cycle_count' \in 0..FrameCycles
      /\ cycle_count' < FrameCycles
  BY <1>1, <1>2 DEF TickOff
<1>4. shown' \in BOOLEAN
  BY DEF TickOff
<1>5. UNCHANGED <<vblank_line, secondary_cycle_count, line_rendered, screen,
                 lcdc_on, mode, coincidence, enables, ly, lyc,
                 interrupt_request, interrupt_flags>>
  BY DEF TickOff
<1>6. TypeOK'
  BY <1>3, <1>4, <1>5 DEF IInv, TypeOK, screen, Ly
<1>7. ~lcd_enabled /\ mode = "h_blank"
  BY DEF IInv, ClockInMode, TickOff
<1> QED
  BY <1>3, <1>5, <1>6, <1>7
     DEF IInv, LineOnScreen, VblankClocksAgree, ClockInMode, MaxIsBrief, screen

LEMMA TickEnablingIInv ==
    ASSUME IInv, NEW cycles \in TickCycles, TickEnabling(cycles)
    PROVE  IInv'
<1> USE Sizes, LengthsHold DEF Lengths
<1> DEFINE oam  == "oam" \in enables
           line == Compare([active |-> IF oam THEN {"oam"} ELSE {},
                            raised |-> oam], 0, lyc)
<1>1. cycles \in 2..44
  BY TickAssumption
<1>2. ~lcd_enabled /\ mode = "h_blank" /\ TypeOK
  BY DEF IInv, ClockInMode, TickEnabling
<1>3. line \in LineType
  <2>1. [active |-> IF oam THEN {"oam"} ELSE {}, raised |-> oam] \in LineType
    BY DEF LineType, RequestTypes
  <2> QED
    BY <1>2, <2>1, LineTyped
<1>4. /\ cycle_count' = 0
      /\ shown' = FALSE
      /\ UNCHANGED <<line_rendered, lcdc_on, enables, lyc>>
  BY DEF TickEnabling
<1>5. CASE delay_cycles > cycles
  <2>1. /\ delay_cycles' = delay_cycles - cycles
        /\ UNCHANGED <<vblank_line, secondary_cycle_count, lcd_enabled,
                       delay_frames, mode, coincidence, ly, interrupt_request,
                       interrupt_flags>>
    BY <1>5 DEF TickEnabling
  <2>2. delay_cycles' \in 0..DelayCycles
    BY <1>1, <1>2, <1>5, <2>1 DEF TypeOK
  <2>3. Flags'
    BY <1>2, <1>4, <2>1, TypeParts, Zenon DEF Flags
  <2>4. Registers'
    BY <1>2, <1>4, <2>1, <2>2, TypeParts DEF Registers, Ly
  <2>5. TypeOK'
    BY <2>3, <2>4, TypeParts
  <2> QED
    BY <1>2, <1>4, <2>1, <2>5
       DEF IInv, LineOnScreen, VblankClocksAgree, ClockInMode, MaxIsBrief
<1>6. CASE ~(delay_cycles > cycles)
  <2>1. /\ delay_cycles' = 0
        /\ delay_frames' = DelayFrames
        /\ vblank_line' = 0
        /\ ly' = 0
        /\ secondary_cycle_count' = 0
        /\ lcd_enabled' = TRUE
        /\ mode' = "h_blank"
        /\ coincidence' = (lyc = 0)
        /\ Drive(line, {})
    BY <1>6 DEF TickEnabling
  <2>2. /\ interrupt_request' \subseteq RequestTypes
        /\ interrupt_flags' \subseteq {"lcd_vblank", "lcd_stat"}
    BY <1>2, <1>3, <2>1, DriveTyped
  <2>3. coincidence' \in BOOLEAN /\ lcd_enabled' \in BOOLEAN
    BY <2>1, Zenon
  <2>4. Flags'
    BY <1>2, <1>4, <2>3, TypeParts, Zenon DEF Flags
  <2>5. Registers'
    BY <1>2, <1>4, <2>1, <2>2, TypeParts DEF Registers, Ly
  <2>6. TypeOK'
    BY <2>4, <2>5, TypeParts
  <2> QED
    BY <1>4, <2>1, <2>6
       DEF IInv, LineOnScreen, VblankClocksAgree, ClockInMode, MaxIsBrief
<1> QED
  BY <1>5, <1>6

\* The end of the horizontal blank: LY names the next line of the screen, or the
\* vertical blank begins with both clocks at the cycles left over.
LEMMA TickHblankIInv ==
    ASSUME IInv, NEW cycles \in TickCycles, TickHblank(cycles)
    PROVE  IInv'
<1> USE Sizes, LengthsHold DEF Lengths
<1> DEFINE total == cycle_count + cycles
           next  == (ly + 1) % 256
           line1 == Release(Compare(Line, next, lyc), {"v_blank", "oam"})
           last  == next = ScreenHeight
           line2 == RequestIfEnabled(line1, IF last THEN "v_blank" ELSE "oam")
           line3 == Release(line2, {"h_blank"})
           other == IF last THEN {"lcd_vblank"} ELSE {}
<1>1. cycles \in 2..44
  BY TickAssumption
<1>2. TypeOK /\ lcd_enabled /\ mode = "h_blank" /\ ly < ScreenHeight
  BY DEF IInv, LineOnScreen, TickHblank
<1>3. total \in Nat /\ total < HblankCycles + 44
  BY <1>1, <1>2 DEF IInv, TypeOK, ClockInMode
<1>4. next = ly + 1
  BY <1>2 DEF TypeOK, Ly
<1>5. UNCHANGED <<line_rendered, lcdc_on, enables, lyc>>
  BY DEF TickHblank
<1>6. CASE StaysInMode(total, HblankCycles) /\ shown' = FALSE
  <2>1. line_rendered' \in BOOLEAN /\ shown' \in BOOLEAN
    BY <1>2, <1>5, <1>6, TypeParts, Zenon DEF Flags
  <2> QED
    BY <1>2, <1>3, <1>5, <1>6, <2>1, StaysIInv
<1>7. CASE ~StaysInMode(total, HblankCycles)
  <2>1. /\ total >= HblankCycles
        /\ cycle_count' = total - HblankCycles
        /\ ly' = next
        /\ coincidence' = (next = lyc)
        /\ mode' = IF last THEN "v_blank" ELSE "oam"
        /\ Drive(line3, other)
        /\ IF last
           THEN /\ secondary_cycle_count' = total - HblankCycles
                /\ vblank_line' = 0
                /\ shown' = (delay_frames = 0)
                /\ delay_frames' = DelayFramesLeft
           ELSE /\ shown' = FALSE
                /\ UNCHANGED <<secondary_cycle_count, vblank_line, delay_frames>>
        /\ UNCHANGED <<lcd_enabled, delay_cycles>>
    BY <1>7 DEF TickHblank, SecondaryStart
  <2>2. /\ interrupt_request' \subseteq RequestTypes
        /\ interrupt_flags' \subseteq {"lcd_vblank", "lcd_stat"}
    <3>1. line1 \in LineType
      BY <1>2, LineTyped DEF RequestTypes
    <3>2. line2 \in LineType
      BY <1>2, <3>1, LineTyped DEF RequestTypes
    <3>3. line3 \in LineType
      BY <1>2, <3>2, LineTyped DEF RequestTypes
    <3> QED
      BY <1>2, <2>1, <3>3, DriveTyped
  <2>3. Flags'
    <3>1. shown' \in BOOLEAN /\ coincidence' \in BOOLEAN
      BY <2>1, Zenon
    <3> QED
      BY <1>2, <1>5, <2>1, <3>1, TypeParts, Zenon DEF Flags
  <2> HIDE DEF total, next, line3, other
  <2>4. Registers'
    <3>1. Registers
      BY <1>2, TypeParts
    <3>2. ly' \in Ly /\ lyc' \in Ly
      BY <1>2, <1>4, <1>5, <2>1, <3>1 DEF Registers, Ly
    <3>3. cycle_count' \in 0..43 /\ cycle_count' \in 0..FrameCycles
      BY <1>3, <2>1
    <3>4. /\ secondary_cycle_count' \in 0..LineCycles - 1
          /\ vblank_line' \in 0..VblankLines
          /\ delay_frames' \in 0..DelayFrames
      BY <1>3, <2>1, <3>1 DEF Registers, DelayFramesLeft
    <3>5. /\ delay_cycles' \in 0..DelayCycles
          /\ enables' \subseteq RequestTypes
          /\ mode' \in {"h_blank", "v_blank", "oam", "vram"}
      BY <1>5, <2>1, <3>1 DEF Registers
    <3> QED
      BY <2>2, <3>2, <3>3, <3>4, <3>5 DEF Registers
  <2>5. TypeOK'
    BY <2>3, <2>4, TypeParts
  <2>6. CASE last
    <3>1. /\ mode' = "v_blank" /\ ly' = ScreenHeight /\ vblank_line' = 0
          /\ secondary_cycle_count' = cycle_count' /\ cycle_count' < 44
          /\ cycle_count' \in Nat /\ lcd_enabled'
      BY <1>2, <1>3, <2>1, <2>6
    <3>2. VblankClocksAgree'
      <4>1. PICK n, rest \in Int : /\ vblank_line' = n /\ n = 0
                                  /\ secondary_cycle_count' = rest
                                  /\ cycle_count' = rest
        BY <3>1
      <4>2. rest = LineCycles * n + rest
        BY <4>1, SumOfLines
      <4> QED
        BY <3>1, <4>1, <4>2 DEF VblankClocksAgree
    <3>3. LineOnScreen' /\ ClockInMode' /\ MaxIsBrief'
      BY <3>1 DEF LineOnScreen, ClockInMode, MaxIsBrief
    <3> QED
      BY <2>5, <3>2, <3>3 DEF IInv
  <2>7. CASE ~last
    <3>1. ly' < ScreenHeight
      BY <1>2, <1>4, <2>1, <2>7 DEF TypeOK, Ly, next
    <3>2. mode' = "oam" /\ cycle_count' < 44 /\ cycle_count' \in Nat /\ lcd_enabled'
      BY <1>2, <1>3, <2>1, <2>7
    <3> QED
      BY <2>5, <3>1, <3>2
         DEF IInv, LineOnScreen, VblankClocksAgree, ClockInMode, MaxIsBrief
  <2> QED
    BY <2>6, <2>7
<1> QED
  BY <1>6, <1>7 DEF TickHblank, StaysInMode

\* The line counter after c cycles, the lines it has counted, and LY.
RestAt(s, c) == IF s + c >= 456 THEN s + c - 456 ELSE s + c
CountAt(v, s, c) == IF s + c >= 456 THEN v + 1 ELSE v
LyAt(v, s, y, c) ==
    IF s + c >= 456 /\ CountAt(v, s, c) < VblankLines THEN (y + 1) % 256 ELSE y

\* A line of the vertical blank.
LEMMA TickVblankIInv ==
    ASSUME IInv, NEW cycles \in TickCycles, TickVblank(cycles)
    PROVE  IInv'
<1> USE Sizes, LengthsHold DEF Lengths
<1> DEFINE total == cycle_count + cycles
           spent == secondary_cycle_count + cycles
           wraps == Wraps(spent)
           rest  == IF wraps THEN spent - LineCycles ELSE spent
           count == IF wraps THEN vblank_line + 1 ELSE vblank_line
           moves == wraps /\ count < VblankLines
           ly1   == IF moves THEN (ly + 1) % 256 ELSE ly
           line1 == IF moves THEN Compare(Line, ly1, lyc) ELSE Line
           clear == ClearsLy(total, rest, ly1)
           ly2   == IF clear THEN 0 ELSE ly1
           line2 == IF clear THEN Compare(line1, 0, lyc) ELSE line1
           ends  == total >= VblankCycles
           line3 == RequestIfEnabled(Release(line2, {"h_blank", "oam"}), "oam")
           line4 == IF ends THEN Release(line3, {"v_blank"}) ELSE line2
<1>1. cycles \in 2..44
  BY TickAssumption
<1>2. TypeOK /\ lcd_enabled /\ mode = "v_blank" /\ VblankClocksAgree /\ MaxIsBrief
  BY DEF IInv, TickVblank
<1>3. /\ secondary_cycle_count' = rest
      /\ vblank_line' = count
      /\ ly' = ly2
      /\ coincidence' = IF moves \/ clear THEN ly2 = lyc ELSE coincidence
      /\ cycle_count' = IF ends THEN total - VblankCycles ELSE total
      /\ mode' = IF ends THEN "oam" ELSE "v_blank"
      /\ Drive(line4, {})
      /\ shown' = FALSE
      /\ UNCHANGED <<line_rendered, screen, lcdc_on, enables, lyc>>
  BY DEF TickVblank
<1>4. /\ interrupt_request' \subseteq RequestTypes
      /\ interrupt_flags' \subseteq {"lcd_vblank", "lcd_stat"}
  <2>1. line1 \in LineType
    BY <1>2, LineTyped
  <2>2. line2 \in LineType
    BY <1>2, <2>1, LineTyped
  <2>3. Release(line2, {"h_blank", "oam"}) \in LineType
    BY <1>2, <2>2, LineTyped DEF RequestTypes
  <2>4. line3 \in LineType
    BY <1>2, <2>3, LineTyped DEF RequestTypes
  <2>5. line4 \in LineType
    BY <1>2, <2>2, <2>4, LineTyped DEF RequestTypes
  <2> QED
    BY <1>2, <1>3, <2>5, DriveTyped
<1>5. Flags'
  <2>1. Flags
    BY <1>2, TypeParts
  <2>2. coincidence' \in BOOLEAN
    <3>1. (ly2 = lyc) \in BOOLEAN
      OBVIOUS
    <3> HIDE DEF ly2, moves, clear
    <3> QED
      BY <1>3, <2>1, <3>1, Zenon DEF Flags
  <2>3. shown' \in BOOLEAN
    BY <1>3, Zenon
  <2> QED
    BY <1>3, <2>1, <2>2, <2>3, Zenon DEF Flags, screen
<1>6. /\ rest \in 0..455 /\ count \in 0..VblankLines /\ ly1 \in 0..255
      /\ total = 456 * count + rest
      /\ total >= 456 * VblankLines =>
             total - 456 * VblankLines \in 0..43 /\ ly1 < ScreenHeight
      /\ total < 456 * VblankLines =>
             count < VblankLines /\ (ly1 = ScreenHeight + count \/ ly1 <= count)
  <2>1. /\ vblank_line \in Nat /\ secondary_cycle_count \in 0..455
        /\ ly \in 0..255 /\ cycle_count \in Nat
    BY <1>2 DEF TypeOK, Ly
  <2>2. /\ vblank_line < VblankLines
        /\ total = 456 * vblank_line + (secondary_cycle_count + cycles)
        /\ ly = ScreenHeight + vblank_line \/ ly <= vblank_line
        /\ ly = ScreenHeight + VblankLines - 1 => secondary_cycle_count < 44
    BY <1>1, <1>2, <2>1 DEF VblankClocksAgree, MaxIsBrief
  <2>3. wraps <=> secondary_cycle_count + cycles >= 456
    BY DEF Wraps
  <2> HIDE DEF wraps
  <2>4. /\ rest = RestAt(secondary_cycle_count, cycles)
        /\ count = CountAt(vblank_line, secondary_cycle_count, cycles)
    <3>1. CASE wraps
      BY <1>1, <2>1, <2>3, <3>1 DEF RestAt, CountAt
    <3>2. CASE ~wraps
      BY <1>1, <2>1, <2>3, <3>2 DEF RestAt, CountAt
    <3> QED
      BY <3>1, <3>2
  <2>5. ly1 = LyAt(vblank_line, secondary_cycle_count, ly, cycles)
    <3>1. CASE wraps
      BY <2>3, <2>4, <3>1 DEF LyAt
    <3>2. CASE ~wraps
      BY <2>3, <2>4, <3>2 DEF LyAt
    <3> QED
      BY <3>1, <3>2
  <2>8. PICK v \in Nat, s \in 0..455, y \in 0..255 :
            v = vblank_line /\ s = secondary_cycle_count /\ y = ly
    BY <2>1
  <2> DEFINE r == RestAt(s, cycles)
             n == CountAt(v, s, cycles)
             z == LyAt(v, s, y, cycles)
             t == 456 * v + (s + cycles)
  <2>6. /\ r \in 0..455 /\ n \in 0..VblankLines /\ z \in 0..255
        /\ t = 456 * n + r
        /\ t >= 456 * VblankLines =>
               t - 456 * VblankLines \in 0..43 /\ z < ScreenHeight
        /\ t < 456 * VblankLines =>
               n < VblankLines /\ (z = ScreenHeight + n \/ z <= n)
    <3>1. /\ v < VblankLines /\ (y = ScreenHeight + v \/ y <= v)
          /\ y = ScreenHeight + VblankLines - 1 => s < 44
      BY <2>2, <2>8
    <3>2. CASE s + cycles >= 456
      <4>1. /\ r = s + cycles - 456 /\ n = v + 1
            /\ z = IF v + 1 < VblankLines THEN (y + 1) % 256 ELSE y
        BY <1>1, <3>1, <3>2 DEF RestAt, CountAt, LyAt
      <4>2. CASE v + 1 < VblankLines
        <5>1. z = y + 1
          BY <1>1, <3>1, <4>1, <4>2
        <5> QED
          BY <1>1, <3>1, <3>2, <4>1, <4>2, <5>1
      <4>3. CASE ~(v + 1 < VblankLines)
        <5>1. v + 1 = VblankLines /\ z = y /\ y < ScreenHeight
          BY <1>1, <3>1, <3>2, <4>1, <4>3
        <5> QED
          BY <1>1, <3>1, <3>2, <4>1, <5>1
      <4> QED
        BY <4>2, <4>3
    <3>3. CASE ~(s + cycles >= 456)
      <4>1. /\ r = s + cycles /\ n = v
            /\ z = y
        BY <1>1, <3>3 DEF RestAt, CountAt, LyAt
      <4>2. t < 456 * VblankLines
        BY <1>1, <3>1, <3>3
      <4> QED
        BY <1>1, <3>1, <3>3, <4>1, <4>2
    <3> QED
      BY <3>2, <3>3
  <2>7. total = t /\ rest = r /\ count = n /\ ly1 = z
    BY <2>2, <2>4, <2>5, <2>8
  <2> HIDE DEF total, rest, count, ly1, t, r, n, z
  <2> QED
    BY <2>6, <2>7
<1>7. /\ ly2 \in 0..255
      /\ ly1 < ScreenHeight => ly2 < ScreenHeight
      /\ ly1 = ScreenHeight + count \/ ly1 <= count
             => ly2 = ScreenHeight + count \/ ly2 <= count
      /\ count < VblankLines /\ (ly1 = ScreenHeight + count \/ ly1 <= count)
             => (ly2 = LyMax => rest < 44)
  <2>1. clear <=> total >= 456 * (VblankLines - 1) /\ rest >= 4 /\ ly1 = LyMax
    BY DEF ClearsLy
  <2> HIDE DEF clear, total, rest, count, ly1
  <2> QED
    BY <1>6, <2>1
<1> HIDE DEF total, rest, count, ly1, ly2, line4
<1>8. PICK t, r, n, y \in Int :
          /\ t = total /\ r = rest /\ n = count /\ y = ly2
          /\ vblank_line' = n /\ secondary_cycle_count' = r /\ ly' = y
          /\ cycle_count' = IF ends THEN t - VblankCycles ELSE t
  <2>1. total \in Int /\ rest \in Int /\ count \in Int /\ ly2 \in Int
    BY <1>6, <1>7
  <2> QED
    BY <1>3, <2>1
<1>9. lyc' \in Ly /\ enables' \subseteq RequestTypes /\ delay_frames' \in 0..DelayFrames
          /\ delay_cycles' \in 0..DelayCycles /\ lcd_enabled'
  BY <1>2, <1>3, TypeParts DEF Registers, screen
<1>10. CASE ends
  <2>1. /\ cycle_count' \in 0..43 /\ mode' = "oam" /\ ly' \in 0..255
        /\ ly' < ScreenHeight /\ vblank_line' \in 0..VblankLines
        /\ secondary_cycle_count' \in 0..455
    BY <1>3, <1>6, <1>7, <1>8, <1>10
  <2>2. Registers'
    BY <1>4, <1>9, <2>1 DEF Registers, Ly
  <2>3. LineOnScreen' /\ VblankClocksAgree' /\ ClockInMode' /\ MaxIsBrief'
    BY <1>9, <2>1 DEF LineOnScreen, VblankClocksAgree, ClockInMode, MaxIsBrief
  <2> QED
    BY <1>5, <2>2, <2>3, TypeParts DEF IInv
<1>11. CASE ~ends
  <2>1. /\ n \in 0..VblankLines - 1 /\ r \in 0..455 /\ y \in 0..255
        /\ t = 456 * n + r /\ t < 456 * VblankLines /\ t >= 0
        /\ y = ScreenHeight + n \/ y <= n
        /\ y = LyMax => r < 44
    BY <1>1, <1>6, <1>7, <1>8, <1>11
  <2>2. cycle_count' = t /\ mode' = "v_blank"
    BY <1>3, <1>8, <1>11
  <2>3. Registers'
    BY <1>4, <1>8, <1>9, <2>1, <2>2 DEF Registers, Ly
  <2>4. VblankClocksAgree'
    BY <1>8, <2>1, <2>2 DEF VblankClocksAgree
  <2>5. LineOnScreen' /\ ClockInMode' /\ MaxIsBrief'
    BY <1>8, <1>9, <2>1, <2>2 DEF LineOnScreen, ClockInMode, MaxIsBrief
  <2> QED
    BY <1>5, <2>3, <2>4, <2>5, TypeParts DEF IInv
<1> QED
  BY <1>10, <1>11

LEMMA TickOamIInv ==
    ASSUME IInv, NEW cycles \in TickCycles, TickOam(cycles)
    PROVE  IInv'
<1> USE Sizes, LengthsHold DEF Lengths
<1> DEFINE total == cycle_count + cycles
           line  == Release(Line, {"h_blank", "v_blank", "oam"})
<1>1. cycles \in 2..44
  BY TickAssumption
<1>2. TypeOK /\ Flags /\ Registers /\ lcd_enabled /\ mode = "oam"
  BY TypeParts DEF IInv, TickOam
<1>3. total \in Nat /\ total < OamCycles + 44
  BY <1>1, <1>2 DEF IInv, TypeOK, ClockInMode
<1>4. shown' = FALSE /\ UNCHANGED <<lcdc_on, enables, lyc>>
  BY DEF TickOam
<1>5. CASE StaysInMode(total, OamCycles) /\ UNCHANGED line_rendered
  <2>1. line_rendered' \in BOOLEAN /\ shown' \in BOOLEAN
    BY <1>2, <1>4, <1>5, Zenon DEF Flags
  <2> QED
    BY <1>2, <1>3, <1>4, <1>5, <2>1, StaysIInv
<1>6. CASE ~(StaysInMode(total, OamCycles) /\ UNCHANGED line_rendered)
  <2>1. /\ total >= OamCycles
        /\ cycle_count' = total - OamCycles
        /\ mode' = "vram"
        /\ line_rendered' = FALSE
        /\ Drive(line, {})
        /\ UNCHANGED <<vblank_line, secondary_cycle_count, screen, coincidence, ly>>
    BY <1>6 DEF TickOam
  <2>2. /\ interrupt_request' \subseteq RequestTypes
        /\ interrupt_flags' \subseteq {"lcd_vblank", "lcd_stat"}
    BY <1>2, <2>1, LineTyped, DriveTyped DEF RequestTypes
  <2>3. Flags'
    BY <1>2, <1>4, <2>1, Zenon DEF Flags, screen
  <2>4. cycle_count' \in 0..43
    BY <1>3, <2>1
  <2>5. Registers'
    BY <1>2, <1>4, <2>1, <2>2, <2>4 DEF Registers, screen
  <2>6. LineOnScreen' /\ VblankClocksAgree' /\ ClockInMode' /\ MaxIsBrief'
    BY <1>2, <2>1, <2>4
       DEF IInv, LineOnScreen, VblankClocksAgree, ClockInMode, MaxIsBrief, screen
  <2> QED
    BY <2>3, <2>5, <2>6, TypeParts DEF IInv
<1> QED
  BY <1>5, <1>6

LEMMA TickVramIInv ==
    ASSUME IInv, NEW cycles \in TickCycles, TickVram(cycles)
    PROVE  IInv'
<1> USE Sizes, LengthsHold DEF Lengths
<1> DEFINE total == cycle_count + cycles
           kept  == Release(Line, {"h_blank", "v_blank", "oam"})
           line  == RequestIfEnabled(kept, "h_blank")
<1>1. cycles \in 2..44
  BY TickAssumption
<1>2. TypeOK /\ Flags /\ Registers /\ lcd_enabled /\ mode = "vram"
  BY TypeParts DEF IInv, TickVram
<1>3. total \in Nat /\ total < VramCycles + 44
  BY <1>1, <1>2 DEF IInv, TypeOK, ClockInMode
<1>4. shown' = FALSE /\ UNCHANGED <<lcdc_on, enables, lyc>>
  BY DEF TickVram
<1>5. line_rendered' \in BOOLEAN /\ shown' \in BOOLEAN
  BY <1>4, Zenon DEF TickVram
<1>6. CASE StaysInMode(total, VramCycles)
  BY <1>2, <1>3, <1>4, <1>5, <1>6, StaysIInv
<1>7. CASE ~StaysInMode(total, VramCycles)
  <2>1. /\ total >= VramCycles
        /\ cycle_count' = total - VramCycles
        /\ mode' = "h_blank"
        /\ Drive(line, {})
        /\ UNCHANGED <<vblank_line, secondary_cycle_count, screen, coincidence, ly>>
    BY <1>7 DEF TickVram
  <2>2. /\ interrupt_request' \subseteq RequestTypes
        /\ interrupt_flags' \subseteq {"lcd_vblank", "lcd_stat"}
    <3>1. kept \in LineType
      BY <1>2, LineTyped DEF RequestTypes
    <3>2. line \in LineType
      BY <1>2, <3>1, LineTyped DEF RequestTypes
    <3> QED
      BY <1>2, <2>1, <3>2, DriveTyped
  <2>3. Flags'
    BY <1>2, <1>4, <1>5, <2>1, Zenon DEF Flags, screen
  <2>4. cycle_count' \in 0..43
    BY <1>3, <2>1
  <2>5. Registers'
    BY <1>2, <1>4, <2>1, <2>2, <2>4 DEF Registers, screen
  <2>6. LineOnScreen' /\ VblankClocksAgree' /\ ClockInMode' /\ MaxIsBrief'
    BY <1>2, <2>1, <2>4
       DEF IInv, LineOnScreen, VblankClocksAgree, ClockInMode, MaxIsBrief, screen
  <2> QED
    BY <2>3, <2>5, <2>6, TypeParts DEF IInv
<1> QED
  BY <1>6, <1>7

\* Switching the screen on changes the delay only; switching it off puts the
\* clocks and LY to zero and the mode to h_blank.
LEMMA WriteLcdcIInv ==
    ASSUME IInv, NEW on \in BOOLEAN, WriteLcdc(on)
    PROVE  IInv'
<1> USE Sizes, LengthsHold DEF Lengths
<1>1. TypeOK /\ Flags /\ Registers
  BY TypeParts DEF IInv
<1>2. /\ lcdc_on' = on /\ shown' = FALSE
      /\ UNCHANGED <<vblank_line, line_rendered, delay_frames, coincidence,
                     enables, lyc, interrupt_flags>>
  BY DEF WriteLcdc
<1>3. lcdc_on' \in BOOLEAN /\ shown' \in BOOLEAN /\ coincidence' \in BOOLEAN
  BY <1>1, <1>2, Zenon DEF Flags
<1>4. CASE on
  <2>1. /\ delay_cycles' = DelayArmed
        /\ UNCHANGED <<lcd_enabled, mode, interrupt_request, cycle_count,
                       secondary_cycle_count, ly>>
    BY <1>4 DEF WriteLcdc
  <2>2. delay_cycles' \in 0..DelayCycles
    BY <1>1, <2>1 DEF Registers, DelayArmed
  <2> QED
    BY <1>1, <1>2, <1>3, <2>1, <2>2, QuietIInv DEF counters, Registers
<1>5. CASE ~on
  <2>1. /\ lcd_enabled' = FALSE
        /\ mode' = "h_blank"
        /\ interrupt_request' = {}
        /\ cycle_count' = 0
        /\ secondary_cycle_count' = 0
        /\ ly' = 0
        /\ UNCHANGED delay_cycles
    BY <1>5 DEF WriteLcdc
  <2>2. lcd_enabled' \in BOOLEAN
    BY <2>1, Zenon
  <2>3. Flags'
    BY <1>1, <1>2, <1>3, <2>2, Zenon DEF Flags
  <2>4. Registers'
    BY <1>1, <1>2, <2>1 DEF Registers, Ly
  <2>5. LineOnScreen' /\ VblankClocksAgree' /\ ClockInMode' /\ MaxIsBrief'
    BY <2>1 DEF LineOnScreen, VblankClocksAgree, ClockInMode, MaxIsBrief
  <2> QED
    BY <2>3, <2>4, <2>5, TypeParts DEF IInv
<1> QED
  BY <1>4, <1>5

LEMMA WriteStatIInv ==
    ASSUME IInv, NEW new \in StatWrites, WriteStat(new)
    PROVE  IInv'
<1> DEFINE kept == [active |-> interrupt_request \cap new, raised |-> FALSE]
           now  == mode # "vram" /\ mode \in new /\ kept.active = {}
           line == IF ly = lyc
                   THEN IF "coincidence" \in new THEN Request(kept, "coincidence")
                                                 ELSE kept
                   ELSE Release(kept, {"coincidence"})
           line2 == [line EXCEPT !.raised = @ \/ now]
<1>1. TypeOK /\ Flags /\ Registers
  BY TypeParts DEF IInv
<1>2. /\ enables' = new /\ shown' = FALSE
      /\ UNCHANGED <<counters, screen, lcdc_on, mode, ly, lyc>>
      /\ IF lcdc_on THEN Drive(line2, {}) /\ coincidence' = (ly = lyc)
                    ELSE Drive(kept, {}) /\ UNCHANGED coincidence
  BY DEF WriteStat
<1>3. kept \in LineType
  BY <1>1 DEF Registers, LineType
<1>4. line \in LineType
  BY <1>1, <1>3, LineTyped DEF RequestTypes
<1>5. line2 \in LineType
  <2> HIDE DEF line, now
  <2>1. line2 = [active |-> line.active, raised |-> line.raised \/ now]
    BY <1>4 DEF LineType
  <2>2. (line.raised \/ now) \in BOOLEAN
    OBVIOUS
  <2> QED
    BY <1>4, <2>1, <2>2 DEF LineType
<1>6. /\ interrupt_request' \subseteq RequestTypes
      /\ interrupt_flags' \subseteq {"lcd_vblank", "lcd_stat"}
  <2>1. Drive(line2, {}) \/ Drive(kept, {})
    BY <1>2
  <2> QED
    BY <1>1, <1>3, <1>5, <2>1, DriveTyped
<1>7. coincidence' \in BOOLEAN /\ shown' \in BOOLEAN /\ lcdc_on' \in BOOLEAN
  BY <1>1, <1>2, Zenon DEF Flags
<1>8. enables' \subseteq RequestTypes
  BY <1>2, StatAssumption
<1> HIDE DEF line2, kept
<1> QED
  BY <1>1, <1>2, <1>6, <1>7, <1>8, QuietIInv DEF Registers, screen, counters

\* Writing LY starts it again from zero, which is on screen, in every mode.
LEMMA WriteLyIInv == IInv /\ WriteLy => IInv'
<1> SUFFICES ASSUME IInv, WriteLy PROVE IInv'
  OBVIOUS
<1> USE Sizes, LengthsHold DEF Lengths
<1>1. TypeOK /\ Flags /\ Registers
  BY TypeParts DEF IInv
<1>2. /\ ly' = 0 /\ coincidence' = (lyc = 0) /\ shown' = FALSE
      /\ Drive(Compare(Line, 0, lyc), {})
      /\ UNCHANGED <<counters, screen, lcdc_on, mode, enables, lyc>>
  BY DEF WriteLy
<1>3. /\ interrupt_request' \subseteq RequestTypes
      /\ interrupt_flags' \subseteq {"lcd_vblank", "lcd_stat"}
  BY <1>1, <1>2, LineTyped, DriveTyped
<1>4. Flags'
  BY <1>1, <1>2, Zenon DEF Flags, screen, counters
<1>5. Registers'
  BY <1>1, <1>2, <1>3 DEF Registers, Ly, screen, counters
<1>6. PICK n, s \in Nat : /\ vblank_line = n /\ secondary_cycle_count = s
  BY <1>1 DEF Registers
<1>7. LineOnScreen' /\ VblankClocksAgree' /\ ClockInMode' /\ MaxIsBrief'
  BY <1>1, <1>2, <1>6
     DEF IInv, LineOnScreen, VblankClocksAgree, ClockInMode, MaxIsBrief, screen,
         counters, Registers
<1> QED
  BY <1>4, <1>5, <1>7, TypeParts DEF IInv

LEMMA WriteLycIInv ==
    ASSUME IInv, NEW value \in LycValues, WriteLyc(value)
    PROVE  IInv'
<1>1. TypeOK /\ Flags /\ Registers
  BY TypeParts DEF IInv
<1>2. /\ lyc' = value /\ shown' = FALSE
      /\ UNCHANGED <<counters, screen, lcdc_on, mode, enables, ly>>
  BY DEF WriteLyc
<1>3. \/ coincidence' = (ly = value) /\ Drive(Compare(Line, ly, value), {})
      \/ UNCHANGED <<coincidence, interrupt_request, interrupt_flags>>
  BY DEF WriteLyc
<1>4. /\ interrupt_request' \subseteq RequestTypes
      /\ interrupt_flags' \subseteq {"lcd_vblank", "lcd_stat"}
  BY <1>1, <1>3, LineTyped, DriveTyped DEF Registers
<1>5. coincidence' \in BOOLEAN /\ shown' \in BOOLEAN /\ lcdc_on' \in BOOLEAN
  BY <1>1, <1>2, <1>3, Zenon DEF Flags
<1>6. lyc' \in Ly
  BY <1>2, LycAssumption DEF Ly
<1> QED
  BY <1>1, <1>2, <1>4, <1>5, <1>6, QuietIInv DEF Registers, screen, counters

LEMMA ClearInterruptFlagIInv ==
    ASSUME IInv, NEW flag, ClearInterruptFlag(flag)
    PROVE  IInv'
<1>1. TypeOK /\ Flags /\ Registers
  BY TypeParts DEF IInv
<1>2. /\ interrupt_flags' = interrupt_flags \ {flag} /\ shown' = FALSE
      /\ UNCHANGED <<counters, screen, lcdc_on, mode, coincidence, enables, ly,
                     lyc, interrupt_request>>
  BY DEF ClearInterruptFlag
<1>3. coincidence' \in BOOLEAN /\ shown' \in BOOLEAN /\ lcdc_on' \in BOOLEAN
  BY <1>1, <1>2, Zenon DEF Flags
<1> QED
  BY <1>1, <1>2, <1>3, QuietIInv DEF Registers, screen, counters

\* A stuttering step changes nothing.
LEMMA StutterIInv == IInv /\ UNCHANGED vars => IInv'
BY DEF IInv, TypeOK, LineOnScreen, VblankClocksAgree, ClockInMode, MaxIsBrief,
       vars, counters, screen, Ly

\* IInv is inductive: every operation of the picture processor keeps it.
LEMMA NextIInv == IInv /\ [Next]_vars => IInv'
<1> SUFFICES ASSUME IInv, [Next]_vars PROVE IInv'
  OBVIOUS
<1>1. ASSUME NEW cycles \in TickCycles, Tick(cycles) PROVE IInv'
  BY <1>1, TickOffIInv, TickEnablingIInv, TickHblankIInv, TickVblankIInv,
     TickOamIInv, TickVramIInv DEF Tick
<1>2. CASE RegisterWrite
  BY <1>2, WriteLcdcIInv, WriteStatIInv, WriteLyIInv, WriteLycIInv DEF RegisterWrite
<1>3. ASSUME NEW flag, ClearInterruptFlag(flag) PROVE IInv'
  BY <1>3, ClearInterruptFlagIInv
<1>4. CASE UNCHANGED vars
  BY <1>4, StutterIInv
<1> QED
  BY <1>1, <1>2, <1>3, <1>4 DEF Next, SomeTick

LEMMA Inductive == Spec => []IInv
BY InitIInv, NextIInv, PTL DEF Spec

\* The timing members keep their types: no clock and no counter grows past the
\* mode, the line or the frame it counts, whatever is written when.
THEOREM TypeCorrect == Spec => []TypeOK
<1>1. IInv => TypeOK
  BY DEF IInv
<1> QED
  BY <1>1, Inductive, PTL

\* Outside the vertical blank LY names a line of the screen, so that render()
\* is never handed a line past the last one.
THEOREM RenderedOnScreen == Spec => []LineOnScreen
<1>1. IInv => LineOnScreen
  BY DEF IInv
<1> QED
  BY <1>1, Inductive, PTL

\* The two clocks of the vertical blank never drift apart.
THEOREM VblankClocks == Spec => []VblankClocksAgree
<1>1. IInv => VblankClocksAgree
  BY DEF IInv
<1> QED
  BY <1>1, Inductive, PTL

-----------------------------------------------------------------------------
\* Where LY is in the vertical blank unless the program wrote it: on the line
\* the line counter names, or back at zero in the last line.
LyOnTime ==
    \/ ly = ScreenHeight + vblank_line
    \/ ly = 0 /\ vblank_line = VblankLines - 1

\* A frame left alone has drawn the lines before LY, and LY itself once the line
\* is rendered.
DrawnSoFar ==
    /\ lcd_enabled
    /\ drawn \in Nat
    /\ mode = "oam" => drawn = ly
    /\ mode = "vram" => drawn = IF line_rendered THEN ly + 1 ELSE ly
    /\ mode = "h_blank" => line_rendered /\ drawn = ly + 1
    /\ mode = "v_blank" => drawn = ScreenHeight

\* The inductive invariant of a behaviour about frames.
FramesInv ==
    /\ undisturbed => DrawnSoFar
    /\ mode = "v_blank" /\ ~ly_written => LyOnTime

\* The steps of the picture: what a tick does to the mode, to LY and to the
\* rendering of the line.
picture == <<lcd_enabled, mode, line_rendered, ly, vblank_line>>
LineBegins ==
    /\ mode = "h_blank" /\ mode' = "oam" /\ ly' = ly + 1
    /\ UNCHANGED line_rendered
VblankBegins ==
    /\ mode = "h_blank" /\ mode' = "v_blank"
    /\ ly + 1 = ScreenHeight /\ ly' = ScreenHeight /\ vblank_line' = 0
    /\ UNCHANGED line_rendered
VblankGoesOn ==
    /\ mode = "v_blank" /\ mode' \in {"v_blank", "oam"}
    /\ LyOnTime => IF mode' = "oam" THEN ly' = 0 ELSE LyOnTime'
    /\ UNCHANGED line_rendered
VramBegins ==
    mode = "oam" /\ mode' = "vram" /\ line_rendered' = FALSE /\ UNCHANGED ly
LineIsDrawn ==
    /\ mode = "vram" /\ mode' \in {"vram", "h_blank"} /\ UNCHANGED ly
    /\ line_rendered \/ mode' = "h_blank" => line_rendered'
Moves ==
    /\ lcd_enabled /\ UNCHANGED lcd_enabled
    /\ LineBegins \/ VblankBegins \/ VblankGoesOn \/ VramBegins \/ LineIsDrawn

\* LY in the vertical blank after c cycles, the clearing included.
Cleared(v, s, y, c) ==
    /\ 456 * v + s + c >= 456 * (VblankLines - 1)
    /\ RestAt(s, c) >= 4
    /\ LyAt(v, s, y, c) = LyMax
LyLeft(v, s, y, c) == IF Cleared(v, s, y, c) THEN 0 ELSE LyAt(v, s, y, c)
StaysOnTime(v, s, y, c) ==
    IF 456 * v + s + c >= 456 * VblankLines THEN LyLeft(v, s, y, c) = 0
    ELSE \/ LyLeft(v, s, y, c) = ScreenHeight + CountAt(v, s, c)
         \/ LyLeft(v, s, y, c) = 0 /\ CountAt(v, s, c) = VblankLines - 1
LEMMA LyRuns ==
    ASSUME NEW v \in 0..VblankLines - 1, NEW s \in 0..455, NEW y \in 0..255,
           NEW c \in 2..44,
           y = ScreenHeight + v \/ (y = 0 /\ v = VblankLines - 1),
           y = LyMax => s < 44
    PROVE  StaysOnTime(v, s, y, c)
<1> USE Sizes, LengthsHold DEF Lengths, LyLeft, Cleared, StaysOnTime
<1>1. CASE s + c < 456
  <2>1. RestAt(s, c) = s + c /\ CountAt(v, s, c) = v /\ LyAt(v, s, y, c) = y
    BY <1>1 DEF RestAt, CountAt, LyAt
  <2>2. 456 * v + s + c < 456 * VblankLines
    BY <1>1
  <2>3. Cleared(v, s, y, c) => v = VblankLines - 1
    BY <2>1, <1>1
  <2> QED
    BY <2>1, <2>2, <2>3
<1>2. CASE s + c >= 456 /\ v + 1 < VblankLines
  <2>1. CountAt(v, s, c) = v + 1 /\ y = ScreenHeight + v
    BY <1>2 DEF CountAt
  <2>2. LyAt(v, s, y, c) = ScreenHeight + v + 1
    BY <1>2, <2>1 DEF CountAt, LyAt
  <2>3. 456 * v + s + c < 456 * VblankLines
    BY <1>2
  <2>4. Cleared(v, s, y, c) => v + 1 = VblankLines - 1
    BY <2>2
  <2> QED
    BY <2>1, <2>2, <2>3, <2>4
<1>3. CASE s + c >= 456 /\ v + 1 = VblankLines
  <2>1. y = 0
    BY <1>3
  <2>2. CountAt(v, s, c) = v + 1 /\ LyAt(v, s, y, c) = 0
    BY <1>3, <2>1 DEF CountAt, LyAt
  <2>3. 456 * v + s + c >= 456 * VblankLines
    BY <1>3
  <2> QED
    BY <2>2, <2>3
<1> QED
  BY <1>1, <1>2, <1>3

LEMMA VblankRuns ==
    ASSUME IInv, NEW cycles \in TickCycles, TickVblank(cycles)
    PROVE  VblankGoesOn
<1> USE Sizes, LengthsHold DEF Lengths
<1> DEFINE v == vblank_line
           s == secondary_cycle_count
           y == ly
           total == cycle_count + cycles
           spent == secondary_cycle_count + cycles
           wraps == Wraps(spent)
           rest  == IF wraps THEN spent - LineCycles ELSE spent
           count == IF wraps THEN vblank_line + 1 ELSE vblank_line
           moves == wraps /\ count < VblankLines
           ly1   == IF moves THEN (ly + 1) % 256 ELSE ly
           clear == ClearsLy(total, rest, ly1)
           ly2   == IF clear THEN 0 ELSE ly1
           ends  == total >= VblankCycles
<1>1. cycles \in 2..44
  BY TickAssumption
<1>2. /\ mode = "v_blank" /\ vblank_line' = count /\ ly' = ly2
      /\ mode' = IF ends THEN "oam" ELSE "v_blank"
      /\ UNCHANGED line_rendered
  BY DEF TickVblank
<1>3. /\ v \in 0..VblankLines - 1 /\ s \in 0..455
      /\ y \in 0..255 /\ cycle_count = 456 * v + s
      /\ y = LyMax => s < 44
  BY <1>2 DEF IInv, TypeOK, Ly, VblankClocksAgree, MaxIsBrief
<1>4. /\ total = 456 * v + s + cycles
      /\ rest = RestAt(s, cycles)
      /\ count = CountAt(v, s, cycles)
      /\ ly1 = LyAt(v, s, y, cycles)
  <2>1. wraps <=> s + cycles >= 456
    BY DEF Wraps
  <2>2. total = 456 * v + s + cycles
    BY <1>1, <1>3
  <2> HIDE DEF wraps, total
  <2>3. rest = RestAt(s, cycles) /\ count = CountAt(v, s, cycles)
    <3>1. CASE wraps
      BY <1>1, <1>3, <2>1, <3>1 DEF RestAt, CountAt
    <3>2. CASE ~wraps
      BY <1>1, <1>3, <2>1, <3>2 DEF RestAt, CountAt
    <3> QED
      BY <3>1, <3>2
  <2>4. ly1 = LyAt(v, s, y, cycles)
    <3>1. CASE wraps
      BY <2>1, <2>3, <3>1 DEF LyAt
    <3>2. CASE ~wraps
      BY <2>1, <2>3, <3>2 DEF LyAt
    <3> QED
      BY <3>1, <3>2
  <2> QED
    BY <2>2, <2>3, <2>4
<1>5. clear <=> /\ total >= 456 * (VblankLines - 1)
                /\ rest >= 4
                /\ ly1 = LyMax
  BY DEF ClearsLy
<1>6. /\ ly2 = LyLeft(v, s, y, cycles) /\ count = CountAt(v, s, cycles)
      /\ ends <=> 456 * v + s + cycles >= 456 * VblankLines
  <2> HIDE DEF clear, total, rest, count, ly1
  <2> QED
    BY <1>4, <1>5 DEF LyLeft, Cleared
<1>7. ASSUME LyOnTime
      PROVE  IF ends THEN ly2 = 0
             ELSE ly2 = ScreenHeight + count \/ (ly2 = 0 /\ count = VblankLines - 1)
  <2>1. y = ScreenHeight + v \/ (y = 0 /\ v = VblankLines - 1)
    BY <1>7 DEF LyOnTime
  <2> HIDE DEF v, s, y, clear, total, rest, count, ly1, ly2, ends
  <2>2. StaysOnTime(v, s, y, cycles)
    BY <1>1, <1>3, <2>1, LyRuns
  <2> QED
    BY <1>6, <2>2 DEF StaysOnTime
<1> HIDE DEF ly2, ends, count
<1> QED
  BY <1>2, <1>7 DEF VblankGoesOn, LyOnTime

\* Every operation leaves the picture as it is, starts it again, or moves it on
\* by one of the steps above.
LEMMA Kinds ==
    ASSUME IInv, Next
    PROVE  \/ UNCHANGED picture
           \/ WriteLy /\ UNCHANGED <<mode, line_rendered>>
           \/ Restarts /\ mode' = "h_blank" /\ UNCHANGED line_rendered
           \/ Moves
<1> USE Sizes, LengthsHold DEF Lengths
<1> DEFINE Goal == \/ UNCHANGED picture
                   \/ WriteLy /\ UNCHANGED <<mode, line_rendered>>
                   \/ Restarts /\ mode' = "h_blank" /\ UNCHANGED line_rendered
                   \/ Moves
<1>1. ASSUME NEW cycles \in TickCycles, TickOff(cycles) PROVE Goal
  BY <1>1 DEF TickOff, picture, screen
<1>2. ASSUME NEW cycles \in TickCycles, TickEnabling(cycles) PROVE Goal
  <2>1. ~lcd_enabled /\ mode = "h_blank" /\ UNCHANGED line_rendered
    BY <1>2 DEF IInv, ClockInMode, TickEnabling
  <2>2. \/ UNCHANGED <<lcd_enabled, mode, ly, vblank_line>>
        \/ lcd_enabled' = TRUE /\ mode' = "h_blank"
    BY <1>2 DEF TickEnabling
  <2>3. lcd_enabled' = TRUE => lcd_enabled' # lcd_enabled
    BY <2>1, Zenon
  <2>4. CASE UNCHANGED <<lcd_enabled, mode, ly, vblank_line>>
    BY <2>1, <2>4 DEF picture
  <2>5. CASE lcd_enabled' = TRUE /\ mode' = "h_blank"
    BY <2>1, <2>3, <2>5, Zenon DEF Restarts
  <2> QED
    BY <2>2, <2>4, <2>5
<1>3. ASSUME NEW cycles \in TickCycles, TickHblank(cycles) PROVE Goal
  <2> DEFINE next == (ly + 1) % 256
  <2>1. lcd_enabled /\ mode = "h_blank" /\ UNCHANGED line_rendered
    BY <1>3 DEF TickHblank
  <2>2. next = ly + 1 /\ ly + 1 <= ScreenHeight
    BY <2>1 DEF IInv, TypeOK, LineOnScreen, Ly
  <2> HIDE DEF next
  <2>3. \/ UNCHANGED <<vblank_line, screen, mode, ly>>
        \/ /\ next = ScreenHeight /\ ly' = next /\ mode' = "v_blank"
           /\ vblank_line' = 0 /\ UNCHANGED lcd_enabled
        \/ ly' = next /\ mode' = "oam" /\ UNCHANGED lcd_enabled
    <3>1. CASE next = ScreenHeight
      BY <1>3, <3>1, ZenonT(60) DEF TickHblank, StaysInMode, next
    <3>2. CASE next # ScreenHeight
      BY <1>3, <3>2 DEF TickHblank, StaysInMode, next, screen
    <3> QED
      BY <3>1, <3>2
  <2> QED
    BY <2>1, <2>2, <2>3 DEF picture, screen, Moves, LineBegins, VblankBegins
<1>4. ASSUME NEW cycles \in TickCycles, TickVblank(cycles) PROVE Goal
  <2>1. lcd_enabled /\ UNCHANGED lcd_enabled
    BY <1>4 DEF TickVblank, screen
  <2> QED
    BY <1>4, <2>1, VblankRuns DEF Moves
<1>5. ASSUME NEW cycles \in TickCycles, TickOam(cycles) PROVE Goal
  BY <1>5 DEF TickOam, StaysInMode, picture, screen, Moves, VramBegins
<1>6. ASSUME NEW cycles \in TickCycles, TickVram(cycles) PROVE Goal
  <2> DEFINE total == cycle_count + cycles
  <2>1. lcd_enabled /\ mode = "vram" /\ line_rendered' = (line_rendered \/ total >= RenderCycles)
    BY <1>6 DEF TickVram
  <2>2. \/ UNCHANGED <<lcd_enabled, mode, ly, vblank_line>>
        \/ total >= VramCycles /\ mode' = "h_blank" /\ UNCHANGED <<lcd_enabled, ly>>
    BY <1>6 DEF TickVram, StaysInMode, screen
  <2>3. total >= VramCycles => total >= RenderCycles
    BY TickAssumption DEF RenderCycles, IInv, TypeOK
  <2> HIDE DEF total
  <2> QED
    BY <2>1, <2>2, <2>3, Zenon DEF Moves, LineIsDrawn
<1>7. ASSUME NEW on \in BOOLEAN, WriteLcdc(on) PROVE Goal
  <2>1. CASE on
    BY <1>7, <2>1 DEF WriteLcdc, picture
  <2>2. CASE ~on
    <3>1. on = FALSE
      BY <2>2
    <3>2. mode' = "h_blank" /\ UNCHANGED line_rendered
      BY <1>7, <2>2 DEF WriteLcdc
    <3> QED
      BY <1>7, <3>1, <3>2, Zenon DEF Restarts
  <2> QED
    BY <2>1, <2>2
<1>8. ASSUME NEW new \in StatWrites, WriteStat(new) PROVE Goal
  BY <1>8 DEF WriteStat, picture, counters, screen
<1>9. ASSUME WriteLy PROVE Goal
  BY <1>9 DEF WriteLy, counters
<1>10. ASSUME NEW value \in LycValues, WriteLyc(value) PROVE Goal
  BY <1>10 DEF WriteLyc, picture, counters, screen
<1>11. ASSUME NEW flag, ClearInterruptFlag(flag) PROVE Goal
  BY <1>11 DEF ClearInterruptFlag, picture, counters, screen
<1> HIDE DEF Goal
<1>12. Goal
  BY <1>1, <1>2, <1>3, <1>4, <1>5, <1>6, <1>7, <1>8, <1>9, <1>10, <1>11
     DEF Next, SomeTick, RegisterWrite, Tick
<1> QED
  BY <1>12 DEF Goal

LEMMA InitFramesInv == MCInit => IInv /\ FramesInv
<1> SUFFICES ASSUME MCInit PROVE IInv /\ FramesInv
  OBVIOUS
<1>1. Init /\ drawn = IF Cgb THEN ScreenHeight ELSE 0
  BY DEF MCInit, DmaInit
<1>2. IInv
  BY <1>1, InitIInv
<1>3. lcd_enabled /\ drawn \in Nat
  BY <1>1, HeightAssumption DEF Init
<1>4. CASE Cgb
  <2>1. /\ mode = "v_blank" /\ ly = ScreenHeight /\ vblank_line = 0
        /\ drawn = ScreenHeight
    BY <1>1, <1>4 DEF Init
  <2>2. DrawnSoFar
    BY <1>3, <2>1 DEF DrawnSoFar
  <2>3. LyOnTime
    BY <2>1, HeightAssumption DEF LyOnTime
  <2> QED
    BY <1>2, <2>2, <2>3 DEF FramesInv
<1>5. CASE ~Cgb
  <2>1. mode = "oam" /\ ly = 0 /\ drawn = 0
    BY <1>1, <1>5 DEF Init
  <2> QED
    BY <1>2, <1>3, <2>1 DEF FramesInv, DrawnSoFar
<1> QED
  BY <1>4, <1>5

FrameOnTime ==
    /\ undisturbed => /\ Renders => ly = drawn
                      /\ EntersVblank => drawn = ScreenHeight
    /\ BeginsFrame /\ ~ly_written => ly' = 0

\* A step of a behaviour about frames keeps the invariant and draws in order.
LEMMA FramesStep ==
    ASSUME IInv, FramesInv, Next, Frames
    PROVE  FramesInv' /\ FrameOnTime
<1> USE Sizes
<1>1. /\ BeginsFrame => drawn' = 0 /\ (undisturbed' => ly' = 0)
      /\ ~BeginsFrame /\ undisturbed' => undisturbed /\ ~Restarts
      /\ ~BeginsFrame /\ Renders /\ drawn <= ScreenHeight => drawn' = drawn + 1
      /\ ~BeginsFrame /\ ~Renders => drawn' = drawn
  BY DEF Frames
<1>2. ~ly_written' => EntersVblank \/ (~ly_written /\ ~WriteLy)
  BY Zenon DEF Frames
<1>3. /\ lcd_enabled \in BOOLEAN /\ line_rendered \in BOOLEAN /\ ly \in 0..255
      /\ mode \in {"h_blank", "v_blank", "oam", "vram"}
      /\ mode # "v_blank" => ly < ScreenHeight
  BY DEF IInv, TypeOK, Ly, LineOnScreen
<1>4. CASE UNCHANGED picture
  <2>1. ~BeginsFrame /\ ~Renders /\ ~EntersVblank
    BY <1>4 DEF picture, BeginsFrame, Renders, EntersVblank
  <2>2. undisturbed' => DrawnSoFar'
    BY <1>1, <1>4, <2>1 DEF FramesInv, DrawnSoFar, picture
  <2>3. mode' = "v_blank" /\ ~ly_written' => LyOnTime'
    BY <1>2, <1>4, <2>1 DEF FramesInv, LyOnTime, picture
  <2> QED
    BY <2>1, <2>2, <2>3 DEF FramesInv, FrameOnTime
<1>5. CASE WriteLy /\ UNCHANGED <<mode, line_rendered>>
  <2>1. ~BeginsFrame /\ ~Renders /\ ~EntersVblank
    BY <1>5 DEF BeginsFrame, Renders, EntersVblank
  <2>2. ~undisturbed' /\ ly_written'
    BY <1>1, <1>2, <1>5, <2>1, Zenon DEF Restarts
  <2> QED
    BY <2>1, <2>2 DEF FramesInv, FrameOnTime
<1>6. CASE Restarts /\ mode' = "h_blank" /\ UNCHANGED line_rendered
  <2>1. ~BeginsFrame /\ ~Renders /\ ~EntersVblank
    BY <1>6 DEF BeginsFrame, Renders, EntersVblank
  <2>2. ~undisturbed'
    BY <1>1, <1>6, <2>1
  <2> QED
    BY <1>6, <2>1, <2>2 DEF FramesInv, FrameOnTime
<1>7. ASSUME lcd_enabled, UNCHANGED lcd_enabled, LineBegins
      PROVE  FramesInv' /\ FrameOnTime
  <2>1. ~BeginsFrame /\ ~Renders /\ ~EntersVblank /\ mode' = "oam"
    BY <1>7 DEF LineBegins, BeginsFrame, Renders, EntersVblank
  <2>2. undisturbed' => DrawnSoFar'
    BY <1>1, <1>7, <2>1 DEF FramesInv, DrawnSoFar, LineBegins
  <2> QED
    BY <2>1, <2>2 DEF FramesInv, FrameOnTime
<1>8. ASSUME lcd_enabled, UNCHANGED lcd_enabled, VblankBegins
      PROVE  FramesInv' /\ FrameOnTime
  <2>1. ~BeginsFrame /\ ~Renders /\ EntersVblank /\ mode' = "v_blank"
    BY <1>8 DEF VblankBegins, BeginsFrame, Renders, EntersVblank
  <2>2. undisturbed => drawn = ScreenHeight
    BY <1>8 DEF FramesInv, DrawnSoFar, VblankBegins
  <2>3. undisturbed' => DrawnSoFar'
    BY <1>1, <1>8, <2>1, <2>2 DEF FramesInv, DrawnSoFar
  <2>4. LyOnTime'
    BY <1>8 DEF VblankBegins, LyOnTime
  <2> QED
    BY <2>1, <2>2, <2>3, <2>4 DEF FramesInv, FrameOnTime
<1>9. ASSUME lcd_enabled, UNCHANGED lcd_enabled, VblankGoesOn
      PROVE  FramesInv' /\ FrameOnTime
  <2>1. ~Renders /\ ~EntersVblank /\ (BeginsFrame <=> mode' = "oam")
    BY <1>9 DEF VblankGoesOn, BeginsFrame, Renders, EntersVblank
  <2>2. undisturbed' => DrawnSoFar'
    BY <1>1, <1>9, <2>1 DEF FramesInv, DrawnSoFar, VblankGoesOn
  <2>3. ~ly_written => LyOnTime
    BY <1>9 DEF FramesInv, VblankGoesOn
  <2>4. mode' = "v_blank" /\ ~ly_written' => LyOnTime'
    BY <1>2, <1>9, <2>1, <2>3 DEF VblankGoesOn
  <2>5. BeginsFrame /\ ~ly_written => ly' = 0
    BY <1>9, <2>1, <2>3 DEF VblankGoesOn
  <2> QED
    BY <2>1, <2>2, <2>4, <2>5 DEF FramesInv, FrameOnTime
<1>10. ASSUME lcd_enabled, UNCHANGED lcd_enabled, VramBegins
       PROVE  FramesInv' /\ FrameOnTime
  <2>1. ~BeginsFrame /\ ~Renders /\ ~EntersVblank /\ mode' = "vram"
    BY <1>10 DEF VramBegins, BeginsFrame, Renders, EntersVblank
  <2>2. undisturbed' => DrawnSoFar'
    BY <1>1, <1>10, <2>1 DEF FramesInv, DrawnSoFar, VramBegins
  <2> QED
    BY <2>1, <2>2 DEF FramesInv, FrameOnTime
<1>11. ASSUME lcd_enabled, UNCHANGED lcd_enabled, LineIsDrawn
       PROVE  FramesInv' /\ FrameOnTime
  <2>1. ~BeginsFrame /\ ~EntersVblank /\ mode' # "v_blank"
    BY <1>11 DEF LineIsDrawn, BeginsFrame, EntersVblank
  <2>2. undisturbed => /\ drawn \in Nat /\ drawn <= ScreenHeight
                       /\ drawn = IF line_rendered THEN ly + 1 ELSE ly
    BY <1>3, <1>11 DEF FramesInv, DrawnSoFar, LineIsDrawn
  <2>3. CASE Renders
    <3>1. undisturbed => drawn = ly
      BY <2>2, <2>3 DEF Renders
    <3>2. undisturbed' => DrawnSoFar'
      BY <1>1, <1>3, <1>11, <2>1, <2>2, <2>3, <3>1 DEF DrawnSoFar, LineIsDrawn, Renders
    <3> QED
      BY <2>1, <3>1, <3>2 DEF FramesInv, FrameOnTime
  <2>4. CASE ~Renders
    <3>1. line_rendered' => line_rendered
      BY <2>4 DEF Renders
    <3>2. undisturbed' => DrawnSoFar'
      BY <1>1, <1>3, <1>11, <2>1, <2>2, <2>4, <3>1 DEF DrawnSoFar, LineIsDrawn
    <3> QED
      BY <2>1, <2>4, <3>2 DEF FramesInv, FrameOnTime
  <2> QED
    BY <2>3, <2>4
<1> QED
  BY <1>4, <1>5, <1>6, <1>7, <1>8, <1>9, <1>10, <1>11, Kinds DEF Moves

\* A frame that is not restarted shows every line once and in order, and begins
\* at LY = 0 unless LY was written, for every screen height and every vertical
\* blank, however the instructions fall on the ends of the modes.
THEOREM FramesAreComplete == MCSpec => FramesComplete
<1> DEFINE I == scene = "frames" => IInv /\ FramesInv
           A == scene = "frames" =>
                   /\ undisturbed => /\ Renders => ly = drawn
                                     /\ EntersVblank => drawn = ScreenHeight
                   /\ BeginsFrame /\ ~ly_written => ly' = 0
<1>1. MCInit => I
  BY InitFramesInv
<1>2. I /\ [MCNext]_mcvars => I' /\ [A]_mcvars
  <2> SUFFICES ASSUME I, [MCNext]_mcvars, scene' = "frames"
               PROVE  (IInv /\ FramesInv)' /\ [A]_mcvars
    <3>1. ASSUME [MCNext]_mcvars PROVE scene' = scene
      BY <3>1 DEF MCNext, PictureNext, TransferNext, Others, mcvars
    <3> HIDE DEF I
    <3> QED
      BY <3>1 DEF I, A
  <2>1. scene = "frames"
    BY DEF MCNext, PictureNext, TransferNext, Others, mcvars
  <2>2. CASE UNCHANGED mcvars
    <3>1. UNCHANGED vars
      BY <2>2 DEF mcvars, all_vars
    <3>2. IInv'
      BY <2>1, <3>1, StutterIInv
    <3>3. FramesInv'
      BY <2>1, <2>2, <3>1
         DEF mcvars, frames, vars, counters, screen, FramesInv, DrawnSoFar, LyOnTime
    <3> QED
      BY <2>2, <3>2, <3>3
  <2>3. CASE MCNext
    <3>1. Next /\ Frames
      BY <2>1, <2>3 DEF MCNext, PictureNext, TransferNext, Stat
    <3>2. IInv'
      BY <2>1, <3>1, NextIInv
    <3> QED
      BY <2>1, <3>1, <3>2, FramesStep DEF FrameOnTime
  <2> QED
    BY <2>2, <2>3
<1> HIDE DEF I, A
<1>3. MCSpec => [][A]_mcvars
  BY <1>1, <1>2, PTL DEF MCSpec
<1> QED
  BY <1>3 DEF FramesComplete, A

-----------------------------------------------------------------------------
\* The request set remembers every condition that holds the STAT line up.
Recorded ==
    /\ mode \in enables => mode \in interrupt_request
    /\ coincidence /\ "coincidence" \in enables => "coincidence" \in interrupt_request

\* The STAT line is held by a request of this type and did not go up.
Held(line, type) == line \in LineType /\ line.raised = FALSE /\ type \in line.active

\* A line that something holds does not go up: requests leave it down.
LEMMA HeldKept ==
    ASSUME TypeOK, NEW line, NEW type, Held(line, type)
    PROVE  /\ \A t \in RequestTypes : Held(RequestIfEnabled(line, t), type)
           /\ \A types \in SUBSET RequestTypes :
                  type \notin types => Held(Release(line, types), type)
           /\ \A y, c : type # "coincidence" \/ y = c => Held(Compare(line, y, c), type)
<1>1. line \in LineType /\ line.raised = FALSE /\ type \in line.active
  BY DEF Held
<1>2. ASSUME NEW t \in RequestTypes PROVE Held(RequestIfEnabled(line, t), type)
  <2>1. Request(line, t).active = line.active \cup {t}
    BY DEF Request
  <2>2. Request(line, t).raised = FALSE
    <3>1. (line.raised \/ line.active = {}) = FALSE
      BY <1>1
    <3> QED
      BY <3>1 DEF Request
  <2>3. RequestIfEnabled(line, t) \in LineType
    BY <1>1, LineTyped
  <2> QED
    BY <1>1, <2>1, <2>2, <2>3 DEF RequestIfEnabled, Held
<1>3. ASSUME NEW types \in SUBSET RequestTypes, type \notin types
      PROVE  Held(Release(line, types), type)
  <2>1. Release(line, types) \in LineType
    BY <1>1, LineTyped
  <2>2. Release(line, types).active = line.active \ types
        /\ Release(line, types).raised = line.raised
    BY <1>1 DEF Release, LineType
  <2> QED
    BY <1>1, <1>3, <2>1, <2>2 DEF Held
<1>4. ASSUME NEW y, NEW c, type # "coincidence" \/ y = c
      PROVE  Held(Compare(line, y, c), type)
  BY <1>2, <1>3, <1>4 DEF Compare, RequestTypes
<1> QED
  BY <1>2, <1>3, <1>4

\* What the operations on the line do to the requests that hold it.
LEMMA Requests ==
    ASSUME TypeOK, NEW line \in LineType
    PROVE  /\ \A t \in RequestTypes :
                  /\ line.active \subseteq RequestIfEnabled(line, t).active
                  /\ t \in enables => t \in RequestIfEnabled(line, t).active
           /\ \A types \in SUBSET RequestTypes :
                  /\ Release(line, types).active = line.active \ types
                  /\ Release(line, types).raised = line.raised
           /\ \A y, c :
                  /\ line.active \ {"coincidence"} \subseteq Compare(line, y, c).active
                  /\ y = c /\ "coincidence" \in enables
                         => "coincidence" \in Compare(line, y, c).active
<1>1. ASSUME NEW t \in RequestTypes
      PROVE  /\ line.active \subseteq RequestIfEnabled(line, t).active
             /\ t \in enables => t \in RequestIfEnabled(line, t).active
  <2>1. Request(line, t).active = line.active \cup {t}
    BY DEF Request
  <2> QED
    BY <2>1 DEF RequestIfEnabled
<1>2. ASSUME NEW types \in SUBSET RequestTypes
      PROVE  /\ Release(line, types).active = line.active \ types
             /\ Release(line, types).raised = line.raised
  BY DEF Release, LineType
<1>3. ASSUME NEW y, NEW c
      PROVE  /\ line.active \ {"coincidence"} \subseteq Compare(line, y, c).active
             /\ y = c /\ "coincidence" \in enables
                    => "coincidence" \in Compare(line, y, c).active
  BY <1>1, <1>2 DEF Compare, RequestTypes
<1> QED
  BY <1>1, <1>2, <1>3

\* A step that compares leaves the condition recorded.
LEMMA ComparedRecorded ==
    ASSUME TypeOK, Recorded, NEW y, NEW c, NEW others, Drive(Compare(Line, y, c), others),
           coincidence' = (y = c), UNCHANGED <<mode, enables>>,
           mode # "coincidence"
    PROVE  Recorded'
<1>1. Line \in LineType /\ Line.active = interrupt_request
  BY LineTyped DEF Line
<1>2. /\ interrupt_request \ {"coincidence"} \subseteq interrupt_request'
      /\ y = c /\ "coincidence" \in enables => "coincidence" \in interrupt_request'
  BY <1>1, Requests DEF Drive
<1> QED
  BY <1>2 DEF Recorded

LEMMA HblankStat ==
    ASSUME IInv, Recorded, NEW cycles \in TickCycles, TickHblank(cycles)
    PROVE  /\ Recorded'
           /\ mode \in enables \/ (/\ "coincidence" \in enables
                                   /\ coincidence /\ coincidence')
                  => ~RaisesStat
<1> DEFINE next  == (ly + 1) % 256
           last  == next = ScreenHeight
           line0 == Compare(Line, next, lyc)
           line1 == Release(line0, {"v_blank", "oam"})
           line2 == RequestIfEnabled(line1, IF last THEN "v_blank" ELSE "oam")
           line3 == Release(line2, {"h_blank"})
           others == IF last THEN {"lcd_vblank"} ELSE {}
<1>1. TypeOK /\ mode = "h_blank" /\ UNCHANGED enables
  BY DEF IInv, TickHblank
<1>2. CASE UNCHANGED <<mode, coincidence, interrupt_request, interrupt_flags>>
  BY <1>1, <1>2 DEF Recorded, RaisesStat
<1>3. CASE ~UNCHANGED <<mode, coincidence, interrupt_request, interrupt_flags>>
  <2>1. /\ coincidence' = (next = lyc) /\ mode' = IF last THEN "v_blank" ELSE "oam"
        /\ Drive(line3, others)
    BY <1>3 DEF TickHblank, StaysInMode
  <2>2. /\ Line \in LineType /\ line0 \in LineType /\ line1 \in LineType
        /\ line2 \in LineType /\ line3 \in LineType
    BY <1>1, LineTyped DEF RequestTypes
  <2>3. mode' \in RequestTypes /\ mode' \notin {"h_blank", "coincidence"}
    BY <2>1 DEF RequestTypes
  <2> HIDE DEF next, last, line0, line1, line2, line3, others
  <2>4. interrupt_request' = line2.active \ {"h_blank"}
    BY <1>1, <2>1, <2>2, Requests DEF Drive, line3, RequestTypes
  <2>5. mode' \in enables => mode' \in line2.active
    BY <1>1, <2>1, <2>2, <2>3, Requests DEF line2
  <2>6. next = lyc /\ "coincidence" \in enables => "coincidence" \in line2.active
    <3>1. next = lyc /\ "coincidence" \in enables => "coincidence" \in line0.active
      BY <1>1, <2>2, Requests DEF line0
    <3>2. line0.active \ {"v_blank", "oam"} \subseteq line2.active
      BY <1>1, <2>1, <2>2, <2>3, Requests DEF line1, line2, RequestTypes
    <3> QED
      BY <3>1, <3>2
  <2>7. Recorded'
    BY <1>1, <2>1, <2>3, <2>4, <2>5, <2>6 DEF Recorded
  <2>8. ASSUME NEW t \in {"h_blank", "coincidence"}, t \in interrupt_request,
               t = "coincidence" => next = lyc
        PROVE  ~RaisesStat
    <3>1. Held(Line, t)
      BY <2>2, <2>8 DEF Held, Line
    <3>2. Held(line0, t)
      BY <1>1, <2>8, <3>1, HeldKept DEF line0
    <3>3. Held(line1, t)
      BY <1>1, <3>2, HeldKept DEF line1, RequestTypes
    <3>4. Held(line2, t)
      BY <1>1, <2>1, <2>3, <3>3, HeldKept DEF line2
    <3>5. line3.raised = FALSE
      BY <1>1, <2>2, <3>4, Requests DEF line3, Held, RequestTypes
    <3> QED
      BY <2>1, <3>5 DEF Drive, RaisesStat, others
  <2>9. /\ mode \in enables => "h_blank" \in interrupt_request
        /\ "coincidence" \in enables /\ coincidence => "coincidence" \in interrupt_request
    BY <1>1 DEF Recorded
  <2> QED
    BY <1>1, <2>1, <2>7, <2>8, <2>9
<1> QED
  BY <1>2, <1>3

LEMMA VblankStat ==
    ASSUME IInv, Recorded, NEW cycles \in TickCycles, TickVblank(cycles)
    PROVE  /\ Recorded'
           /\ mode \in enables \/ (/\ "coincidence" \in enables
                                   /\ ComparisonHolds /\ coincidence')
                  => ~RaisesStat
<1> USE Sizes, LengthsHold DEF Lengths
<1> DEFINE total == cycle_count + cycles
           spent == secondary_cycle_count + cycles
           wraps == Wraps(spent)
           rest  == IF wraps THEN spent - LineCycles ELSE spent
           count == IF wraps THEN vblank_line + 1 ELSE vblank_line
           moves == wraps /\ count < VblankLines
           ly1   == IF moves THEN (ly + 1) % 256 ELSE ly
           line1 == IF moves THEN Compare(Line, ly1, lyc) ELSE Line
           clear == ClearsLy(total, rest, ly1)
           ly2   == IF clear THEN 0 ELSE ly1
           line2 == IF clear THEN Compare(line1, 0, lyc) ELSE line1
           ends  == total >= VblankCycles
           freed == Release(line2, {"h_blank", "oam"})
           line3 == RequestIfEnabled(freed, "oam")
           line4 == IF ends THEN Release(line3, {"v_blank"}) ELSE line2
<1>1. /\ TypeOK /\ mode = "v_blank" /\ UNCHANGED enables /\ lcd_enabled
      /\ coincidence' = IF moves \/ clear THEN ly2 = lyc ELSE coincidence
      /\ mode' = IF ends THEN "oam" ELSE "v_blank"
      /\ Drive(line4, {})
  BY DEF IInv, TickVblank
<1>2. /\ Line \in LineType /\ line1 \in LineType /\ line2 \in LineType
      /\ freed \in LineType /\ line3 \in LineType /\ line4 \in LineType
  BY <1>1, LineTyped DEF RequestTypes
\* When LY moves to its maximum and is cleared at once, it did not match before
\* and does not match after.
<1>3. ASSUME moves, clear, ly = lyc PROVE ly2 # lyc
  <2>1. ly = lyc
    BY <1>3
  <2>2. ly \in 0..255 /\ vblank_line \in Nat
    BY <1>1 DEF TypeOK, Ly
  <2>3. ly1 = LyMax /\ ly2 = 0
    BY <1>3 DEF ClearsLy
  <2>4. ly1 = (ly + 1) % 256 /\ vblank_line + 1 < VblankLines
    BY <1>3
  <2> HIDE DEF ly1, ly2
  <2> QED
    BY <2>1, <2>2, <2>3, <2>4
<1> HIDE DEF total, rest, count, moves, ly1, line1, clear, ly2, line2, ends, freed,
             line3, line4
<1>4. /\ interrupt_request \ {"coincidence"} \subseteq line2.active
      /\ IF moves \/ clear
         THEN ly2 = lyc /\ "coincidence" \in enables => "coincidence" \in line2.active
         ELSE line2.active = interrupt_request
  <2>1. Line.active = interrupt_request
    BY DEF Line
  <2>2. /\ interrupt_request \ {"coincidence"} \subseteq line1.active
        /\ moves /\ ly1 = lyc /\ "coincidence" \in enables => "coincidence" \in line1.active
        /\ ~moves => line1.active = interrupt_request
    BY <1>1, <1>2, <2>1, Requests DEF line1
  <2>3. CASE clear
    <3>1. line2 = Compare(line1, 0, lyc) /\ ly2 = 0
      BY <2>3 DEF line2, ly2
    <3> QED
      BY <1>1, <1>2, <2>2, <2>3, <3>1, Requests
  <2>4. CASE ~clear
    <3>1. line2 = line1 /\ ly2 = ly1
      BY <2>4 DEF line2, ly2
    <3> QED
      BY <2>2, <2>4, <3>1
  <2> QED
    BY <2>3, <2>4
<1>5. Recorded'
  <2>1. coincidence' /\ "coincidence" \in enables => "coincidence" \in line2.active
    BY <1>1, <1>4 DEF Recorded
  <2>2. CASE ends
    <3>1. /\ line2.active \ {"h_blank", "oam", "v_blank"} \subseteq line4.active
          /\ "oam" \in enables => "oam" \in line4.active
      BY <1>1, <1>2, <2>2, Requests DEF freed, line3, line4, RequestTypes
    <3> QED
      BY <1>1, <2>1, <2>2, <3>1 DEF Recorded, Drive
  <2>3. CASE ~ends
    <3>1. interrupt_request' = line2.active
      BY <1>1, <2>3 DEF Drive, line4
    <3> QED
      BY <1>1, <1>4, <2>1, <2>3, <3>1 DEF Recorded
  <2> QED
    BY <2>2, <2>3
<1>6. ASSUME NEW t \in {"v_blank", "coincidence"}, t \in interrupt_request,
             t = "coincidence" => ly = lyc /\ coincidence'
      PROVE  ~RaisesStat
  <2>1. Held(Line, t)
    BY <1>2, <1>6 DEF Held, Line
  <2>2. /\ t = "coincidence" /\ clear => ~moves /\ lyc = 0
        /\ t = "coincidence" /\ moves => ~clear /\ ly1 = lyc
    BY <1>1, <1>3, <1>6 DEF ly2
  <2>3. Held(line1, t)
    BY <1>1, <1>6, <2>1, <2>2, HeldKept DEF line1
  <2>4. Held(line2, t)
    BY <1>1, <1>6, <2>2, <2>3, HeldKept DEF line2
  <2>5. Held(line3, t)
    BY <1>1, <1>6, <2>4, HeldKept DEF freed, line3, RequestTypes
  <2>6. line4.raised = FALSE
    BY <1>1, <1>2, <2>4, <2>5, Requests DEF line4, Held, RequestTypes
  <2> QED
    BY <1>1, <2>6 DEF Drive, RaisesStat
<1>7. /\ mode \in enables => "v_blank" \in interrupt_request
      /\ "coincidence" \in enables /\ coincidence => "coincidence" \in interrupt_request
  BY <1>1 DEF Recorded
<1> QED
  BY <1>1, <1>5, <1>6, <1>7 DEF ComparisonHolds

\* The other ticks of a screen that is on request at most the interrupt of the
\* horizontal blank.
LEMMA LineStat ==
    ASSUME IInv, Recorded, NEW cycles \in TickCycles, TickOam(cycles) \/ TickVram(cycles)
    PROVE  /\ Recorded'
           /\ mode \in enables \/ (/\ "coincidence" \in enables
                                   /\ coincidence /\ coincidence')
                  => ~RaisesStat
<1> DEFINE freed == Release(Line, {"h_blank", "v_blank", "oam"})
           line  == RequestIfEnabled(freed, "h_blank")
<1>1. TypeOK /\ mode \in {"oam", "vram"} /\ UNCHANGED <<enables, coincidence>>
  BY DEF IInv, TickOam, TickVram, StaysInMode
<1>2. \/ UNCHANGED <<mode, interrupt_request, interrupt_flags>>
      \/ mode = "oam" /\ mode' = "vram" /\ Drive(freed, {})
      \/ mode = "vram" /\ mode' = "h_blank" /\ Drive(line, {})
  BY DEF TickOam, TickVram, StaysInMode
<1>3. Line \in LineType /\ freed \in LineType /\ line \in LineType
  BY <1>1, LineTyped DEF RequestTypes
<1>4. Line.active = interrupt_request /\ Line.raised = FALSE
  BY DEF Line
<1> HIDE DEF freed, line
<1>5. /\ freed.active = interrupt_request \ {"h_blank", "v_blank", "oam"}
      /\ freed.raised = FALSE
  BY <1>1, <1>3, <1>4, Requests DEF freed, RequestTypes
<1>6. /\ freed.active \subseteq line.active
      /\ "h_blank" \in enables => "h_blank" \in line.active
  BY <1>1, <1>3, Requests DEF line, RequestTypes
<1>7. "vram" \notin enables
  BY <1>1 DEF TypeOK, RequestTypes
<1>8. CASE UNCHANGED <<mode, interrupt_request, interrupt_flags>>
  BY <1>1, <1>8 DEF Recorded, RaisesStat
<1>9. CASE mode = "oam" /\ mode' = "vram" /\ Drive(freed, {})
  BY <1>1, <1>5, <1>7, <1>9 DEF Drive, Recorded, RaisesStat
<1>10. CASE mode = "vram" /\ mode' = "h_blank" /\ Drive(line, {})
  <2>1. Recorded'
    BY <1>1, <1>5, <1>6, <1>10 DEF Drive, Recorded
  <2>2. ASSUME "coincidence" \in enables, coincidence PROVE ~RaisesStat
    <3>1. Held(freed, "coincidence")
      BY <1>3, <1>5, <2>2 DEF Held, Recorded
    <3>2. Held(line, "coincidence")
      BY <1>1, <3>1, HeldKept DEF line, RequestTypes
    <3> QED
      BY <1>10, <3>2 DEF Held, Drive, RaisesStat
  <2> QED
    BY <1>7, <1>10, <2>1, <2>2
<1> QED
  BY <1>2, <1>8, <1>9, <1>10

\* With the screen on, no operation but a write to STAT with other enables makes
\* the line go up unrecorded.
LEMMA NextRecorded ==
    ASSUME IInv, Recorded, Next, lcd_enabled, lcd_enabled',
           UNCHANGED enables
    PROVE  Recorded'
<1>1. TypeOK /\ Line \in LineType /\ mode # "coincidence"
  BY LineTyped DEF IInv, TypeOK
<1>2. ASSUME NEW cycles \in TickCycles, Tick(cycles) PROVE Recorded'
  BY <1>2, HblankStat, VblankStat, LineStat DEF Tick, TickOff, TickEnabling
<1>3. ASSUME NEW on \in BOOLEAN, WriteLcdc(on) PROVE Recorded'
  <2>1. on
    BY <1>3, Zenon DEF WriteLcdc
  <2> QED
    BY <1>3, <2>1 DEF WriteLcdc, Recorded
<1>4. ASSUME NEW new \in StatWrites, WriteStat(new) PROVE Recorded'
  <2> DEFINE kept == [active |-> interrupt_request \cap new, raised |-> FALSE]
             now  == mode # "vram" /\ mode \in new /\ kept.active = {}
             line == IF ly = lyc
                     THEN IF "coincidence" \in new THEN Request(kept, "coincidence")
                                                   ELSE kept
                     ELSE Release(kept, {"coincidence"})
             line2 == [line EXCEPT !.raised = @ \/ now]
  <2>1. /\ new = enables /\ UNCHANGED mode
        /\ IF lcdc_on THEN Drive(line2, {}) /\ coincidence' = (ly = lyc)
                      ELSE Drive(kept, {}) /\ UNCHANGED coincidence
    BY <1>4 DEF WriteStat
  <2>2. kept \in LineType /\ kept.active = interrupt_request \cap enables
    BY <1>1, <2>1 DEF TypeOK, LineType
  <2>3. line = Compare(kept, ly, lyc)
    BY <2>1 DEF Compare, RequestIfEnabled
  <2>4. line \in LineType
    BY <1>1, <2>2, <2>3, LineTyped
  <2>5. line2.active = line.active
    <3> HIDE DEF line, now
    <3> QED
      BY <2>4 DEF LineType
  <2> HIDE DEF kept, line, line2
  <2>6. /\ kept.active \ {"coincidence"} \subseteq line.active
        /\ ly = lyc /\ "coincidence" \in enables => "coincidence" \in line.active
    BY <1>1, <2>2, <2>3, Requests
  <2>7. CASE lcdc_on
    <3>1. interrupt_request' = line.active /\ coincidence' = (ly = lyc)
      BY <2>1, <2>5, <2>7 DEF Drive
    <3> QED
      BY <1>1, <2>1, <2>2, <2>6, <3>1 DEF Recorded
  <2>8. CASE ~lcdc_on
    <3>1. interrupt_request' = kept.active /\ UNCHANGED coincidence
      BY <2>1, <2>8 DEF Drive
    <3> QED
      BY <2>1, <2>2, <3>1 DEF Recorded
  <2> QED
    BY <2>7, <2>8
<1>5. ASSUME WriteLy PROVE Recorded'
  BY <1>1, <1>5, ComparedRecorded DEF WriteLy
<1>6. ASSUME NEW value \in LycValues, WriteLyc(value) PROVE Recorded'
  <2>1. CASE UNCHANGED <<coincidence, interrupt_request>>
    BY <1>6, <2>1 DEF WriteLyc, Recorded
  <2>2. CASE ~UNCHANGED <<coincidence, interrupt_request>>
    BY <1>1, <1>6, <2>2, ComparedRecorded DEF WriteLyc
  <2> QED
    BY <2>1, <2>2
<1>7. ASSUME NEW flag, ClearInterruptFlag(flag) PROVE Recorded'
  BY <1>7 DEF ClearInterruptFlag, Recorded
<1> QED
  BY <1>2, <1>3, <1>4, <1>5, <1>6, <1>7 DEF Next, SomeTick, RegisterWrite

\* A tick raises the STAT interrupt only if no condition that lasts held the line.
OnceOnly ==
    SomeTick /\ lcd_enabled /\ RaisesStat /\ ~unrecorded
        => /\ mode \notin enables
           /\ ~("coincidence" \in enables /\ ComparisonHolds /\ coincidence')

\* What a behaviour about the STAT line keeps.
StatInv ==
    /\ IInv
    /\ lcd_enabled /\ ~unrecorded => Recorded

LEMMA StatStep ==
    ASSUME StatInv, Next, Stat
    PROVE  StatInv' /\ OnceOnly
<1>1. IInv'
  BY NextIInv DEF StatInv
<1>2. ASSUME lcd_enabled', ~unrecorded' PROVE Recorded'
  <2>1. \/ ~StatUp'
        \/ ~unrecorded /\ enables' = enables /\ lcd_enabled' = lcd_enabled
    BY <1>2, Zenon DEF Stat
  <2>2. CASE ~StatUp'
    BY <2>2 DEF StatUp, Recorded
  <2>3. CASE ~unrecorded /\ enables' = enables /\ lcd_enabled' = lcd_enabled
    <3>1. lcd_enabled
      BY <1>2, <2>3
    <3> QED
      BY <1>2, <2>3, <3>1, NextRecorded DEF StatInv
  <2> QED
    BY <2>1, <2>2, <2>3
<1>3. OnceOnly
  <2> SUFFICES ASSUME SomeTick, lcd_enabled, RaisesStat, ~unrecorded
               PROVE  /\ mode \notin enables
                      /\ ~("coincidence" \in enables /\ ComparisonHolds /\ coincidence')
    BY DEF OnceOnly
  <2>1. PICK cycles \in TickCycles : Tick(cycles)
    BY DEF SomeTick
  <2>2. IInv /\ Recorded
    BY DEF StatInv
  <2>3. \/ TickHblank(cycles) \/ TickVblank(cycles)
        \/ TickOam(cycles) \/ TickVram(cycles)
    BY <2>1 DEF Tick, TickOff, TickEnabling
  <2> QED
    BY <2>2, <2>3, HblankStat, VblankStat, LineStat DEF ComparisonHolds
<1> QED
  BY <1>1, <1>2, <1>3 DEF StatInv

\* A tick never interrupts again while the STAT line stays up, whatever the
\* program enables, compares and switches, unless the line went up unrecorded or
\* the bit of the comparison is left over from another LYC.
THEOREM StatOnce == MCSpec => StatInterruptsOnce
<1> DEFINE I == scene = "stat" => StatInv
           A == scene = "stat" /\ SomeTick /\ lcd_enabled /\ RaisesStat /\ ~unrecorded
                    => /\ mode \notin enables
                       /\ ~("coincidence" \in enables /\ ComparisonHolds /\ coincidence')
<1>1. MCInit => I
  <2> SUFFICES ASSUME MCInit PROVE StatInv
    OBVIOUS
  <2>1. Init
    BY DEF MCInit, DmaInit
  <2>2. Recorded
    BY <2>1 DEF Init, Recorded
  <2> QED
    BY <2>1, <2>2, InitIInv DEF StatInv
<1>2. I /\ [MCNext]_mcvars => I' /\ [A]_mcvars
  <2> SUFFICES ASSUME I, [MCNext]_mcvars, scene' = "stat"
               PROVE  StatInv' /\ [A]_mcvars
    <3>1. ASSUME [MCNext]_mcvars PROVE scene' = scene
      BY <3>1 DEF MCNext, PictureNext, TransferNext, Others, mcvars
    <3> HIDE DEF I
    <3> QED
      BY <3>1 DEF I, A
  <2>1. scene = "stat"
    BY DEF MCNext, PictureNext, TransferNext, Others, mcvars
  <2>2. CASE UNCHANGED mcvars
    <3>1. UNCHANGED vars
      BY <2>2 DEF mcvars, all_vars
    <3>2. IInv'
      BY <2>1, <3>1, StutterIInv DEF StatInv
    <3>3. StatInv'
      BY <2>1, <2>2, <3>1, <3>2
         DEF mcvars, vars, counters, screen, StatInv, Recorded
    <3> QED
      BY <2>2, <3>3
  <2>3. CASE MCNext
    <3>1. Next /\ Stat
      BY <2>1, <2>3 DEF MCNext, PictureNext, TransferNext, Frames
    <3> QED
      BY <2>1, <3>1, StatStep DEF OnceOnly
  <2> QED
    BY <2>2, <2>3
<1> HIDE DEF I, A
<1>3. MCSpec => [][A]_mcvars
  BY <1>1, <1>2, PTL DEF MCSpec
<1> QED
  BY <1>3 DEF StatInterruptsOnce, A
=============================================================================
