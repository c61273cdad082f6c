------------------------------ MODULE VideoDma ------------------------------
(***************************************************************************)
(* The transfers into video and object memory (ppu.cpp:346-386, 597-629,   *)
(* mmu.cpp:178-183), on top of the timing of module Ppu: the end of a      *)
(* horizontal blank moves a block, and the mode of the screen decides      *)
(* whether the memories take what is stored.                               *)
(*                                                                         *)
(* Addresses are blocks, and what a block holds is named by the cell it    *)
(* was first read from.  The masks of HDMA2 and HDMA4 make every address a *)
(* block once they are written; before that, and after a general transfer  *)
(* has left the destination outside the video memory, the program starts   *)
(* nothing.                                                                *)
(***************************************************************************)
EXTENDS Ppu, MemoryMap

CONSTANTS
    DisabledBit,    \* bit 7 of HDMA5, 128
    HdmaPages,      \* the high bytes the program writes to HDMA1 and FF46
    StoredBlocks    \* the blocks the program stores to

ASSUME DmaAssumption == /\ DisabledBit \in Nat \ {0}
                        /\ HdmaPages \subseteq Nat
                        /\ StoredBlocks \subseteq Blocks

VARIABLES
    source, destination, length_mode_start,    \* dma_transfer_
    vram_bank, wram_bank,
    memory                                     \* of Cells

dma_registers == <<source, destination, length_mode_start>>
banks == <<vram_bank, wram_bank>>
dma_vars == <<dma_registers, banks, memory>>
all_vars == <<vars, dma_vars>>

Page(block) == block \div PageBlocks
InPage(page, block) == page * PageBlocks + (block % PageBlocks)

\* 0xFFFF, which is in the last page but no block.
LastPage == Page(OamBegin) + 1
Unset == (LastPage + 1) * PageBlocks
High(register) == IF register = Unset THEN LastPage ELSE Page(register)

Stored == <<"stored">>      \* what the program stores
AllOnes == <<"FF">>         \* what a memory in use reads as

DmaInit ==
    /\ Init
    /\ source = Unset
    /\ destination = Unset
    /\ length_mode_start = 2 * DisabledBit - 1
    /\ vram_bank = 0
    /\ wram_bank = 1
    /\ memory = [c \in Cells |-> c]

disabled == length_mode_start >= DisabledBit

-----------------------------------------------------------------------------
\* The screen keeps its memories to itself in this mode.
InUse(region, during) ==
    \/ region = "vram" /\ during = "vram"
    \/ region = "oam" /\ during \in {"oam", "vram"}

\* mmu::read, mmu::write; a store to the ROM is the controller's.
Load(m, block, during) ==
    IF InUse(Region(block), during) THEN AllOnes
                                    ELSE m[Cell(block, vram_bank, wram_bank)]
Store(m, block, data, during) ==
    IF InUse(Region(block), during) \/ Region(block) = "rom" THEN m
    ELSE [m EXCEPT ![Cell(block, vram_bank, wram_bank)] = data]

\* mmu::dma, block after block.
Copied(from, to, length, during) ==
    LET copy[i \in 0..length] ==
          IF i = 0 THEN memory
          ELSE Store(copy[i - 1], to + i - 1, Load(copy[i - 1], from + i - 1, during),
                     during)
    IN  copy[length]

\* A defect the checks notice: the transfer runs on past the end of the video
\* memory.
RunsPast(block) == block

\* Where an hdma() goes on: the video memory is skipped by the source and is a
\* ring for the destination.
NextSource(block) == IF block = VramBegin THEN XramBegin ELSE block
NextDestination(block) == IF block = XramBegin THEN VramBegin ELSE block

\* hdma(): one block, in the mode given.
Hdma(data, during) ==
    /\ memory' = Copied(source, destination, 1, during)
    /\ source' = NextSource(source + 1)
    /\ destination' = NextDestination(destination + 1)
    /\ length_mode_start' = (data - 1) % (2 * DisabledBit)

\* length(), in blocks.
Length(data) == (data % DisabledBit) + 1

\* gdma(): all blocks at once.
Gdma(data, during) ==
    /\ memory' = Copied(source, destination, Length(data), during)
    /\ source' = source + Length(data)
    /\ destination' = destination + Length(data)
    /\ length_mode_start' = 2 * DisabledBit - 1

-----------------------------------------------------------------------------
\* ppu::tick: the block is moved when the mode has changed already.
HblankEnds == lcd_enabled /\ mode = "h_blank" /\ mode' # "h_blank"

TickDma(cycles) ==
    /\ Tick(cycles)
    /\ IF HblankEnds /\ Cgb /\ ~disabled THEN Hdma(length_mode_start, "oam")
                                         ELSE UNCHANGED <<dma_registers, memory>>
    /\ UNCHANGED banks

\* The stores that leave the timing alone.
TimingUnchanged ==
    /\ shown' = FALSE
    /\ UNCHANGED <<counters, screen, lcdc_on, mode, coincidence, enables,
                   ly, lyc, interrupt_request, interrupt_flags>>

\* HDMA1: the video memory and the echo are no source.
WriteHdma1(high) ==
    /\ source # Unset
    /\ source' = IF high \in Page(VramBegin)..Page(XramBegin) - 1 \/ high >= Page(EchoBegin)
                 THEN InPage(0, source)
                 ELSE InPage(high, source)
    /\ UNCHANGED <<destination, length_mode_start, banks, memory>>
    /\ TimingUnchanged

WriteHdma2(low) ==
    /\ source' = InPage(High(source), low)
    /\ UNCHANGED <<destination, length_mode_start, banks, memory>>
    /\ TimingUnchanged

\* HDMA3: always a page of the video memory.
WriteHdma3(high) ==
    /\ destination # Unset
    /\ destination' = InPage(Page(VramBegin) + (high % Page(XramBegin - VramBegin)),
                             destination)
    /\ UNCHANGED <<source, length_mode_start, banks, memory>>
    /\ TimingUnchanged

WriteHdma4(low) ==
    /\ destination' = InPage(High(destination), low)
    /\ UNCHANGED <<source, length_mode_start, banks, memory>>
    /\ TimingUnchanged

\* A program starts a transfer when it has set where to, and reads no registers.
Prepared == {source, source + DisabledBit} \subseteq Blocks /\ Region(destination) = "vram"

\* HDMA5: under way, a transfer takes the new length and goes on, whatever bit 7
\* asks for; else bit 7 chooses between a block for each horizontal blank, the
\* one under way included, and all of them now.
WriteHdma5(data) ==
    /\ Prepared
    /\ LET length == data % DisabledBit
           later  == /\ length_mode_start' = length
                     /\ UNCHANGED <<source, destination, memory>>
       IN  IF ~disabled THEN later
           ELSE IF data < DisabledBit THEN Gdma(data, mode)
           ELSE IF mode = "h_blank" THEN Hdma(length, mode)
           ELSE later
    /\ UNCHANGED banks
    /\ TimingUnchanged

\* FF46: a page into the object memory, at once.
WriteOamDma(page) ==
    /\ memory' = Copied(page * PageBlocks, OamBegin, OamBlocks, mode)
    /\ UNCHANGED <<dma_registers, banks>>
    /\ TimingUnchanged

\* vbk, svbk
WriteVbk(data) ==
    /\ vram_bank' = data % 2
    /\ UNCHANGED <<dma_registers, wram_bank, memory>>
    /\ TimingUnchanged

WriteSvbk(data) ==
    /\ wram_bank' = SelectedBank(data)
    /\ UNCHANGED <<dma_registers, vram_bank, memory>>
    /\ TimingUnchanged

\* A store of the program.
WriteMemory(block) ==
    /\ memory' = Store(memory, block, Stored, mode)
    /\ UNCHANGED <<dma_registers, banks>>
    /\ TimingUnchanged

SetupWrite ==
    /\ Cgb
    /\ \/ \E high \in HdmaPages : WriteHdma1(high) \/ WriteHdma3(high)
       \/ \E low \in 0..PageBlocks - 1 : WriteHdma2(low) \/ WriteHdma4(low)
       \/ \E bank \in 0..1 : WriteVbk(bank)
       \/ \E bank \in 0..WorkBanks - 1 : WriteSvbk(bank)

StartWrite == Cgb /\ \E data \in 0..2 * DisabledBit - 1 : WriteHdma5(data)

MemoryWrite ==
    \/ \E page \in HdmaPages : WriteOamDma(page)
    \/ \E block \in StoredBlocks : WriteMemory(block)

TimingWrite ==
    /\ \/ RegisterWrite
       \/ \E s \in {"lcd_vblank", "lcd_stat"} : ClearInterruptFlag(s)
    /\ UNCHANGED dma_vars

DmaNext ==
    \/ \E cycles \in TickCycles : TickDma(cycles)
    \/ SetupWrite
    \/ StartWrite
    \/ MemoryWrite
    \/ TimingWrite

DmaSpec == DmaInit /\ [][DmaNext]_all_vars
=============================================================================
