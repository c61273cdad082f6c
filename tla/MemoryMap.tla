----------------------------- MODULE MemoryMap -----------------------------
(***************************************************************************)
(* Which cell an address reaches (gameboy/src/memory/mmu.cpp), in blocks   *)
(* of sixteen bytes, the unit of the video transfers.  The ranges are      *)
(* parameters, so that the map can be made small; the registers and the    *)
(* high RAM beyond the object memory take no part in a transfer and are    *)
(* left out.  The banks of the cartridge are in module Cartridge.          *)
(***************************************************************************)
EXTENDS Integers

CONSTANTS
    PageBlocks,     \* blocks of a page, the low byte of an address: 16
    VramBegin,      \* first blocks of the ranges: 0x800,
    XramBegin,      \* 0xA00,
    WramBegin,      \* 0xC00,
    BankedBegin,    \* 0xD00, the work RAM that svbk switches,
    EchoBegin,      \* 0xE00,
    OamBegin,       \* 0xFE0,
    OamBlocks,      \* blocks of the object memory, 10
    WorkBanks       \* 8 on a colour machine

ASSUME PageAssumption == PageBlocks \in Nat \ {0} /\ OamBlocks \in 1..PageBlocks
ASSUME OrderAssumption ==
    /\ VramBegin \in Nat \ {0} /\ WorkBanks \in Nat \ {0, 1}
    /\ VramBegin < XramBegin /\ XramBegin < WramBegin /\ WramBegin < BankedBegin
    /\ BankedBegin < EchoBegin /\ EchoBegin < OamBegin
    /\ OamBegin - EchoBegin <= EchoBegin - WramBegin

Blocks == 0..OamBegin + OamBlocks - 1

Region(block) ==
    CASE block < VramBegin -> "rom"
      [] block \in VramBegin..XramBegin - 1 -> "vram"
      [] block \in XramBegin..WramBegin - 1 -> "xram"
      [] block \in WramBegin..OamBegin - 1 -> "wram"
      [] OTHER -> "oam"

\* The work RAM an address names, directly or by its echo.
WorkBlock(block) ==
    IF block >= EchoBegin THEN block - (EchoBegin - WramBegin) ELSE block

\* physical_wram_addr and read_ram_by_bank: only the upper work RAM and the
\* video memory are banked.
Cell(block, vram_bank, wram_bank) ==
    LET region == Region(block)
    IN  CASE region = "vram" -> <<block, vram_bank>>
          [] region = "wram" ->
                <<WorkBlock(block),
                  IF WorkBlock(block) < BankedBegin THEN 0 ELSE wram_bank>>
          [] OTHER -> <<block, 0>>

Cells == {Cell(b, v, w) : b \in Blocks, v \in 0..1, w \in 1..WorkBanks - 1}

\* svbk: bank 0 cannot be selected.
SelectedBank(data) == IF data % WorkBanks = 0 THEN 1 ELSE data % WorkBanks
=============================================================================
