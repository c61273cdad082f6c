----------------------------- MODULE Cartridge ------------------------------
(***************************************************************************)
(* Cartridges, their memory bank controllers and their save files          *)
(* (gameboy/src/cartridge.cpp and gameboy/src/memory/controller/): what    *)
(* load_rom sets up, the bank registers a program writes through the ROM   *)
(* addresses, the external RAM, and what reaches the disk and comes back.  *)
(*                                                                         *)
(* A bank of RAM is one cell that holds the cartridge whose program wrote  *)
(* it last.  The clock of an MBC3 is the subject of module Rtc.            *)
(***************************************************************************)
EXTENDS Integers

CONSTANTS
    Cartridges,
    Type,        \* the controller a cartridge's header names, "rom" for none
    RomBanks,    \* rom_bank_count_
    RamBanks,    \* ram_bank_count_
    Battery,     \* has_battery_
    Bytes        \* what a program writes to the registers of the controller

Controllers == {"mbc1", "mbc2", "mbc3", "mbc5"}

ASSUME CartridgesAssumption ==
    /\ Type \in [Cartridges -> Controllers \cup {"rom"}]
    /\ RomBanks \in [Cartridges -> {2, 4, 8, 16, 32, 64, 72, 80, 96, 128, 256, 512}]
    /\ RamBanks \in [Cartridges -> {0, 1, 4, 8, 16}]
    /\ Battery \in [Cartridges -> BOOLEAN]
    /\ Bytes \subseteq 0..255

None == "none"

VARIABLES
    inserted,   \* the cartridge of rom_path_, None before the first load_rom
    mbc,        \* mbc_
    ram,        \* ram_: the size of a bank and what the banks hold
    files       \* the save files, by cartridge

vars == <<inserted, mbc, ram, files>>

-----------------------------------------------------------------------------
\* The members of a new controller; "rom" is mbc_regular.
Fresh(kind) ==
    [kind |-> kind, rom_bank |-> 1, ram_bank |-> 0, ram_enabled |-> FALSE,
     rom_banking_active |-> TRUE]

Zeros(bank_size, banks) ==
    [bank_size |-> bank_size, cells |-> [bank \in 0..banks - 1 |-> "zero"]]

NoRam == Zeros(8192, 0)

SameSize(a, b) == a.bank_size = b.bank_size /\ DOMAIN a.cells = DOMAIN b.cells

-----------------------------------------------------------------------------
\* The bitwise conjunction of a bank number and a mask of at most nine bits.
And(bank, mask) ==
    LET common(weight) == IF (bank \div weight) % 2 = 1 /\ (mask \div weight) % 2 = 1
                          THEN weight ELSE 0
    IN  common(1) + common(2) + common(4) + common(8) + common(16)
            + common(32) + common(64) + common(128) + common(256)

\* Defect the checks notice: masked with the number of banks.
MaskedByCount(bank, banks) == IF banks = 0 THEN bank ELSE And(bank, banks)

\* Masked with the number of banks less one, in 32 bits: no banks, no mask.
Masked(bank, banks) == IF banks = 0 THEN bank ELSE And(bank, banks - 1)

\* What the bank registers select at 0x4000-0x7FFF.
SelectedRom ==
    IF mbc.kind = "mbc1" THEN mbc.rom_bank + 32 * mbc.ram_bank ELSE mbc.rom_bank

\* rom_bank(): the ROM banks at 0x0000-0x3FFF and at 0x4000-0x7FFF
FirstRomBank ==
    IF mbc.kind = "mbc1" /\ ~mbc.rom_banking_active
    THEN Masked(32 * mbc.ram_bank, RomBanks[inserted])
    ELSE 0

SecondRomBank == Masked(SelectedRom, RomBanks[inserted])

\* ram_bank(), and wrap_address() of an MBC2: one bank, whatever is selected.
RamBank ==
    CASE mbc.kind = "mbc2" -> 0
      [] mbc.kind = "mbc1" /\ mbc.rom_banking_active -> 0
      [] OTHER -> Masked(mbc.ram_bank, RamBanks[inserted])

-----------------------------------------------------------------------------
Init ==
    /\ inserted = None
    /\ mbc = Fresh("rom")
    /\ ram = NoRam
    /\ files = [c \in Cartridges |-> NoRam]

\* Defect the checks notice: RAM that is resized and not filled.
AllocatedUnfilled(c) ==
    LET zeros == IF Type[c] = "mbc2" THEN Zeros(512, 1) ELSE Zeros(8192, RamBanks[c])
    IN  [zeros EXCEPT !.cells = [bank \in DOMAIN zeros.cells |->
            IF bank \in DOMAIN ram.cells THEN ram.cells[bank] ELSE "zero"]]

\* allocate_ram(): a cartridge without RAM leaves ram_ as it was.
Allocated(c) ==
    CASE Type[c] = "mbc2" -> Zeros(512, 1)
      [] Type[c] # "mbc2" /\ RamBanks[c] # 0 -> Zeros(8192, RamBanks[c])
      [] OTHER -> ram

\* load_rom().  The header of a cartridge without a controller sets none up,
\* and the save file is only read if it has the size of the RAM.
LoadRom(c) ==
    /\ inserted' = c
    /\ mbc' = IF Type[c] = "rom" THEN mbc ELSE Fresh(Type[c])
    /\ ram' = IF Battery[c] /\ SameSize(files[c], Allocated(c))
              THEN files[c] ELSE Allocated(c)
    /\ UNCHANGED files

\* save_ram_rtc(): the key S of the frontend
Save ==
    /\ inserted # None /\ Battery[inserted]
    /\ files' = [files EXCEPT ![inserted] = ram]
    /\ UNCHANGED <<inserted, mbc, ram>>

\* The end of main(), and a new start.
Quit ==
    /\ files' = IF inserted # None /\ Battery[inserted]
                THEN [files EXCEPT ![inserted] = ram] ELSE files
    /\ inserted' = None /\ mbc' = Fresh("rom") /\ ram' = NoRam

\* A gameboy of another program is destroyed: class gameboy declares no
\* destructor.  A process that is killed looks the same.
LeaveScope ==
    /\ inserted' = None /\ mbc' = Fresh("rom") /\ ram' = NoRam
    /\ UNCHANGED files

-----------------------------------------------------------------------------
\* set_ram_enabled(), which all controllers but MBC2 ignore without RAM banks.
Enable(data) ==
    [mbc EXCEPT !.ram_enabled =
        IF mbc.kind # "mbc2" /\ RamBanks[inserted] = 0 THEN @
        ELSE IF mbc.kind = "mbc5" THEN data = 10 ELSE data % 16 = 10]

\* The bank number 0 selects bank 1.
SelectRom(bank) == [mbc EXCEPT !.rom_bank = IF bank = 0 THEN 1 ELSE bank]

\* The RAM bank after a write of data; other data selects the clock of an MBC3.
SelectedRam(data) ==
    CASE mbc.kind = "mbc1" -> data % 4
      [] mbc.kind = "mbc3" -> IF data <= 3 THEN data ELSE mbc.ram_bank
      [] OTHER -> data % 16

\* mbc1::control()
Mbc1Controlled(area, data) ==
    CASE area = "0000-1FFF" -> Enable(data)
      [] area \in {"2000-2FFF", "3000-3FFF"} -> SelectRom(data % 32)
      [] area = "4000-5FFF" -> [mbc EXCEPT !.ram_bank = SelectedRam(data)]
      [] area = "6000-7FFF" -> [mbc EXCEPT !.rom_banking_active = data % 2 = 0]

\* mbc2::control(): below 0x4000 bit 8 of the address decides, not the area.
Mbc2Controlled(area, bit8, data) ==
    CASE area \notin {"0000-1FFF", "2000-2FFF", "3000-3FFF"} -> mbc
      [] area \in {"0000-1FFF", "2000-2FFF", "3000-3FFF"} /\ ~bit8 -> Enable(data)
      [] OTHER -> SelectRom(data % 16)

\* mbc3::control(), without the clock.
Mbc3Controlled(area, data) ==
    CASE area = "0000-1FFF" -> Enable(data)
      [] area \in {"2000-2FFF", "3000-3FFF"} -> SelectRom(data % 128)
      [] area = "4000-5FFF" -> [mbc EXCEPT !.ram_bank = SelectedRam(data)]
      [] OTHER -> mbc

\* mbc5::control(): nine bits of ROM bank, which may be 0.
Mbc5Controlled(area, data) ==
    CASE area = "0000-1FFF" -> Enable(data)
      [] area = "2000-2FFF" -> [mbc EXCEPT !.rom_bank = (256 * (@ \div 256)) + data]
      [] area = "3000-3FFF" -> [mbc EXCEPT !.rom_bank = (256 * (data % 2)) + (@ % 256)]
      [] area = "4000-5FFF" -> [mbc EXCEPT !.ram_bank = SelectedRam(data)]
      [] OTHER -> mbc

Areas == {"0000-1FFF", "2000-2FFF", "3000-3FFF", "4000-5FFF", "6000-7FFF"}

\* write_rom()
WriteRom(area, bit8, data) ==
    /\ inserted # None /\ mbc.kind # "rom"
    /\ mbc' = CASE mbc.kind = "mbc1" -> Mbc1Controlled(area, data)
                [] mbc.kind = "mbc2" -> Mbc2Controlled(area, bit8, data)
                [] mbc.kind = "mbc3" -> Mbc3Controlled(area, data)
                [] mbc.kind = "mbc5" -> Mbc5Controlled(area, data)
    /\ UNCHANGED <<inserted, ram, files>>

\* write_ram(): a write past the end is lost here.
WriteRam ==
    /\ inserted # None /\ mbc.ram_enabled
    /\ ram' = [ram EXCEPT !.cells = [bank \in DOMAIN @ |->
                  IF bank = RamBank THEN inserted ELSE @[bank]]]
    /\ UNCHANGED <<inserted, mbc, files>>

Next ==
    \/ \E c \in Cartridges : LoadRom(c)
    \/ Save \/ Quit \/ LeaveScope
    \/ \E area \in Areas, bit8 \in BOOLEAN, data \in Bytes : WriteRom(area, bit8, data)
    \/ WriteRam

Spec == Init /\ [][Next]_vars

-----------------------------------------------------------------------------
\* Whatever a program writes to the bank registers, ROM reads stay in rom_ and
\* enabled RAM accesses stay in ram_, also after another cartridge went in
\* (cartridge.cpp:290 and 332-375).
AccessInRange ==
    inserted # None =>
        /\ FirstRomBank < RomBanks[inserted]
        /\ SecondRomBank < RomBanks[inserted]
        /\ mbc.ram_enabled => RamBank \in DOMAIN ram.cells

\* No cartridge with RAM reads what another one wrote, and no save file holds
\* it, however the user switches, saves and restarts (cartridge.cpp:223-248).
NoForeignData ==
    /\ inserted # None /\ (RamBanks[inserted] # 0 \/ Type[inserted] = "mbc2") =>
           \A bank \in DOMAIN ram.cells : ram.cells[bank] \in {inserted, "zero"}
    /\ \A c \in Cartridges :
           \A bank \in DOMAIN files[c].cells : files[c].cells[bank] \in {c, "zero"}
=============================================================================
