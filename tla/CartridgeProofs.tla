-------------------------- MODULE CartridgeProofs ---------------------------
(***************************************************************************)
(* Proofs about the cartridges and the clock of an MBC3, for every set of  *)
(* cartridges and everything their programs write.                         *)
(***************************************************************************)
EXTENDS MCCartridge, TLAPS

-----------------------------------------------------------------------------
(* The mask of a bank number. *)

\* The bits of a mask add up to it.
LEMMA BitsOfMask ==
    ASSUME NEW mask \in 0..511
    PROVE  mask = (mask % 2) + 2 * ((mask \div 2) % 2) + 4 * ((mask \div 4) % 2)
                  + 8 * ((mask \div 8) % 2) + 16 * ((mask \div 16) % 2)
                  + 32 * ((mask \div 32) % 2) + 64 * ((mask \div 64) % 2)
                  + 128 * ((mask \div 128) % 2) + 256 * ((mask \div 256) % 2)
BY SMTT(30)

\* What is common to two numbers is not more than either.
LEMMA AndBounded ==
    ASSUME NEW bank \in Nat, NEW mask \in 0..511
    PROVE  And(bank, mask) \in 0..mask
<1> DEFINE common(weight) == IF (bank \div weight) % 2 = 1 /\ (mask \div weight) % 2 = 1
                             THEN weight ELSE 0
<1>1. /\ common(1) \in {0, 1} /\ common(1) <= mask % 2
      /\ common(2) \in {0, 2} /\ common(2) <= 2 * ((mask \div 2) % 2)
      /\ common(4) \in {0, 4} /\ common(4) <= 4 * ((mask \div 4) % 2)
      /\ common(8) \in {0, 8} /\ common(8) <= 8 * ((mask \div 8) % 2)
      /\ common(16) \in {0, 16} /\ common(16) <= 16 * ((mask \div 16) % 2)
      /\ common(32) \in {0, 32} /\ common(32) <= 32 * ((mask \div 32) % 2)
      /\ common(64) \in {0, 64} /\ common(64) <= 64 * ((mask \div 64) % 2)
      /\ common(128) \in {0, 128} /\ common(128) <= 128 * ((mask \div 128) % 2)
      /\ common(256) \in {0, 256} /\ common(256) <= 256 * ((mask \div 256) % 2)
  OBVIOUS
<1>2. And(bank, mask) = common(1) + common(2) + common(4) + common(8) + common(16)
                          + common(32) + common(64) + common(128) + common(256)
  BY DEF And
<1> HIDE DEF common
<1>3. And(bank, mask) \in Nat /\ And(bank, mask) <= mask
  BY <1>1, <1>2, BitsOfMask, SMTT(30)
<1> QED
  BY <1>3

\* A masked bank is one of the banks there are.
LEMMA MaskedInRange ==
    ASSUME NEW bank \in Nat, NEW banks \in 1..512
    PROVE  Masked(bank, banks) \in 0..banks - 1
<1>1. banks - 1 \in 0..511 /\ banks # 0
  OBVIOUS
<1> QED
  BY <1>1, AndBounded DEF Masked

-----------------------------------------------------------------------------
(* Bank registers and the RAM behind them. *)

\* Every header names a controller.
WithController == \A cart \in Cartridges : Type[cart] # "rom"

\* A battery keeps some RAM.
BatteryKeepsRam ==
    \A cart \in Cartridges : Battery[cart] => RamBanks[cart] # 0 \/ Type[cart] = "mbc2"

\* The banks of RAM that a cartridge brings.
OwnBanks(cart) == IF Type[cart] = "mbc2" THEN 0..0 ELSE 0..RamBanks[cart] - 1

HasRam(cart) == RamBanks[cart] # 0 \/ Type[cart] = "mbc2"

\* The members of a controller.
MbcType ==
    [kind : Controllers \cup {"rom"}, rom_bank : Nat, ram_bank : Nat,
     ram_enabled : BOOLEAN, rom_banking_active : BOOLEAN]

\* The registers of the controller, which is that of the cartridge; RAM is only
\* enabled where the cartridge brings some, and then ram_ is what it brings.
Mounted ==
    /\ inserted \in Cartridges \cup {None}
    /\ mbc \in MbcType
    /\ "cells" \in DOMAIN ram
    /\ files = [cart \in Cartridges |-> files[cart]]
    /\ \A cart \in Cartridges : "cells" \in DOMAIN files[cart]
    /\ inserted # None =>
          /\ mbc.kind = Type[inserted]
          /\ mbc.ram_enabled => HasRam(inserted)
          /\ HasRam(inserted) => DOMAIN ram.cells = OwnBanks(inserted)

LEMMA CartridgeTypes ==
    ASSUME NEW cart \in Cartridges
    PROVE  /\ RamBanks[cart] \in 0..512
           /\ RomBanks[cart] \in 1..512
           /\ Type[cart] \in {"mbc1", "mbc2", "mbc3", "mbc5", "rom"}
           /\ Battery[cart] \in BOOLEAN
<1>1. RomBanks[cart] \in {2, 4, 8, 16, 32, 64, 72, 80, 96, 128, 256, 512}
  BY CartridgesAssumption
<1>2. RamBanks[cart] \in {0, 1, 4, 8, 16}
  BY CartridgesAssumption
<1>3. Type[cart] \in Controllers \cup {"rom"} /\ Battery[cart] \in BOOLEAN
  BY CartridgesAssumption
<1> QED
  BY <1>1, <1>2, <1>3 DEF Controllers

LEMMA FreshType ==
    ASSUME NEW kind \in Controllers \cup {"rom"}
    PROVE  Fresh(kind) \in MbcType /\ Fresh(kind).kind = kind /\ ~Fresh(kind).ram_enabled
BY DEF Fresh, MbcType

\* The RAM after allocate_ram().
LEMMA AllocatedBanks ==
    ASSUME NEW cart \in Cartridges, "cells" \in DOMAIN ram
    PROVE  /\ "cells" \in DOMAIN Allocated(cart)
           /\ HasRam(cart) =>
                /\ DOMAIN Allocated(cart).cells = OwnBanks(cart)
                /\ \A bank \in DOMAIN Allocated(cart).cells :
                       Allocated(cart).cells[bank] = "zero"
BY DEF HasRam, Allocated, Zeros, OwnBanks

\* A write to the registers leaves a controller of the same kind, and enables
\* the RAM only of a cartridge that has some.
LEMMA ControlType ==
    ASSUME mbc \in MbcType, inserted \in Cartridges, NEW area, NEW bit8, NEW data \in Bytes,
           WriteRom(area, bit8, data), area \in Areas
    PROVE  /\ mbc' \in MbcType /\ mbc'.kind = mbc.kind
           /\ mbc'.ram_enabled =>
                 mbc.ram_enabled \/ mbc.kind = "mbc2" \/ RamBanks[inserted] # 0
<1>1. data \in 0..255
  BY CartridgesAssumption
<1> DEFINE Fine(r) == /\ r \in MbcType /\ r.kind = mbc.kind
                      /\ r.ram_enabled =>
                            mbc.ram_enabled \/ mbc.kind = "mbc2" \/ RamBanks[inserted] # 0
<1>2. Fine(mbc)
  OBVIOUS
<1>3. Fine(Enable(data))
  <2>1. (data = 10) \in BOOLEAN /\ (data % 16 = 10) \in BOOLEAN
    OBVIOUS
  <2> DEFINE e == IF mbc.kind # "mbc2" /\ RamBanks[inserted] = 0 THEN mbc.ram_enabled
                  ELSE IF mbc.kind = "mbc5" THEN data = 10 ELSE data % 16 = 10
  <2>2. e \in BOOLEAN /\ (e => mbc.ram_enabled \/ mbc.kind = "mbc2" \/ RamBanks[inserted] # 0)
    BY <2>1, Zenon DEF MbcType
  <2>3. Enable(data) = [mbc EXCEPT !.ram_enabled = e]
    BY DEF Enable
  <2> HIDE DEF e
  <2> QED
    BY <2>2, <2>3 DEF MbcType
<1>4. \A bank \in Nat : Fine(SelectRom(bank))
  BY DEF SelectRom, MbcType
<1>5. Fine([mbc EXCEPT !.ram_bank = SelectedRam(data)])
  <2>1. SelectedRam(data) \in Nat
    BY <1>1 DEF SelectedRam, MbcType
  <2> QED
    BY <2>1 DEF MbcType
<1>6. Fine([mbc EXCEPT !.rom_banking_active = data % 2 = 0])
  <2>1. (data % 2 = 0) \in BOOLEAN
    OBVIOUS
  <2> QED
    BY <2>1 DEF MbcType
<1>7. /\ Fine([mbc EXCEPT !.rom_bank = (256 * (@ \div 256)) + data])
      /\ Fine([mbc EXCEPT !.rom_bank = (256 * (data % 2)) + (@ % 256)])
  <2>1. /\ (256 * (mbc.rom_bank \div 256)) + data \in Nat
        /\ (256 * (data % 2)) + (mbc.rom_bank % 256) \in Nat
    BY <1>1 DEF MbcType
  <2> QED
    BY <2>1 DEF MbcType
<1>8. data % 32 \in Nat /\ data % 16 \in Nat /\ data % 128 \in Nat
  BY <1>1
<1> HIDE DEF Fine
<1>9. Fine(mbc')
  <2>1. CASE mbc.kind = "mbc1"
    BY <2>1, <1>2, <1>3, <1>4, <1>5, <1>6, <1>8 DEF WriteRom, Mbc1Controlled, Areas
  <2>2. CASE mbc.kind = "mbc2"
    BY <2>2, <1>2, <1>3, <1>4, <1>8 DEF WriteRom, Mbc2Controlled, Areas
  <2>3. CASE mbc.kind = "mbc3"
    BY <2>3, <1>2, <1>3, <1>4, <1>5, <1>8 DEF WriteRom, Mbc3Controlled, Areas
  <2>4. CASE mbc.kind = "mbc5"
    BY <2>4, <1>2, <1>3, <1>5, <1>7 DEF WriteRom, Mbc5Controlled, Areas
  <2> QED
    BY <2>1, <2>2, <2>3, <2>4 DEF WriteRom, MbcType, Controllers
<1> QED
  BY <1>9 DEF Fine

LEMMA InitMounted == Init => Mounted
<1> SUFFICES ASSUME Init PROVE Mounted
  OBVIOUS
<1>1. mbc \in MbcType
  BY FreshType DEF Init
<1>2. "cells" \in DOMAIN NoRam
  BY DEF NoRam, Zeros
<1> QED
  BY <1>1, <1>2 DEF Init, Mounted

\* What load_rom() puts into ram_.
LEMMA LoadedRam ==
    ASSUME Mounted, NEW cart \in Cartridges, LoadRom(cart)
    PROVE  /\ "cells" \in DOMAIN ram'
           /\ HasRam(cart) => DOMAIN ram'.cells = OwnBanks(cart)
<1>1. "cells" \in DOMAIN ram /\ "cells" \in DOMAIN files[cart]
  BY DEF Mounted
<1>2. CASE ram' = Allocated(cart)
  BY <1>1, <1>2, AllocatedBanks
<1>3. CASE ram' = files[cart] /\ SameSize(files[cart], Allocated(cart))
  BY <1>1, <1>3, AllocatedBanks DEF SameSize
<1> QED
  BY <1>2, <1>3 DEF LoadRom

LEMMA NextMounted ==
    ASSUME WithController, Mounted, [Next]_vars
    PROVE  Mounted'
<1>0. mbc \in MbcType /\ "cells" \in DOMAIN ram
  BY DEF Mounted
<1>1. ASSUME NEW cart \in Cartridges, LoadRom(cart) PROVE Mounted'
  <2>1. Type[cart] # "rom" /\ Type[cart] \in Controllers
    BY CartridgeTypes DEF WithController, Controllers
  <2>2. mbc' = Fresh(Type[cart])
    BY <1>1, <2>1 DEF LoadRom
  <2>3. mbc' \in MbcType /\ mbc'.kind = Type[cart] /\ ~mbc'.ram_enabled
    BY <2>1, <2>2, FreshType
  <2>4. "cells" \in DOMAIN ram' /\ (HasRam(cart) => DOMAIN ram'.cells = OwnBanks(cart))
    BY <1>1, LoadedRam
  <2> QED
    BY <1>1, <2>3, <2>4 DEF LoadRom, Mounted, HasRam, OwnBanks
<1>2. CASE Save \/ Quit
  <2>1. \/ files' = files
        \/ /\ files' = [files EXCEPT ![inserted] = ram]
           /\ inserted \in Cartridges
    <3>1. inserted # None => inserted \in Cartridges
      BY DEF Mounted
    <3>2. CASE Save
      BY <3>1, <3>2 DEF Save
    <3>3. CASE Quit /\ inserted # None /\ Battery[inserted]
      BY <3>1, <3>3 DEF Quit
    <3>4. CASE Quit /\ ~(inserted # None /\ Battery[inserted])
      BY <3>4, Zenon DEF Quit
    <3> QED
      BY <1>2, <3>2, <3>3, <3>4
  <2>2. /\ files' = [cart \in Cartridges |-> files'[cart]]
        /\ \A cart \in Cartridges : "cells" \in DOMAIN files'[cart]
    BY <1>0, <2>1 DEF Mounted
  <2>3. CASE Save
    BY <2>2, <2>3 DEF Save, Mounted, HasRam, OwnBanks
  <2>4. CASE Quit
    <3>1. mbc' \in MbcType /\ "cells" \in DOMAIN ram'
      BY <2>4, FreshType DEF Quit, NoRam, Zeros
    <3> QED
      BY <2>2, <2>4, <3>1 DEF Quit, Mounted
  <2> QED
    BY <1>2, <2>3, <2>4
<1>3. CASE LeaveScope
  <2>1. mbc' \in MbcType /\ "cells" \in DOMAIN ram'
    BY <1>3, FreshType DEF LeaveScope, NoRam, Zeros
  <2> QED
    BY <1>3, <2>1 DEF LeaveScope, Mounted
<1>4. ASSUME NEW area \in Areas, NEW bit8 \in BOOLEAN, NEW data \in Bytes,
             WriteRom(area, bit8, data)
      PROVE  Mounted'
  <2>1. inserted \in Cartridges /\ inserted # None /\ UNCHANGED <<inserted, ram, files>>
    BY <1>4 DEF WriteRom, Mounted
  <2>2. /\ mbc' \in MbcType /\ mbc'.kind = mbc.kind
        /\ mbc'.ram_enabled =>
              mbc.ram_enabled \/ mbc.kind = "mbc2" \/ RamBanks[inserted] # 0
    BY <1>0, <1>4, <2>1, ControlType
  <2>3. mbc.kind = Type[inserted] /\ (mbc.ram_enabled => HasRam(inserted))
    BY <2>1 DEF Mounted
  <2>4. mbc'.ram_enabled => HasRam(inserted)
    BY <2>2, <2>3 DEF HasRam
  <2> QED
    BY <2>1, <2>2, <2>3, <2>4 DEF Mounted, HasRam, OwnBanks
<1>5. CASE WriteRam
  <2>1. "cells" \in DOMAIN ram' /\ DOMAIN ram'.cells = DOMAIN ram.cells
    BY <1>0, <1>5 DEF WriteRam
  <2> QED
    BY <1>5, <2>1 DEF WriteRam, Mounted, HasRam, OwnBanks
<1>6. CASE UNCHANGED vars
  BY <1>6 DEF vars, Mounted, HasRam, OwnBanks
<1> QED
  BY <1>1, <1>2, <1>3, <1>4, <1>5, <1>6 DEF Next

\* Whatever a program writes to the bank registers, its accesses stay in the
\* ROM and the RAM of its cartridge (cartridge.cpp:290, 332-375), for every
\* size of both, as long as every header names a controller.
THEOREM BanksInRange ==
    ASSUME WithController
    PROVE  Spec => []AccessInRange
<1>1. Mounted => AccessInRange
  <2> SUFFICES ASSUME Mounted, inserted # None
               PROVE  /\ FirstRomBank < RomBanks[inserted]
                      /\ SecondRomBank < RomBanks[inserted]
                      /\ mbc.ram_enabled => RamBank \in DOMAIN ram.cells
    BY DEF AccessInRange
  <2>0. /\ inserted \in Cartridges
        /\ mbc \in MbcType
        /\ mbc.kind = Type[inserted]
    BY DEF Mounted
  <2>1. /\ RamBanks[inserted] \in 0..512
        /\ RomBanks[inserted] \in 1..512
    BY <2>0, CartridgeTypes
  <2>2. 32 * mbc.ram_bank \in Nat /\ SelectedRom \in Nat /\ mbc.ram_bank \in Nat
    BY <2>0 DEF MbcType, SelectedRom
  <2>3. /\ Masked(32 * mbc.ram_bank, RomBanks[inserted]) \in 0..RomBanks[inserted] - 1
        /\ Masked(SelectedRom, RomBanks[inserted]) \in 0..RomBanks[inserted] - 1
    BY <2>1, <2>2, MaskedInRange, ZenonT(60)
  <2>4. FirstRomBank < RomBanks[inserted] /\ SecondRomBank < RomBanks[inserted]
    BY <2>1, <2>3 DEF FirstRomBank, SecondRomBank
  <2>5. ASSUME mbc.ram_enabled PROVE RamBank \in DOMAIN ram.cells
    <3>1. HasRam(inserted) /\ DOMAIN ram.cells = OwnBanks(inserted)
      BY <2>0, <2>5 DEF Mounted
    <3>2. CASE mbc.kind = "mbc2"
      BY <2>0, <3>1, <3>2 DEF RamBank, OwnBanks
    <3>3. CASE mbc.kind # "mbc2"
      <4>1. RamBanks[inserted] \in 1..512 /\ OwnBanks(inserted) = 0..RamBanks[inserted] - 1
        <5>1. RamBanks[inserted] # 0
          BY <2>0, <3>1, <3>3, Zenon DEF HasRam
        <5>2. OwnBanks(inserted) = 0..RamBanks[inserted] - 1
          BY <2>0, <3>3, Zenon DEF OwnBanks
        <5> QED
          BY <2>1, <5>1, <5>2
      <4>2. Masked(mbc.ram_bank, RamBanks[inserted]) \in 0..RamBanks[inserted] - 1
        BY <2>2, <4>1, MaskedInRange
      <4>3. RamBank \in {0, Masked(mbc.ram_bank, RamBanks[inserted])}
        BY DEF RamBank
      <4>4. RamBank \in 0..RamBanks[inserted] - 1
        <5> DEFINE banks == RamBanks[inserted]
                   masked == Masked(mbc.ram_bank, banks)
        <5>1. banks \in 1..512 /\ masked \in 0..banks - 1 /\ RamBank \in {0, masked}
          BY <4>1, <4>2, <4>3
        <5> HIDE DEF banks, masked
        <5>2. RamBank \in 0..banks - 1
          BY <5>1
        <5> QED
          BY <5>2 DEF banks
      <4> QED
        BY <3>1, <4>1, <4>4
    <3> QED
      BY <3>2, <3>3
  <2> QED
    BY <2>4, <2>5
<1>2. Mounted /\ [Next]_vars => Mounted'
  BY NextMounted
<1> QED
  BY <1>1, <1>2, InitMounted, PTL DEF Spec

-----------------------------------------------------------------------------
(* Who wrote what the RAM and the save files hold. *)

\* The cells of the RAM of a cartridge hold what it wrote, or zeros.
Owned(r, cart) == \A bank \in DOMAIN r.cells : r.cells[bank] \in {cart, "zero"}

Clean ==
    /\ inserted \in Cartridges \cup {None}
    /\ "cells" \in DOMAIN ram
    /\ files = [cart \in Cartridges |-> files[cart]]
    /\ inserted # None /\ HasRam(inserted) => Owned(ram, inserted)
    /\ \A cart \in Cartridges : "cells" \in DOMAIN files[cart] /\ Owned(files[cart], cart)

\* Loading, saving, restarting and writing keep the RAM of a cartridge apart
\* from that of the others.
LEMMA NextClean ==
    ASSUME BatteryKeepsRam, Clean, [Next]_vars
    PROVE  Clean'
<1>1. ASSUME NEW cart \in Cartridges, LoadRom(cart) PROVE Clean'
  <2>1. HasRam(cart) => Owned(Allocated(cart), cart)
    BY AllocatedBanks DEF Clean, Owned
  <2>2. Owned(files[cart], cart)
    BY DEF Clean
  <2>3. \/ ram' = files[cart] /\ SameSize(files[cart], Allocated(cart)) /\ Battery[cart]
        \/ ram' = Allocated(cart)
    BY <1>1 DEF LoadRom
  <2>4. HasRam(cart) => Owned(ram', cart)
    BY <2>1, <2>2, <2>3
  <2>5. "cells" \in DOMAIN ram'
    <3>1. "cells" \in DOMAIN Allocated(cart) /\ "cells" \in DOMAIN files[cart]
      BY AllocatedBanks DEF Clean
    <3> QED
      BY <2>3, <3>1
  <2> QED
    BY <1>1, <2>4, <2>5 DEF LoadRom, Clean, HasRam, Owned
<1>2. CASE Save \/ Quit
  <2>1. \/ files' = files
        \/ /\ files' = [files EXCEPT ![inserted] = ram]
           /\ inserted \in Cartridges /\ inserted # None /\ HasRam(inserted)
    <3>1. inserted # None => inserted \in Cartridges
      BY DEF Clean
    <3>2. CASE Save
      BY <3>1, <3>2 DEF Save, BatteryKeepsRam, HasRam
    <3>3. CASE Quit /\ inserted # None /\ Battery[inserted]
      BY <3>1, <3>3 DEF Quit, BatteryKeepsRam, HasRam
    <3>4. CASE Quit /\ ~(inserted # None /\ Battery[inserted])
      BY <3>4, Zenon DEF Quit
    <3> QED
      BY <1>2, <3>2, <3>3, <3>4
  <2>2. /\ files' = [cart \in Cartridges |-> files'[cart]]
        /\ \A cart \in Cartridges :
              "cells" \in DOMAIN files'[cart] /\ Owned(files'[cart], cart)
    <3>1. CASE files' = files
      BY <3>1 DEF Clean
    <3>2. CASE files' # files
      <4>1. Owned(ram, inserted)
        BY <2>1, <3>2 DEF Clean
      <4>2. \A cart \in Cartridges : files'[cart] = IF cart = inserted THEN ram ELSE files[cart]
        BY <2>1, <3>2 DEF Clean
      <4>3. files' = [cart \in Cartridges |-> files'[cart]]
        BY <2>1, <3>2 DEF Clean
      <4> QED
        BY <4>1, <4>2, <4>3 DEF Clean
    <3> QED
      BY <3>1, <3>2
  <2>3. CASE Save
    BY <2>2, <2>3 DEF Save, Clean, HasRam, Owned
  <2>4. CASE Quit
    <3>1. inserted' = None
      BY <2>4 DEF Quit
    <3>2. "cells" \in DOMAIN ram'
      BY <2>4 DEF Quit, NoRam, Zeros
    <3> QED
      BY <2>2, <3>1, <3>2 DEF Clean, Owned
  <2> QED
    BY <1>2, <2>3, <2>4
<1>3. CASE LeaveScope
  BY <1>3 DEF LeaveScope, NoRam, Zeros, Clean, Owned
<1>4. CASE \E area \in Areas, bit8 \in BOOLEAN, data \in Bytes : WriteRom(area, bit8, data)
  <2>1. UNCHANGED <<inserted, ram, files>>
    BY <1>4 DEF WriteRom
  <2> QED
    BY <2>1 DEF Clean, HasRam, Owned
<1>5. CASE WriteRam
  <2>1. /\ UNCHANGED <<inserted, files>>
        /\ "cells" \in DOMAIN ram'
        /\ ram'.cells = [bank \in DOMAIN ram.cells |->
                            IF bank = RamBank THEN inserted ELSE ram.cells[bank]]
    BY <1>5 DEF WriteRam, Clean
  <2>2. inserted # None /\ HasRam(inserted) => Owned(ram', inserted)
    BY <2>1 DEF Clean, Owned
  <2> QED
    BY <2>1, <2>2 DEF Clean, HasRam, Owned
<1>6. CASE UNCHANGED vars
  BY <1>6 DEF vars, Clean, HasRam, Owned
<1> QED
  BY <1>1, <1>2, <1>3, <1>4, <1>5, <1>6 DEF Next

\* No cartridge with RAM reads what another one wrote, and no save file holds it
\* (cartridge.cpp:223-248), for any cartridges of which those with a battery
\* have RAM to keep.
THEOREM DataIsOwn ==
    ASSUME BatteryKeepsRam
    PROVE  Spec => []NoForeignData
<1>1. Init => Clean
  BY DEF Init, NoRam, Zeros, Clean, Owned
<1>2. Clean => NoForeignData
  BY DEF Clean, NoForeignData, Owned, HasRam
<1>3. Clean /\ [Next]_vars => Clean'
  BY NextClean
<1> QED
  BY <1>1, <1>2, <1>3, PTL DEF Spec

-----------------------------------------------------------------------------
(* The clock. *)

DayRegister == [bit8 : {0, 1}, halt : BOOLEAN, carry : BOOLEAN]
ClockRegisters ==
    [seconds : 0..59, minutes : 0..59, hours : 0..23, days_lower : 0..255,
     days_higher : DayRegister]

\* A register that takes over less than its unit, and what is carried into it,
\* keeps its range with the one subtraction of the code and loses nothing.
LEMMA AddMinute ==
    ASSUME NEW value \in 0..60, NEW amount \in 0..59
    PROVE  /\ Clock!Add(value, amount, 60).value \in 0..59
           /\ Clock!Add(value, amount, 60).carry \in {0, 1}
           /\ value + amount = 60 * Clock!Add(value, amount, 60).carry
                               + Clock!Add(value, amount, 60).value
<1>1. (value + amount) % 256 = value + amount
  OBVIOUS
<1>2. Clock!Add(value, amount, 60) =
         IF value + amount > 60 - 1
         THEN [value |-> value + amount - 60, carry |-> 1]
         ELSE [value |-> value + amount, carry |-> 0]
  BY <1>1 DEF Clock!Add
<1> QED
  BY <1>2

LEMMA AddDay ==
    ASSUME NEW value \in 0..24, NEW amount \in 0..23
    PROVE  /\ Clock!Add(value, amount, 24).value \in 0..23
           /\ Clock!Add(value, amount, 24).carry \in {0, 1}
           /\ value + amount = 24 * Clock!Add(value, amount, 24).carry
                               + Clock!Add(value, amount, 24).value
<1>1. (value + amount) % 256 = value + amount
  OBVIOUS
<1>2. Clock!Add(value, amount, 24) =
         IF value + amount > 24 - 1
         THEN [value |-> value + amount - 24, carry |-> 1]
         ELSE [value |-> value + amount, carry |-> 0]
  BY <1>1 DEF Clock!Add
<1> QED
  BY <1>2

LEMMA ByteKept == \A value \in 0..60 : value % 256 = value
OBVIOUS

\* A number of seconds in days, hours, minutes and seconds.
LEMMA Split ==
    ASSUME NEW difference \in Nat
    PROVE  /\ difference % 60 \in 0..59
           /\ (difference \div 60) % 60 \in 0..59
           /\ (difference \div 3600) % 24 \in 0..23
           /\ difference \div 86400 \in Nat
           /\ difference = (difference % 60) + 60 * ((difference \div 60) % 60)
                           + 3600 * ((difference \div 3600) % 24)
                           + 86400 * (difference \div 86400)
<1> DEFINE minutes == difference \div 60
           hours == minutes \div 60
           days == hours \div 24
<1>1. minutes \in Nat /\ difference = 60 * minutes + (difference % 60) /\ difference % 60 \in 0..59
  OBVIOUS
<1>2. difference \div 3600 = hours /\ difference \div 86400 = days
  OBVIOUS
<1> HIDE DEF minutes
<1>3. hours \in Nat /\ minutes = 60 * hours + (minutes % 60) /\ minutes % 60 \in 0..59
  BY <1>1
<1> HIDE DEF hours
<1>4. days \in Nat /\ hours = 24 * days + (hours % 24) /\ hours % 24 \in 0..23
  BY <1>3
<1> HIDE DEF days
<1>5. (difference \div 60) % 60 = minutes % 60
  BY DEF minutes
<1>6. /\ difference % 60 \in 0..59 /\ minutes % 60 \in 0..59 /\ hours % 24 \in 0..23
      /\ days \in Nat
      /\ difference = (difference % 60) + 60 * (minutes % 60) + 3600 * (hours % 24)
                      + 86400 * days
  BY <1>1, <1>3, <1>4
<1> QED
  BY <1>2, <1>5, <1>6

\* The day counter of nine bits.
LEMMA SplitDays ==
    ASSUME NEW days \in Nat
    PROVE  /\ days % 256 \in 0..255
           /\ (days % 512) \div 256 \in {0, 1}
           /\ days \div 512 \in Nat
           /\ days = (days % 256) + 256 * ((days % 512) \div 256) + 512 * (days \div 512)
OBVIOUS

\* What the code does to one register, with the sum named.
LEMMA AddSixty ==
    ASSUME NEW x \in 0..60, NEW e \in 0..59, NEW z, z = Clock!Add(x, e, 60)
    PROVE  z.value \in 0..59 /\ z.carry \in {0, 1} /\ x + e = 60 * z.carry + z.value
BY AddMinute

LEMMA AddTwentyFour ==
    ASSUME NEW x \in 0..24, NEW e \in 0..23, NEW z, z = Clock!Add(x, e, 24)
    PROVE  z.value \in 0..23 /\ z.carry \in {0, 1} /\ x + e = 24 * z.carry + z.value
BY AddDay

\* update_rtc_latch() keeps every register in its range, whatever the pause, and
\* moves the clock by exactly the pause unless bit 8 of the day counter is set.
LEMMA AdvanceExact ==
    ASSUME NEW r \in ClockRegisters, NEW difference \in Nat
    PROVE  /\ Clock!Advance(r, difference) \in ClockRegisters
           /\ Clock!Advance(r, difference).days_higher.halt = r.days_higher.halt
           /\ r.days_higher.bit8 = 0 =>
                \E turns \in Nat : Shown(r) + difference
                    = Shown(Clock!Advance(r, difference)) + turns * DayPeriod
<1> DEFINE d1 == difference % 60
           d2 == (difference \div 60) % 60
           d3 == (difference \div 3600) % 24
           d4 == difference \div 86400
           s == Clock!Add(r.seconds, d1, 60)
           m == Clock!Add((r.minutes + s.carry) % 256, d2, 60)
           h == Clock!Add((r.hours + m.carry) % 256, d3, 24)
           days == Clock!Days(r, h.carry, d4)
           over == days > 511
           bit8 == (days % 512) \div 256
           after == Clock!Advance(r, difference)
           high == [bit8  |-> IF over \/ r.days_higher.bit8 = 0 THEN bit8 ELSE 1,
                    halt  |-> r.days_higher.halt,
                    carry |-> r.days_higher.carry \/ over]
<1>0. after = [seconds |-> s.value, minutes |-> m.value, hours |-> h.value,
               days_lower |-> days % 256, days_higher |-> high]
  BY DEF Clock!Advance
<1> HIDE DEF d1, d2, d3, d4, s, m, h, days, over, bit8, after, high
<1>1. d1 \in 0..59 /\ d2 \in 0..59 /\ d3 \in 0..23 /\ d4 \in Nat
  BY Split DEF d1, d2, d3, d4
<1>14. difference = d1 + 60 * d2 + 3600 * d3 + 86400 * d4
  BY Split DEF d1, d2, d3, d4
<1>2. /\ r.seconds \in 0..59 /\ r.minutes \in 0..59 /\ r.hours \in 0..23
      /\ r.days_lower \in 0..255 /\ r.days_higher \in DayRegister
  BY DEF ClockRegisters
<1>3. /\ r.days_higher.bit8 \in {0, 1} /\ r.days_higher.halt \in BOOLEAN
      /\ r.days_higher.carry \in BOOLEAN
  BY <1>2 DEF DayRegister
<1>4. s.value \in 0..59 /\ s.carry \in {0, 1} /\ r.seconds + d1 = 60 * s.carry + s.value
  <2>1. r.seconds \in 0..60 /\ d1 \in 0..59
    BY <1>1, <1>2
  <2>2. s = Clock!Add(r.seconds, d1, 60)
    BY DEF s
  <2> QED
    BY <2>1, <2>2, AddSixty, ZenonT(60)
<1>5. m.value \in 0..59 /\ m.carry \in {0, 1}
      /\ r.minutes + s.carry + d2 = 60 * m.carry + m.value
  <2>1. r.minutes + s.carry \in 0..60
    BY <1>2, <1>4
  <2>2. d2 \in 0..59
    BY <1>1
  <2>3. (r.minutes + s.carry) % 256 = r.minutes + s.carry
    BY <2>1, ByteKept
  <2>4. m = Clock!Add(r.minutes + s.carry, d2, 60)
    BY <2>3, Zenon DEF m
  <2> DEFINE x == r.minutes + s.carry
  <2>5. x \in 0..60 /\ m = Clock!Add(x, d2, 60)
    BY <2>1, <2>4
  <2> HIDE DEF x
  <2>6. m.value \in 0..59 /\ m.carry \in {0, 1} /\ x + d2 = 60 * m.carry + m.value
    BY <2>2, <2>5, AddSixty, ZenonT(60)
  <2> QED
    BY <2>6 DEF x
<1>6. h.value \in 0..23 /\ h.carry \in {0, 1}
      /\ r.hours + m.carry + d3 = 24 * h.carry + h.value
  <2>1. r.hours + m.carry \in 0..24
    BY <1>2, <1>5
  <2>2. d3 \in 0..23
    BY <1>1
  <2>3. (r.hours + m.carry) % 256 = r.hours + m.carry
    BY <2>1, ByteKept
  <2>4. h = Clock!Add(r.hours + m.carry, d3, 24)
    BY <2>3, Zenon DEF h
  <2> DEFINE x == r.hours + m.carry
  <2>5. x \in 0..24 /\ h = Clock!Add(x, d3, 24)
    BY <2>1, <2>4
  <2> HIDE DEF x
  <2>6. h.value \in 0..23 /\ h.carry \in {0, 1} /\ x + d3 = 24 * h.carry + h.value
    BY <2>2, <2>5, AddTwentyFour
  <2> QED
    BY <2>6 DEF x
<1>7. days = r.days_lower + r.days_higher.bit8 + h.carry + d4 /\ days \in Nat
  <2>1. days = r.days_lower + r.days_higher.bit8 + h.carry + d4
    BY DEF days, Clock!Days
  <2> QED
    BY <1>1, <1>2, <1>3, <1>6, <2>1, SMTT(30)
<1>8. /\ days % 256 \in 0..255 /\ bit8 \in {0, 1} /\ days \div 512 \in Nat
      /\ days = (days % 256) + 256 * bit8 + 512 * (days \div 512)
  BY <1>7, SplitDays DEF bit8
<1>9. high \in DayRegister
  <2>1. (r.days_higher.carry \/ over) \in BOOLEAN
    OBVIOUS
  <2>2. (IF over \/ r.days_higher.bit8 = 0 THEN bit8 ELSE 1) \in {0, 1}
    BY <1>8
  <2> QED
    BY <1>3, <2>1, <2>2 DEF DayRegister, high
<1>10. after \in ClockRegisters
  BY <1>0, <1>4, <1>5, <1>6, <1>8, <1>9 DEF ClockRegisters
<1>11. after.days_higher.halt = r.days_higher.halt
  BY <1>0 DEF high
<1>12. ASSUME r.days_higher.bit8 = 0
       PROVE  \E turns \in Nat : Shown(r) + difference = Shown(after) + turns * DayPeriod
  <2>1. high.bit8 = bit8
    BY <1>12 DEF high
  <2> DEFINE turns == days \div 512
             low == days % 256
  <2>2. Shown(after) = s.value + 60 * m.value + 3600 * h.value + 86400 * (low + 256 * bit8)
    BY <1>0, <2>1 DEF Shown
  <2>3. Shown(r) = r.seconds + 60 * r.minutes + 3600 * r.hours
                     + 86400 * (r.days_lower + 256 * 0)
    BY <1>12 DEF Shown
  <2>4. turns \in Nat /\ low \in 0..255 /\ days = low + 256 * bit8 + 512 * turns
    BY <1>8
  <2> HIDE DEF turns, low
  <2>5. r.days_lower + h.carry + d4 = low + 256 * bit8 + 512 * turns
    BY <1>1, <1>2, <1>6, <1>7, <1>12, <2>4
  <2>6. DayPeriod = 44236800
    BY DEF DayPeriod
  <2> DEFINE s0 == r.seconds
             m0 == r.minutes
             h0 == r.hours
             l0 == r.days_lower
             s1 == s.value
             m1 == m.value
             h1 == h.value
             cs == s.carry
             cm == m.carry
             ch == h.carry
  <2>7. Shown(r) + difference = Shown(after) + turns * DayPeriod
    <3>1. s0 \in Nat /\ m0 \in Nat /\ h0 \in Nat /\ l0 \in Nat
      BY <1>2
    <3>2. s1 \in Nat /\ m1 \in Nat /\ h1 \in Nat
      BY <1>4, <1>5, <1>6
    <3>3. cs \in Nat /\ cm \in Nat /\ ch \in Nat
      BY <1>4, <1>5, <1>6
    <3>4. bit8 \in Nat /\ low \in Nat /\ turns \in Nat
      BY <1>8, <2>4
    <3>5. d1 \in Nat /\ d2 \in Nat /\ d3 \in Nat /\ d4 \in Nat
      BY <1>1
    <3>6. /\ s0 + d1 = 60 * cs + s1
          /\ m0 + cs + d2 = 60 * cm + m1
          /\ h0 + cm + d3 = 24 * ch + h1
          /\ l0 + ch + d4 = low + 256 * bit8 + 512 * turns
      BY <1>4, <1>5, <1>6, <2>5, Zenon
    <3>7. /\ Shown(after) = s1 + 60 * m1 + 3600 * h1 + 86400 * (low + 256 * bit8)
          /\ Shown(r) = s0 + 60 * m0 + 3600 * h0 + 86400 * (l0 + 256 * 0)
      BY <2>2, <2>3
    <3> HIDE DEF s0, m0, h0, l0, s1, m1, h1, cs, cm, ch
    <3> QED
      BY <1>14, <2>6, <3>1, <3>2, <3>3, <3>4, <3>5, <3>6, <3>7
  <2> QED
    BY <2>4, <2>7
<1> QED
  BY <1>10, <1>11, <1>12 DEF after

\* Whole turns of the day counter do not show.
LEMMA ModTurns ==
    ASSUME NEW x \in Int, NEW y \in Int, NEW turns \in Nat, x = y + turns * 44236800
    PROVE  x % 44236800 = y % 44236800
OBVIOUS

LEMMA ModAdd ==
    ASSUME NEW x \in Int, NEW y \in Int
    PROVE  ((x % 44236800) + y) % 44236800 = (x + y) % 44236800
OBVIOUS

\* A register of the clock in range keeps the clock in range.
LEMMA RegisterWritten ==
    ASSUME NEW r \in ClockRegisters, NEW register \in Clock!Registers,
           NEW value \in RegValues[register]
    PROVE  [r EXCEPT ![register] =
                IF register = "days_higher"
                THEN [value EXCEPT !.carry = @ \/ r.days_higher.carry]
                ELSE value] \in ClockRegisters
<1>1. register \in {"seconds", "minutes", "hours", "days_lower", "days_higher"}
  BY DEF Clock!Registers
<1>2. CASE register = "seconds"
  <2>1. value \in 0..59
    BY <1>2, ClockAssumption
  <2> QED
    BY <1>2, <2>1 DEF ClockRegisters
<1>3. CASE register = "minutes"
  <2>1. value \in 0..59
    BY <1>3, ClockAssumption
  <2> QED
    BY <1>3, <2>1 DEF ClockRegisters
<1>4. CASE register = "hours"
  <2>1. value \in 0..23
    BY <1>4, ClockAssumption
  <2> QED
    BY <1>4, <2>1 DEF ClockRegisters
<1>5. CASE register = "days_lower"
  <2>1. value \in 0..255
    BY <1>5, ClockAssumption
  <2> QED
    BY <1>5, <2>1 DEF ClockRegisters
<1>6. CASE register = "days_higher"
  <2>1. value \in DayRegister
    BY <1>6, ClockAssumption DEF DayRegister
  <2>2. (value.carry \/ r.days_higher.carry) \in BOOLEAN
    OBVIOUS
  <2>3. [value EXCEPT !.carry = @ \/ r.days_higher.carry] \in DayRegister
    BY <2>1, <2>2 DEF DayRegister
  <2> QED
    BY <1>6, <2>3 DEF ClockRegisters
<1> QED
  BY <1>1, <1>2, <1>3, <1>4, <1>5, <1>6

\* Clock!TypeOK, part by part.
LEMMA ClockTyped ==
    Clock!TypeOK <=>
      /\ now \in 1..MaxTime
      /\ rtc \in ClockRegisters /\ rtc_latch \in ClockRegisters
      /\ last_time \in 1..now
      /\ latch_data \in {0, 1}
      /\ selected \in Clock!Registers \cup {"ram"}
      /\ clock_ram \in {"game data", "clock data"}
BY DEF Clock!TypeOK, ClockRegisters, DayRegister

LEMMA ClockTypedNext ==
    Clock!TypeOK' <=>
      /\ now' \in 1..MaxTime
      /\ rtc' \in ClockRegisters /\ rtc_latch' \in ClockRegisters
      /\ last_time' \in 1..now'
      /\ latch_data' \in {0, 1}
      /\ selected' \in Clock!Registers \cup {"ram"}
      /\ clock_ram' \in {"game data", "clock data"}
BY DEF Clock!TypeOK, ClockRegisters, DayRegister

LEMMA ClockTimes ==
    ASSUME Clock!TypeOK
    PROVE  /\ now \in Nat /\ now >= 1 /\ now <= MaxTime /\ MaxTime \in Nat
           /\ last_time \in Nat /\ last_time >= 1 /\ last_time <= now
<1>1. MaxTime \in Nat
  BY ClockAssumption
<1>2. now \in 1..MaxTime /\ last_time \in 1..now
  BY ClockTyped
<1>3. now \in Nat /\ now >= 1 /\ now <= MaxTime
  BY <1>1, <1>2
<1> QED
  BY <1>1, <1>2, <1>3

\* The new clock shows the time zero.
LEMMA ClockStarts == MCInit => Clock!TypeOK /\ Represented = due
<1> SUFFICES ASSUME MCInit PROVE Clock!TypeOK /\ Represented = due
  OBVIOUS
<1>1. Clock!Midnight \in ClockRegisters
  BY DEF Clock!Midnight, ClockRegisters, DayRegister
<1>2. Clock!TypeOK
  <2>1. MaxTime \in Nat /\ MaxTime >= 1
    BY ClockAssumption
  <2>2. 1 \in 1..MaxTime /\ 1 \in 1..1
    BY <2>1
  <2> QED
    BY <1>1, <2>2, ClockTyped DEF MCInit, Clock!Init
<1>3. Shown(Clock!Midnight) = 0
  BY DEF Shown, Clock!Midnight
<1>4. Represented = 0
  <2>1. rtc = Clock!Midnight /\ now = 1 /\ last_time = 1
    BY DEF MCInit, Clock!Init
  <2>2. Shown(rtc) = 0
    BY <1>3, <2>1
  <2>3. (Shown(rtc) + (now - last_time)) = 0
    BY <2>1, <2>2
  <2>4. DayPeriod = 44236800 /\ 0 % 44236800 = 0
    BY DEF DayPeriod
  <2> QED
    BY <2>3, <2>4 DEF Represented
<1> QED
  BY <1>2, <1>4 DEF MCInit

\* Catching up keeps the registers in range.
LEMMA Updated ==
    ASSUME Clock!TypeOK
    PROVE  /\ Clock!UpdatedRtc \in ClockRegisters
           /\ Clock!UpdatedTime \in 1..now
<1>0. now \in Nat /\ last_time \in Nat /\ last_time <= now
  BY ClockTimes, Zenon
<1>1. now - last_time \in Nat
  BY <1>0
<1>4. rtc \in ClockRegisters
  BY ClockTyped
<1>2. Clock!Advance(rtc, now - last_time) \in ClockRegisters
  BY <1>1, <1>4, AdvanceExact
<1>3. last_time \in 1..now /\ now \in 1..now
  BY ClockTimes
<1> QED
  BY <1>4, <1>2, <1>3 DEF Clock!UpdatedRtc, Clock!UpdatedTime

LEMMA ClockTypeNext == Clock!TypeOK /\ [MCNext]_mcvars => Clock!TypeOK'
<1> SUFFICES ASSUME Clock!TypeOK, [MCNext]_mcvars PROVE Clock!TypeOK'
  OBVIOUS
<1>1. CASE UNCHANGED clock_vars
  BY <1>1, ClockTyped, ClockTypedNext DEF clock_vars
<1>2. ASSUME NEW seconds \in Pauses, Clock!Elapse(seconds) PROVE Clock!TypeOK'
  <2>1. seconds \in Nat
    BY ClockAssumption
  <2>2. now' = now + seconds /\ now + seconds <= MaxTime
    BY <1>2 DEF Clock!Elapse
  <2>3. /\ now \in Nat /\ now >= 1 /\ MaxTime \in Nat
        /\ last_time \in Nat /\ last_time >= 1 /\ last_time <= now
    BY ClockTimes, Zenon
  <2>4. now' \in 1..MaxTime /\ last_time \in 1..now'
    BY <2>1, <2>2, <2>3
  <2> QED
    BY <1>2, <2>4, ClockTyped, ClockTypedNext DEF Clock!Elapse
<1>3. ASSUME NEW data \in {0, 1}, Clock!Latch(data) PROVE Clock!TypeOK'
  BY <1>3, Updated, ClockTyped, ClockTypedNext DEF Clock!Latch
<1>4. ASSUME NEW what \in Clock!Registers \cup {"ram"}, Clock!Select(what) PROVE Clock!TypeOK'
  BY <1>4, ClockTyped, ClockTypedNext DEF Clock!Select
<1>5. ASSUME NEW register \in Clock!Registers, selected = register,
             NEW data \in RegValues[register], Clock!WriteRegister(data)
      PROVE  Clock!TypeOK'
  <2>1. rtc' \in ClockRegisters
    BY <1>5, ClockTyped, RegisterWritten DEF Clock!WriteRegister
  <2> QED
    BY <1>5, <2>1, ClockTyped, ClockTypedNext DEF Clock!WriteRegister
<1>6. CASE Clock!WriteRam
  BY <1>6, ClockTyped, ClockTypedNext DEF Clock!WriteRam
<1>7. ASSUME NEW pause \in Pauses, Clock!SaveAndReload(pause) PROVE Clock!TypeOK'
  <2>1. pause \in Nat
    BY ClockAssumption
  <2>2. now' = now + pause /\ now + pause <= MaxTime
    BY <1>7 DEF Clock!SaveAndReload
  <2>3. /\ now' - last_time \in Nat /\ now' \in 1..MaxTime
        /\ last_time \in 1..now' /\ now' \in 1..now'
    <3>1. /\ now \in Nat /\ now >= 1 /\ MaxTime \in Nat
          /\ last_time \in Nat /\ last_time >= 1 /\ last_time <= now
      BY ClockTimes, Zenon
    <3> QED
      BY <2>1, <2>2, <3>1
  <2>4. Clock!Advance(rtc, now' - last_time) \in ClockRegisters
    BY <2>3, ClockTyped, AdvanceExact
  <2> QED
    BY <1>7, <2>3, <2>4, ClockTyped, ClockTypedNext DEF Clock!SaveAndReload
<1> QED
  BY <1>1, <1>2, <1>3, <1>4, <1>5, <1>6, <1>7
     DEF MCNext, mcvars, CartridgeStep, ClockStep, Clock!Next

\* Whatever the pauses, the values written and the order of latches, saves and
\* reloads, every clock register stays in its range: one carry from a register
\* to the next is enough in update_rtc_latch() (mbc3.cpp:90-136).
THEOREM ClockInRange == MCSpec => []Clock!TypeOK
<1>1. MCInit => Clock!TypeOK
  BY ClockStarts
<1> QED
  BY <1>1, ClockTypeNext, PTL DEF MCSpec

\* The clock runs, and has not counted the 256 days its bit 8 stands for.  The
\* code adds bit 8 as one day (mbc3.cpp:117) and lets a halted clock catch up
\* later (mbc3.cpp:93), so it keeps the time of neither.
PlainClock == rtc.days_higher.bit8 = 0 /\ ~rtc.days_higher.halt

LEMMA ShownIsInteger ==
    ASSUME NEW r \in ClockRegisters
    PROVE  Shown(r) \in Int
<1>1. /\ r.seconds \in Int /\ r.minutes \in Int /\ r.hours \in Int /\ r.days_lower \in Int
      /\ r.days_higher.bit8 \in Int
  BY DEF ClockRegisters, DayRegister
<1> QED
  BY <1>1 DEF Shown

\* Catching up does not change the time the clock stands for.
LEMMA CaughtUp ==
    ASSUME Clock!TypeOK, PlainClock, NEW time \in Nat, time >= now
    PROVE  Shown(Clock!Advance(rtc, time - last_time)) % DayPeriod
               = (Shown(rtc) + (time - last_time)) % DayPeriod
<1>0. now \in Nat /\ last_time \in Nat /\ last_time <= now
  BY ClockTimes, Zenon
<1>1. time - last_time \in Nat
  BY <1>0
<1>8. rtc \in ClockRegisters
  BY ClockTyped
<1> DEFINE after == Clock!Advance(rtc, time - last_time)
<1>2. after \in ClockRegisters
  BY <1>1, <1>8, AdvanceExact
<1>3. \E turns \in Nat : Shown(rtc) + (time - last_time) = Shown(after) + turns * DayPeriod
  BY <1>1, <1>8, AdvanceExact DEF PlainClock
<1> HIDE DEF after
<1>4. PICK turns \in Nat :
         Shown(rtc) + (time - last_time) = Shown(after) + turns * DayPeriod
  BY <1>3
<1>5. Shown(rtc) \in Int /\ Shown(after) \in Int
  BY <1>8, <1>2, ShownIsInteger
<1>6. Shown(rtc) + (time - last_time) \in Int
  BY <1>1, <1>5
<1>7. (Shown(rtc) + (time - last_time)) % 44236800 = Shown(after) % 44236800
  BY <1>4, <1>5, <1>6, ModTurns DEF DayPeriod
<1> QED
  BY <1>7 DEF DayPeriod, after

\* ClockKeepsTime for such a clock.
Keeps == Represented = due

LEMMA KeepsNext ==
    Clock!TypeOK /\ PlainClock /\ PlainClock' /\ Keeps /\ [MCNext]_mcvars => Keeps'
<1> SUFFICES ASSUME Clock!TypeOK, PlainClock, PlainClock', Keeps, [MCNext]_mcvars
             PROVE  Represented' = due'
  BY DEF Keeps
<1> DEFINE since == now - last_time
           shown == Shown(rtc)
<1>1. Represented' = (Shown(rtc') + (now' - last_time')) % DayPeriod
  BY DEF Represented
<1>2. due = (shown + since) % DayPeriod
  BY DEF Keeps, Represented
<1>3. now \in Nat /\ last_time \in Nat /\ last_time <= now
  BY ClockTimes, Zenon
<1>4. since \in Int
  BY <1>3
<1>5. shown \in Int
  BY ClockTyped, ShownIsInteger
<1>6. DayPeriod = 44236800
  BY DEF DayPeriod
<1>7. rtc.days_higher.halt = FALSE /\ rtc'.days_higher.halt = FALSE
  BY DEF PlainClock
\* A step in which nothing of the clock moves.
<1>8. CASE rtc' = rtc /\ now' = now /\ last_time' = last_time /\ due' = due
  BY <1>1, <1>2, <1>8
\* Time goes by, and the clock is not caught up.
<1>9. ASSUME NEW pause \in Nat, now' = now + pause, rtc' = rtc, last_time' = last_time,
             due' = (due + pause) % DayPeriod
      PROVE  Represented' = due'
  <2>1. now' - last_time' = since + pause
    BY <1>3, <1>9
  <2>2. Represented' = (shown + (since + pause)) % DayPeriod
    BY <1>1, <1>9, <2>1
  <2> HIDE DEF since, shown
  <2>3. (shown + since) + pause = shown + (since + pause) /\ shown + since \in Int
    BY <1>4, <1>5
  <2>4. (((shown + since) % 44236800) + pause) % 44236800 = (shown + (since + pause)) % 44236800
    BY <2>3, ModAdd
  <2> QED
    BY <1>2, <1>6, <1>9, <2>2, <2>4
\* The clock is caught up after a pause, which may be empty.
<1>10. ASSUME NEW pause \in Nat, now' = now + pause, last_time' = now',
              rtc' = Clock!Advance(rtc, now' - last_time)
       PROVE  Represented' = (due + pause) % DayPeriod
  <2>1. now' \in Nat /\ now' >= now /\ now' - last_time = since + pause /\ now' - last_time' = 0
    BY <1>3, <1>10
  <2>2. Shown(rtc') % DayPeriod = (shown + (now' - last_time)) % DayPeriod
    BY <1>10, <2>1, CaughtUp
  <2>3. rtc' \in ClockRegisters
    BY ClockTypeNext, ClockTypedNext
  <2>4. Shown(rtc') \in Int
    BY <2>3, ShownIsInteger
  <2>5. Represented' = Shown(rtc') % DayPeriod
    <3>1. Shown(rtc') + (now' - last_time') = Shown(rtc')
      BY <2>1, <2>4
    <3> QED
      BY <1>1, <3>1
  <2> HIDE DEF since, shown
  <2>6. (shown + since) + pause = shown + (since + pause) /\ shown + since \in Int
    BY <1>4, <1>5
  <2>7. (((shown + since) % 44236800) + pause) % 44236800 = (shown + (since + pause)) % 44236800
    BY <2>6, ModAdd
  <2> QED
    BY <1>2, <1>6, <2>1, <2>2, <2>5, <2>7
<1>11. (due + 0) % DayPeriod = due
  <2> HIDE DEF since, shown
  <2>1. shown + since \in Int /\ (shown + since) + 0 = shown + since
    BY <1>4, <1>5
  <2>2. (((shown + since) % 44236800) + 0) % 44236800 = (shown + since) % 44236800
    BY <2>1, ModAdd
  <2> QED
    BY <1>2, <1>6, <2>2
<1>12. ASSUME NEW pause \in Pauses, Clock!Elapse(pause), History
       PROVE  Represented' = due'
  <2>1. /\ now' = now + pause /\ rtc' = rtc /\ last_time' = last_time /\ pause \in Nat
    BY <1>12, ClockAssumption DEF Clock!Elapse
  <2>2. CASE pause = 0
    <3>1. now' = now
      BY <1>3, <2>1, <2>2
    <3> QED
      BY <1>8, <1>12, <2>1, <3>1 DEF History
  <2>3. CASE pause # 0
    <3>1. now' # now /\ now' - now = pause
      BY <1>3, <2>1, <2>3
    <3>2. due' = (due + pause) % DayPeriod
      BY <1>7, <1>12, <3>1 DEF History
    <3> QED
      BY <1>9, <2>1, <3>2
  <2> QED
    BY <2>2, <2>3
<1>13. ASSUME NEW data \in {0, 1}, Clock!Latch(data), History
       PROVE  Represented' = due'
  <2>1. now' = now
    BY <1>13 DEF Clock!Latch
  <2>2. CASE rtc' = rtc /\ last_time' = last_time
    BY <1>8, <1>13, <2>1, <2>2 DEF History
  <2>3. CASE last_time = now /\ ~(rtc' = rtc /\ last_time' = last_time)
    BY <1>13, <2>3 DEF Clock!Latch, Clock!UpdatedRtc, Clock!UpdatedTime
  <2>4. CASE last_time # now /\ ~(rtc' = rtc /\ last_time' = last_time)
    <3>1. rtc' = Clock!Advance(rtc, now - last_time) /\ last_time' = now
      BY <1>7, <1>13, <2>4 DEF Clock!Latch, Clock!UpdatedRtc, Clock!UpdatedTime
    <3>2. now' = now + 0 /\ last_time' = now' /\ 0 \in Nat
      BY <1>3, <2>1, <3>1
    <3>3. rtc' = Clock!Advance(rtc, now' - last_time)
      BY <2>1, <3>1
    <3>4. Represented' = (due + 0) % DayPeriod
      BY <1>10, <3>2, <3>3
    <3>5. due' = due
      BY <1>13, <2>1, <2>4, <3>1 DEF History
    <3> QED
      BY <1>11, <3>4, <3>5
  <2> QED
    BY <2>2, <2>3, <2>4
<1>14. ASSUME NEW what \in Clock!Registers \cup {"ram"}, Clock!Select(what), History
       PROVE  Represented' = due'
  BY <1>8, <1>14 DEF Clock!Select, History
<1>15. ASSUME NEW register \in Clock!Registers, selected = register,
              NEW data \in RegValues[register], Clock!WriteRegister(data), History
       PROVE  Represented' = due'
  <2>1. now' = now /\ last_time' = last_time
    BY <1>15 DEF Clock!WriteRegister
  <2>2. CASE rtc' = rtc
    BY <1>8, <1>15, <2>1, <2>2 DEF History
  <2>3. CASE rtc' # rtc
    BY <1>7, <1>15, <2>1, <2>3 DEF History
  <2> QED
    BY <2>2, <2>3
<1>16. ASSUME Clock!WriteRam, History
       PROVE  Represented' = due'
  BY <1>8, <1>16 DEF Clock!WriteRam, History
<1>17. ASSUME NEW pause \in Pauses, Clock!SaveAndReload(pause), History
       PROVE  Represented' = due'
  <2>1. now' = now + pause /\ pause \in Nat
    BY <1>17, ClockAssumption DEF Clock!SaveAndReload
  <2>2. CASE last_time = now'
    <3>1. now' = now
      BY <1>3, <2>1, <2>2
    <3>2. rtc' = rtc /\ last_time' = last_time
      BY <1>17, <2>2 DEF Clock!SaveAndReload
    <3> QED
      BY <1>8, <1>17, <3>1, <3>2 DEF History
  <2>3. CASE last_time # now'
    <3>1. rtc' = Clock!Advance(rtc, now' - last_time) /\ last_time' = now'
      BY <1>7, <1>17, <2>3 DEF Clock!SaveAndReload
    <3>2. Represented' = (due + pause) % DayPeriod
      BY <1>10, <2>1, <3>1
    <3>3. CASE pause = 0
      <4>1. now' = now
        BY <1>3, <2>1, <3>3
      <4>2. due' = due
        BY <1>17, <2>3, <3>1, <4>1 DEF History
      <4> QED
        BY <1>11, <3>2, <3>3, <4>2
    <3>4. CASE pause # 0
      <4>1. now' # now /\ now' - now = pause
        BY <1>3, <2>1, <3>4
      <4>2. due' = (due + pause) % DayPeriod
        BY <1>7, <1>17, <4>1 DEF History
      <4> QED
        BY <3>2, <4>2
    <3> QED
      BY <3>3, <3>4
  <2> QED
    BY <2>2, <2>3
<1>18. CASE UNCHANGED clock_vars
  BY <1>8, <1>18 DEF clock_vars
<1> QED
  BY <1>12, <1>13, <1>14, <1>15, <1>16, <1>17, <1>18
     DEF MCNext, mcvars, CartridgeStep, ClockStep, Clock!Next

\* As long as the clock runs with bit 8 of its days clear, it keeps the time
\* exactly: latches, saves, reloads and register writes at whatever moments and
\* after whatever pauses neither lose nor repeat a second.
THEOREM ClockIsExact == MCSpec /\ []PlainClock => []ClockKeepsTime
<1>1. MCInit => Clock!TypeOK /\ Keeps
  BY ClockStarts DEF Keeps
<1>2. Clock!TypeOK /\ Keeps => ClockKeepsTime
  BY DEF Keeps, ClockKeepsTime
<1> QED
  BY <1>1, <1>2, ClockTypeNext, KeepsNext, PTL DEF MCSpec
=============================================================================
