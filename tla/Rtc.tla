-------------------------------- MODULE Rtc ---------------------------------
(***************************************************************************)
(* The real time clock of an MBC3 cartridge                                *)
(* (gameboy/src/memory/controller/mbc3.cpp): the clock registers, the      *)
(* latched copy the program reads, and the catching up with the clock of   *)
(* the host, which only happens when the program latches.                  *)
(*                                                                         *)
(* The cartridge has RAM, and RAM and clock access are enabled.  The RAM   *)
(* bank selected when the program turned to the clock is one cell.         *)
(***************************************************************************)
EXTENDS Integers

CONSTANTS
    Pauses,       \* the numbers of seconds that may go by at once
    RegValues,    \* the values in range the program may write, by register
    MaxTime       \* the time at which the run stops: bounds the state space

Registers == {"seconds", "minutes", "hours", "days_lower", "days_higher"}

VARIABLES
    now,           \* current_time()
    rtc,           \* rtc_
    rtc_latch,
    last_time,     \* rtc_last_time_
    latch_data,    \* rtc_latch_data_
    selected,      \* the register in place of the RAM, or "ram"
    ram

vars == <<now, rtc, rtc_latch, last_time, latch_data, selected, ram>>

-----------------------------------------------------------------------------
\* Defect the checks notice: the carry comes one unit late.
AddLate(value, amount, unit) ==
    LET sum == (value + amount) % 256
    IN  IF sum > unit
        THEN [value |-> sum - unit, carry |-> 1]
        ELSE [value |-> sum, carry |-> 0]

\* One of the lower registers takes over amount, which is less than unit, and
\* carries at most once.  The registers are bytes.
Add(value, amount, unit) ==
    LET sum == (value + amount) % 256
    IN  IF sum > unit - 1
        THEN [value |-> sum - unit, carry |-> 1]
        ELSE [value |-> sum, carry |-> 0]

\* Defect the checks notice: no carry into the days.
DaysNoCarry(r, carry, difference) ==
    r.days_lower + r.days_higher.bit8 + difference

\* The day counter of update_rtc_latch: bit 8 is added as one day.
Days(r, carry, difference) ==
    r.days_lower + r.days_higher.bit8 + carry + difference

\* update_rtc_latch() of a running clock, after difference seconds.
Advance(r, difference) ==
    LET s    == Add(r.seconds, difference % 60, 60)
        m    == Add((r.minutes + s.carry) % 256, (difference \div 60) % 60, 60)
        h    == Add((r.hours + m.carry) % 256, (difference \div 3600) % 24, 24)
        days == Days(r, h.carry, difference \div 86400)
        over == days > 511
        bit8 == ((days % 512) \div 256)
    IN  [seconds     |-> s.value,
         minutes     |-> m.value,
         hours       |-> h.value,
         days_lower  |-> days % 256,
         days_higher |->
             [bit8  |-> IF over \/ r.days_higher.bit8 = 0 THEN bit8 ELSE 1,
              halt  |-> r.days_higher.halt,
              carry |-> r.days_higher.carry \/ over]]

\* update_rtc_latch(): a halted clock is left alone, and so is the time of the
\* last update.
UpdatedRtc ==
    IF rtc.days_higher.halt \/ last_time = now THEN rtc
    ELSE Advance(rtc, now - last_time)

UpdatedTime == IF rtc.days_higher.halt THEN last_time ELSE now

-----------------------------------------------------------------------------
Midnight == [seconds |-> 0, minutes |-> 0, hours |-> 0, days_lower |-> 0,
             days_higher |-> [bit8 |-> 0, halt |-> FALSE, carry |-> FALSE]]

\* The constructor without a saved clock.
Init ==
    /\ now = 1
    /\ rtc = Midnight
    /\ rtc_latch = Midnight
    /\ last_time = 1
    /\ latch_data = 0
    /\ selected = "ram"
    /\ ram = "game data"

Elapse(seconds) ==
    /\ now + seconds <= MaxTime
    /\ now' = now + seconds
    /\ UNCHANGED <<rtc, rtc_latch, last_time, latch_data, selected, ram>>

\* control() at 0x6000-0x7FFF: a write of 1 after a write of 0 latches.
Latch(data) ==
    /\ latch_data' = data
    /\ IF latch_data = 0 /\ data = 1
       THEN /\ rtc' = UpdatedRtc
            /\ rtc_latch' = UpdatedRtc
            /\ last_time' = UpdatedTime
       ELSE UNCHANGED <<rtc, rtc_latch, last_time>>
    /\ UNCHANGED <<now, selected, ram>>

\* control() at 0x4000-0x5FFF
Select(what) ==
    /\ selected' = what
    /\ UNCHANGED <<now, rtc, rtc_latch, last_time, latch_data, ram>>

\* write_ram() to a clock register.  The old carry bit survives, and the byte
\* also goes to the RAM behind the register.
WriteRegister(data) ==
    /\ rtc' = [rtc EXCEPT ![selected] =
                  IF selected = "days_higher"
                  THEN [data EXCEPT !.carry = @ \/ rtc.days_higher.carry]
                  ELSE data]
    /\ ram' = "clock data"
    /\ UNCHANGED <<now, rtc_latch, last_time, latch_data, selected>>

\* write_ram() to the RAM
WriteRam ==
    /\ selected = "ram"
    /\ ram' = "game data"
    /\ UNCHANGED <<now, rtc, rtc_latch, last_time, latch_data, selected>>

\* save_rtc(), and later load_rtc() and the constructor: the clock catches up,
\* the latch does not.  Nothing else of the controller is kept.
SaveAndReload(pause) ==
    /\ now + pause <= MaxTime
    /\ now' = now + pause
    /\ rtc_latch' = rtc
    /\ IF rtc.days_higher.halt \/ last_time = now' THEN UNCHANGED <<rtc, last_time>>
       ELSE rtc' = Advance(rtc, now' - last_time) /\ last_time' = now'
    /\ latch_data' = 0
    /\ selected' = "ram"
    /\ UNCHANGED ram

Next ==
    \/ \E seconds \in Pauses : Elapse(seconds)
    \/ \E data \in {0, 1} : Latch(data)
    \/ \E what \in Registers \cup {"ram"} : Select(what)
    \/ \E register \in Registers : /\ selected = register
                                  /\ \E data \in RegValues[register] : WriteRegister(data)
    \/ WriteRam
    \/ \E seconds \in Pauses : SaveAndReload(seconds)

Spec == Init /\ [][Next]_vars

-----------------------------------------------------------------------------
\* Type invariant of the clock members of class mbc3: whatever the pauses, the
\* single carry of update_rtc_latch leaves every register in its range.
TypeOK ==
    /\ now \in 1..MaxTime
    /\ {rtc, rtc_latch} \subseteq
           [seconds : 0..59, minutes : 0..59, hours : 0..23, days_lower : 0..255,
            days_higher : [bit8 : {0, 1}, halt : BOOLEAN, carry : BOOLEAN]]
    /\ last_time \in 1..now
    /\ latch_data \in {0, 1}
    /\ selected \in Registers \cup {"ram"}
    /\ ram \in {"game data", "clock data"}
=============================================================================
