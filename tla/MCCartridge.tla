---------------------------- MODULE MCCartridge -----------------------------
(***************************************************************************)
(* The cartridges TLC puts in and takes out, one of which has a clock.  A  *)
(* history variable that no step depends on has the time the clock should  *)
(* show, kept by a clock that never misses a second.                       *)
(***************************************************************************)
EXTENDS Cartridge, TLC

CONSTANTS
    a, b, c, d,
    Pauses, RegValues, MaxTime    \* of the clock

ASSUME ClockAssumption ==
    /\ Pauses \subseteq Nat
    /\ MaxTime \in Nat \ {0}
    /\ RegValues \in
           [seconds : SUBSET (0..59), minutes : SUBSET (0..59), hours : SUBSET (0..23),
            days_lower : SUBSET (0..255),
            days_higher : SUBSET [bit8 : {0, 1}, halt : BOOLEAN, carry : BOOLEAN]]

VARIABLES
    now, rtc, rtc_latch, last_time, latch_data, selected, clock_ram,  \* of Rtc
    due

Clock == INSTANCE Rtc WITH ram <- clock_ram
clock_vars == <<now, rtc, rtc_latch, last_time, latch_data, selected, clock_ram, due>>
mcvars == <<vars, clock_vars>>

\* One cartridge of every controller, with and without a battery.
MCTypeWithController == a :> "mbc1" @@ b :> "mbc5" @@ c :> "mbc2" @@ d :> "mbc3"
MCRomBanks == a :> 64 @@ b :> 8 @@ c :> 4 @@ d :> 16
MCRamBanks == a :> 4 @@ b :> 1 @@ c :> 0 @@ d :> 1
MCBattery == a :> TRUE @@ b :> FALSE @@ c :> TRUE @@ d :> TRUE

\* The clock is not halted here, and set to the end of a day or a minute.
MCRegValues ==
    [seconds |-> {59}, minutes |-> {}, hours |-> {23}, days_lower |-> {},
     days_higher |-> {}]

DayPeriod == 512 * 86400
Shown(r) ==
    r.seconds + 60 * r.minutes + 3600 * r.hours
        + 86400 * (r.days_lower + 256 * r.days_higher.bit8)

\* The registers and the time they were last caught up stand for this time.
Represented == (Shown(rtc) + (now - last_time)) % DayPeriod

\* The clock runs unless it is halted.  A program that writes a register sets
\* it in the clock as it was last caught up.
History ==
    due' = IF now' # now
           THEN IF rtc.days_higher.halt THEN due ELSE (due + (now' - now)) % DayPeriod
           ELSE IF rtc' # rtc /\ last_time' = last_time /\ ~rtc.days_higher.halt
                   /\ ~rtc'.days_higher.halt THEN Represented'
           ELSE due

\* The clock is used with its cartridge in, the RAM enabled and nothing saved;
\* banks and files are used before the clock is.
CartridgeStep == Next /\ Clock!Init /\ UNCHANGED clock_vars
ClockStep ==
    /\ inserted = d /\ mbc = [Fresh("mbc3") EXCEPT !.ram_enabled = TRUE]
    /\ \A cartridge \in Cartridges : files[cartridge] = NoRam
    /\ Clock!Next /\ History
    /\ UNCHANGED vars

MCInit == Init /\ Clock!Init /\ due = 0
MCNext == CartridgeStep \/ ClockStep
MCSpec == MCInit /\ [][MCNext]_mcvars

\* The time the program latches is the time that has gone by, however often and
\* at whatever moments it latches, saves and reloads, and every byte of it is in
\* its range: whatever the pause, the single carry of update_rtc_latch brings it
\* back (mbc3.cpp:90-136).
ClockKeepsTime ==
    /\ Clock!TypeOK
    /\ ~rtc.days_higher.halt => Represented = due

\* src/README.md:56-57: "gameboy writes cartridge save files to disk when it
\* goes out of scope" (cartridge.cpp:272-278).
SavedOnLeave ==
    [][LeaveScope /\ inserted # None /\ Battery[inserted] =>
           files'[inserted] = ram]_vars
=============================================================================
