------------------------------- MODULE Joypad -------------------------------
(***************************************************************************)
(* The joypad (gameboy/src/joypad/joypad.cpp).  The frontend presses and   *)
(* releases keys between two frames; the emulated program selects a row of *)
(* keys by writing JOYP and reads the keys of that row back.               *)
(***************************************************************************)
CONSTANTS
    Directions,   \* the keys of the low four bits of keys_
    Buttons       \* the keys of the high four bits

ASSUME RowsAssumption == Directions \cap Buttons = {}

VARIABLES
    keys,             \* the keys held, the zero bits of keys_
    selected,         \* the rows whose select bit in joyp_ is zero
    interrupt_flags   \* the CPU's IF register, as a set of sources

vars == <<keys, selected, interrupt_flags>>

Keys == Directions \cup Buttons
Rows == {"directions", "buttons"}

\* reset()
Init ==
    /\ keys = {}
    /\ selected = Rows
    /\ interrupt_flags = {}

\* press() requests the interrupt whether or not the program looks at the row,
\* and also for a key that is already held.
press(key) ==
    /\ keys' = keys \cup {key}
    /\ interrupt_flags' = interrupt_flags \cup {"joypad"}
    /\ UNCHANGED selected

release(key) ==
    /\ keys' = keys \ {key}
    /\ UNCHANGED <<selected, interrupt_flags>>

\* A defect the checks notice: a row once selected stays selected.
writeAdds(rows) ==
    /\ selected' = selected \cup rows
    /\ UNCHANGED <<keys, interrupt_flags>>

\* write(): the new select bits replace the old ones.
write(rows) ==
    /\ selected' = rows
    /\ UNCHANGED <<keys, interrupt_flags>>

\* read(): the keys that read as held.  The directions hide the buttons when
\* both rows are selected.
read ==
    IF "directions" \in selected THEN keys \cap Directions
    ELSE IF "buttons" \in selected THEN keys \cap Buttons
    ELSE {}
=============================================================================
