------------------------------ MODULE MCMachine -----------------------------
(***************************************************************************)
(* Machine with history variables, which no step depends on, for the       *)
(* properties that speak of a whole call of tick_one_frame.                *)
(***************************************************************************)
EXTENDS Machine

VARIABLES
    frames_shown,   \* calls of on_vblank since tick_one_frame was called
    disturbed       \* the screen was not fully on, or was restarted, meanwhile

mcvars == <<vars, frames_shown, disturbed>>

ScreenOn == lcd_enabled /\ delay_cycles = 0 /\ delay_frames = 0

History ==
    /\ frames_shown' = CASE frame = "returned" /\ frame' # frame -> 0
                         [] unit = "ppu" /\ shown' /\ frames_shown < 3 -> frames_shown + 1
                         [] OTHER -> frames_shown
    /\ disturbed' = IF frame = "returned" /\ frame' # frame
                    THEN ~ScreenOn
                    ELSE disturbed \/ ScreenStore

MCInit == Init /\ frames_shown = 0 /\ disturbed = FALSE
MCNext == Next /\ History
MCSpec == MCInit /\ [][MCNext]_mcvars

\* A call of tick_one_frame hands the frontend one frame, not none and not two,
\* wherever in a frame it begins (gameboy.cpp:51-72, ppu.cpp:188-243).
OneFrameAtATime ==
    [][frame' = "returned" /\ frame # frame' /\ ~disturbed => frames_shown = 1]_mcvars
=============================================================================
