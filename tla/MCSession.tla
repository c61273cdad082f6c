----------------------------- MODULE MCSession -----------------------------
(***************************************************************************)
(* Session with a program that polls the joypad the usual way, one row     *)
(* after the other, and with a history of the keys.  A behaviour is about  *)
(* the keys, any of which may be held at once, also while games are loaded *)
(* from the menus; about the polls of one game; or about the menus, with   *)
(* the window in front.                                                    *)
(***************************************************************************)
EXTENDS Session

VARIABLES
    scene,     \* "keys", "polls" or "menus"
    step,      \* the next step of the poll
    seen,      \* the keys the poll has read as held
    always,    \* the keys held since the poll began
    ever,      \* the keys held at some time since the poll began
    missed     \* the keys whose last change the game did not hear of

poll == <<step, seen, always, ever>>
mcvars == <<svars, scene, poll, missed>>

InKeys == scene # "menus"

\* Between two polls.
NoPoll == step = <<"select", "directions">> /\ seen = {} /\ always = {} /\ ever = {}
EndsPoll ==
    step' = <<"select", "directions">> /\ seen' = {} /\ always' = {} /\ ever' = {}

Select(row) ==
    /\ step = <<"select", row>>
    /\ write({row})
    /\ step' = <<"read", row>>
    /\ IF row = "directions" THEN seen' = {} /\ always' = keys /\ ever' = keys
                             ELSE UNCHANGED <<seen, always, ever>>

Read(row) ==
    /\ step = <<"read", row>>
    /\ seen' = seen \cup read
    /\ step' = IF row = "directions" THEN <<"select", "buttons">>
                                     ELSE <<"done">>
    /\ UNCHANGED <<joypad, always, ever>>

\* The program leaves both rows unselected, as most do, and starts again.
Deselect ==
    /\ step = <<"done">>
    /\ write({})
    /\ EndsPoll

\* The CPU dispatches the interrupt, or the program clears its flag.
ClearFlag ==
    /\ interrupt_flags # {}
    /\ interrupt_flags' = {}
    /\ UNCHANGED <<keys, selected, poll>>

\* The program runs inside a frame; a poll may go on in the next one.
Poll ==
    /\ InKeys /\ at = "frame"
    /\ (\E row \in Rows : Select(row) \/ Read(row)) \/ Deselect \/ ClearFlag
    /\ UNCHANGED <<menus, configured, machine, at, window, missed>>

\* What the game has heard of the keys, after a step of the session: a game
\* that is loaded has heard of no key that is held.
Heard ==
    missed' =
        IF loaded' # loaded THEN down
        ELSE IF events = <<>> \/ events' # Tail(events)
        THEN IF focus THEN missed
             ELSE missed \cup {key \in PlayerKeys : (key \in down) # (key \in down')}
        ELSE LET key == Head(events).code IN
             IF key \notin PlayerKeys THEN missed
             ELSE IF state # "game" THEN missed \cup {key}
             ELSE IF (Head(events).type = "pressed") = (key \in down)
             THEN missed \ {key} ELSE missed \cup {key}

\* What the poll has seen, after a step of the session: a game that is loaded
\* starts a poll of its own.
PollGoesOn ==
    IF NoPoll \/ loaded' # loaded THEN EndsPoll
    ELSE /\ always' = always \cap keys' /\ ever' = ever \cup keys'
         /\ UNCHANGED <<step, seen>>

KeysStep == InKeys /\ SessionNext /\ Heard /\ PollGoesOn
MenusStep == ~InKeys /\ SessionNext /\ UNCHANGED <<poll, missed>>

HistoryInit ==
    /\ SessionInit
    /\ scene \in {"keys", "polls", "menus"}
    /\ NoPoll /\ missed = {}

\* Bounds on the player.  In the scenes of the keys the games make no progress
\* and at most two keys are down at a time.
\* In the keys scene the key that moves in a list is pressed in menus only, the
\* window changes its focus only in the game, where it matters to the keys, the
\* list of the palettes is a dead end and nobody closes the window or saves; the
\* polls are those of one game, in whose menu nobody moves.  In the menus scene
\* one key is down at a time, and the arrows in menus only.
KeysScene ==
    /\ KeysStep
    /\ ram' = ram /\ Cardinality(down') <= 2
    /\ IF scene = "polls" THEN "Down" \notin down'
       ELSE /\ IF state = "game" THEN "Down" \notin down' \ down ELSE focus' = focus
            /\ state = "select_gb_color_palette" => Len(events') <= Len(events)
            /\ \A i \in 1..Len(events') :
                  events'[i].code \in PlayerKeys \cup {"Escape"}

PollScene == scene = "polls" /\ Poll

MenusScene ==
    /\ MenusStep
    /\ Cardinality(down') <= 1
    /\ state = "game" => down' \subseteq down \cup {"Enter"}
    /\ focus'

MCInit ==
    /\ HistoryInit
    /\ IF scene = "polls" THEN InitFile ELSE scene = "keys" => InitFolder /\ favorites = {}
    /\ InKeys => configured = [game \in Games |-> NotConfigured]

MCNext == (KeysScene \/ PollScene \/ MenusScene) /\ UNCHANGED scene

MCSpec == MCInit /\ [][MCNext]_mcvars

MCFairSpec == MCSpec /\ WF_mcvars(Program /\ MCNext)

-----------------------------------------------------------------------------
\* A poll reports every key that was held all the time and no key that was not
\* held at any time, although the frontend changes the keys between any two
\* frames (joypad.cpp:33-58, frontend.cpp:437-516).
PollIsSound == step = <<"done">> => always \subseteq seen /\ seen \subseteq ever

\* Before a frame the machine holds exactly the keys the player holds, whatever
\* was held at once, released in a menu, or held while another game was loaded
\* (frontend.cpp:253-262, joypad.cpp:22-58).  The exception are keys the game has
\* not heard of: those whose last change came while a menu was open or the window
\* was not in front, and those that were down when the game was loaded, which
\* load_rom() resets in the joypad (gameboy.cpp:82).
KeysFollowPlayer ==
    [][InKeys /\ EndTick /\ state = "game" /\ events = <<>>
         => \A key \in PlayerKeys \ missed :
                JoypadOf[key] \in keys <=> key \in down]_mcvars

\* From a folder, a game is shown in the palette that is remembered for it, and
\* a colour game is never given one, whatever was enabled or selected in the
\* menus before it was loaded (frontend.cpp:257, 390-421; list_view.h:175-213).
PaletteIsTheGames ==
    loaded # NoGame /\ roms # <<loaded>>
        => IF loaded \in ColourGames THEN palette = Zelda
           ELSE configured[loaded] # NotConfigured => palette = configured[loaded]

\* Progress is lost only by loading another game, the one the list shows where
\* the player picks; what is there at the end of main() is on disk
\* (frontend.cpp:399-435, main.cpp:85-92).
ProgressKept ==
    [][/\ loaded' # loaded \/ ram' < ram
            => /\ state = "select_rom_file"
               /\ loaded' # loaded /\ loaded' = shown[current_idx[state]]
       /\ at' = "ended" /\ loaded # NoGame => disk'[loaded] = ram]_mcvars

AsksToEnd == open /\ \E i \in 1..Len(events) : IsQuit(events[i])

\* Once the window keeps the focus, closing it or Q ends the program, whatever
\* is on the screen, unless the player picks Quit first.
CloseEnds ==
    <>[]focus => (AsksToEnd ~> (at = "ended" \/ state = Quitting))

\* Picking Quit ends the program: frontend.cpp:236 has the next tick report it.
QuitEnds == <>[]focus => (state = Quitting ~> at = "ended")
=============================================================================
