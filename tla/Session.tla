------------------------------ MODULE Session ------------------------------
(***************************************************************************)
(* The frontend (frontend/src/frontend.cpp, frontend/include/list_view.h)  *)
(* and the loop of main() (frontend/src/main.cpp) around the machine: the  *)
(* menus, the keys that reach the joypad, the ROM that is loaded, its      *)
(* progress and the save file.  The window system and the player are       *)
(* external: they put events in the queue of the window at any time.       *)
(***************************************************************************)
EXTENDS Naturals, Sequences, FiniteSets, Joypad

CONSTANTS
    Games,         \* the ROM files, cartridges with a battery
    ColourGames,   \* those for which cgb_enabled() holds
    Palettes,      \* the number of entries of gb_palettes
    Devices,       \* the number of audio devices
    PlayerKeys,    \* the keys the player uses among those the joypad knows
    MaxEvents,     \* bound: events waiting in the window
    MaxProgress    \* bound: progress within one game

ASSUME GamesAssumption ==
    IsFiniteSet(Games) /\ Games # {} /\ ColourGames \subseteq Games
ASSUME ListsAssumption == Palettes \in Nat \ {0} /\ Devices \in Nat \ {0}

VARIABLES
    state,                  \* state_
    current_idx,            \* current_idx_ of every list, from one
    palette_disabled,       \* whether main_menu_[2] is disabled
    roms,                   \* the paths of roms_
    favorites,              \* the games with is_favorite
    shown,                  \* the games select_rom_file_menu_ lists
    configured,             \* the palette config_ remembers for a game
    loaded,                 \* rom_path_ of the cartridge
    palette,                \* gb_palette_ of the PPU
    ram, disk,              \* progress in the cartridge and in the save files
    at,                     \* where main() is
    events, open, focus,    \* the window
    down                    \* the keys the player holds

menus == <<state, current_idx, palette_disabled, roms, favorites, shown>>
machine == <<loaded, palette, ram, disk>>
joypad == <<keys, selected, interrupt_flags>>
window == <<events, open, focus, down>>
svars == <<menus, configured, machine, joypad, at, window>>

NoGame == "no game"
NotConfigured == 0
Zelda == 0            \* the palette of ppu::reset()
Quitting == "quitting"

JoypadOf == [Up |-> "up", Down |-> "down", Left |-> "left", Right |-> "right",
             Z |-> "a", X |-> "b", Enter |-> "start", Space |-> "select"]
ASSUME KeysAssumption ==
    /\ {JoypadOf[code] : code \in DOMAIN JoypadOf} = Keys
    /\ PlayerKeys \subseteq DOMAIN JoypadOf

Event(type, code) == [type |-> type, code |-> code]

-----------------------------------------------------------------------------
\* ui::list_view

MainMenu == <<"resume", "select_audio_device", "select_gb_color_palette",
              "select_rom_file", "quit">>
Lists == {"main_menu", "select_audio_device", "select_gb_color_palette",
          "select_rom_file"}

Entries(list) ==
    CASE list = "main_menu" -> Len(MainMenu)
      [] list = "select_audio_device" -> Devices
      [] list = "select_gb_color_palette" -> Palettes
      [] list = "select_rom_file" -> Len(shown)

is_enabled(list, idx) ==
    ~(list = "main_menu" /\ MainMenu[idx] = "select_gb_color_palette"
                         /\ palette_disabled)

\* Up and Down go to the next enabled entry, if there is one.
Targets(list, key) ==
    {idx \in 1..Entries(list) :
        /\ is_enabled(list, idx)
        /\ IF key = "Up" THEN idx < current_idx[list]
                         ELSE idx > current_idx[list]}

Move(key) ==
    /\ \E idx \in Targets(state, key) :
          /\ \A other \in Targets(state, key) :
                IF key = "Up" THEN other <= idx ELSE idx <= other
          /\ current_idx' = [current_idx EXCEPT ![state] = idx]
    /\ UNCHANGED <<state, palette_disabled, roms, favorites, shown>>

-----------------------------------------------------------------------------
\* What the menus and the keys do.

\* std::stable_partition(): the marked games go first, and apart from that they
\* keep their order.  The set has one member.
Partitions(list, marked) ==
    LET Precedes(i, j) == IF (list[i] \in marked) = (list[j] \in marked)
                          THEN i < j ELSE list[i] \in marked
    IN  {[i \in DOMAIN list |-> list[places[i]]] :
            places \in {order \in [DOMAIN list -> DOMAIN list] :
                \A i, j \in DOMAIN list : i < j => Precedes(order[i], order[j])}}

generate_rom_select_menu_items ==
    /\ roms' \in Partitions(roms, favorites)
    /\ shown' = roms'

\* gameboy::load_rom(): every unit is reset and the save file is read.
load_rom(game) ==
    /\ loaded' = game
    /\ ram' = disk[game]
    /\ keys' = {} /\ selected' = Rows /\ interrupt_flags' = {}

\* The palette of a game that was just loaded.
gb_palette(game) ==
    IF game \notin ColourGames /\ configured[game] # NotConfigured
    THEN configured[game] ELSE Zelda

on_main_menu_item_selected(idx) ==
    /\ state' = CASE MainMenu[idx] = "resume" -> "game"
                  [] MainMenu[idx] = "quit" -> Quitting
                  [] OTHER -> MainMenu[idx]
    /\ open' = (state' # Quitting)
    /\ IF state' = "select_rom_file" THEN generate_rom_select_menu_items
                                     ELSE UNCHANGED <<roms, shown>>
    /\ UNCHANGED <<configured, machine, joypad>>

\* The device itself is left out.
on_audio_device_selected(idx) ==
    /\ state' = "game"
    /\ UNCHANGED <<roms, shown, configured, machine, joypad, open>>

on_gb_color_palette_selected(idx) ==
    /\ state' = "game"
    /\ palette' = idx
    /\ configured' = [configured EXCEPT ![loaded] = idx]
    /\ UNCHANGED <<roms, shown, loaded, ram, disk, joypad, open>>

\* A defect the checks notice: the game that runs is loaded again.
everyGame(game) == TRUE

\* The game that runs goes on when it is picked again.
is_another(game) == game # loaded

on_rom_file_selected(idx) ==
    /\ state' = "game"
    /\ IF is_another(roms[idx])
       THEN load_rom(roms[idx]) /\ palette' = gb_palette(roms[idx])
       ELSE UNCHANGED <<loaded, ram, palette, joypad>>
    /\ UNCHANGED <<roms, shown, configured, disk, open>>

on_item_selected(list, idx) ==
    \/ list = "main_menu" /\ on_main_menu_item_selected(idx)
    \/ list = "select_audio_device" /\ on_audio_device_selected(idx)
    \/ list = "select_gb_color_palette" /\ on_gb_color_palette_selected(idx)
    \/ list = "select_rom_file" /\ on_rom_file_selected(idx)

\* on_key_event() goes back to the first entry after the handler.
toFirst(list) == current_idx' = [current_idx EXCEPT ![list] = 1]

-----------------------------------------------------------------------------
\* frontend::tick(), one event at a time.

InMenu == state \in Lists
IsQuit(e) ==
    e.type = "closed" \/ e = Event("released", "Q")

\* A defect the checks notice: the loop is not told.
closeForgotten(e) ==
    /\ IsQuit(e)
    /\ open' = FALSE
    /\ UNCHANGED <<menus, configured, machine, joypad, at>>

CloseWindow(e) ==
    /\ IsQuit(e)
    /\ open' = FALSE
    /\ at' = "saving"
    /\ UNCHANGED <<menus, configured, machine, joypad>>

\* A defect the checks notice: the menu entry stays as it was.
asBefore == ~palette_disabled

\* The menu offers the palettes to monochrome games.
can_pick_gb_color_palette == loaded # NoGame /\ loaded \notin ColourGames

LeaveGame(e) ==
    /\ state = "game"
    /\ e = Event("released", "Escape")
    /\ state' = "main_menu"
    /\ palette_disabled' = ~can_pick_gb_color_palette
    /\ UNCHANGED <<current_idx, roms, favorites, shown, configured, machine,
                   joypad, open, at>>

\* gameboy::save_ram_rtc()
save_ram_rtc ==
    disk' = IF loaded = NoGame THEN disk ELSE [disk EXCEPT ![loaded] = ram]

\* A defect the checks notice: the game does not hear of a release.
releaseIgnored(key) == UNCHANGED joypad

\* What handle_game_keys() does with a key that is released.
release_key(key) == release(key)

handle_game_keys(e) ==
    /\ state = "game"
    /\ \/ /\ e.code \in DOMAIN JoypadOf
          /\ IF e.type = "pressed" THEN press(JoypadOf[e.code])
                                   ELSE release_key(JoypadOf[e.code])
          /\ UNCHANGED disk
       \/ /\ e = Event("released", "S")
          /\ save_ram_rtc
          /\ UNCHANGED joypad
    /\ UNCHANGED <<menus, configured, loaded, palette, ram, open, at>>

on_key_event(e) ==
    /\ InMenu
    /\ \/ /\ e.type = "pressed" /\ e.code \in {"Up", "Down"}
          /\ Move(e.code)
          /\ UNCHANGED <<configured, machine, joypad, open, at>>
       \/ /\ e = Event("released", "Enter")
          /\ on_item_selected(state, current_idx[state])
          /\ toFirst(state)
          /\ UNCHANGED <<palette_disabled, favorites, at>>

ToggleFavorite(e) ==
    /\ state = "select_rom_file"
    /\ e.type = "released" /\ e.code \in {"Left", "Right"}
    /\ LET game == roms[current_idx[state]] IN
       favorites' = IF game \in favorites THEN favorites \ {game}
                                          ELSE favorites \cup {game}
    /\ UNCHANGED <<state, current_idx, palette_disabled, roms, shown,
                   configured, machine, joypad, open, at>>

\* Whatever nothing above reacts to.
Ignored(e) ==
    /\ ~IsQuit(e)
    /\ IF state = "game"
       THEN e.code \notin DOMAIN JoypadOf
            /\ e \notin {Event("released", "Escape"), Event("released", "S")}
       ELSE /\ e # Event("released", "Enter")
            /\ e.type = "pressed" /\ e.code \in {"Up", "Down"}
                 => Targets(state, e.code) = {}
            /\ state = "select_rom_file" /\ e.type = "released"
                 => e.code \notin {"Left", "Right"}
    /\ UNCHANGED <<menus, configured, machine, joypad, open, at>>

PollEvent ==
    /\ at = "polling" /\ open /\ events # <<>>
    /\ events' = Tail(events)
    /\ LET e == Head(events) IN
       \/ CloseWindow(e)
       \/ ~IsQuit(e) /\ (\/ LeaveGame(e) \/ handle_game_keys(e)
                         \/ on_key_event(e) \/ ToggleFavorite(e))
       \/ Ignored(e)
    /\ UNCHANGED <<focus, down>>

\* No event is left, as from a window that is closed.
EndTick ==
    /\ at = "polling" /\ (events = <<>> \/ ~open)
    /\ at' = IF state = "game" THEN "frame" ELSE "loop"
    /\ UNCHANGED <<menus, configured, machine, joypad, window>>

-----------------------------------------------------------------------------
\* main()

\* The window has the focus only while it is open.
hasFocus == open /\ focus

\* Without the focus the loop sleeps and looks again.
Loop ==
    /\ at = "loop" /\ hasFocus
    /\ at' = IF state = Quitting THEN "saving" ELSE "polling"
    /\ UNCHANGED <<menus, configured, machine, joypad, window>>

\* tick_one_frame(), in which the game may progress.
Frame ==
    /\ at = "frame"
    /\ at' = "loop"
    /\ ram' \in {ram, ram + 1} /\ ram' <= MaxProgress
    /\ UNCHANGED <<menus, configured, loaded, palette, disk, joypad, window>>

End ==
    /\ at = "saving"
    /\ at' = "ended"
    /\ save_ram_rtc
    /\ UNCHANGED <<menus, configured, loaded, palette, ram, joypad, window>>

Program == Loop \/ PollEvent \/ EndTick \/ Frame \/ End

-----------------------------------------------------------------------------
\* The player and the window system.

Put(e) == Len(events) < MaxEvents /\ events' = Append(events, e)

\* A window without the focus hears of no key.
Key ==
    /\ \/ \E key \in PlayerKeys :
            \/ /\ key \notin down /\ down' = down \cup {key}
               /\ IF focus THEN Put(Event("pressed", key))
                           ELSE UNCHANGED events
            \/ /\ key \in down /\ focus /\ UNCHANGED down
               /\ Put(Event("pressed", key))                \* auto-repeat
            \/ /\ key \in down /\ down' = down \ {key}
               /\ IF focus THEN Put(Event("released", key))
                           ELSE UNCHANGED events
       \/ /\ focus /\ UNCHANGED down
          /\ \E code \in {"Escape", "S", "Q"} : Put(Event("released", code))
    /\ UNCHANGED focus

Close == Put(Event("closed", "window")) /\ UNCHANGED <<focus, down>>

SwitchFocus == focus' = ~focus /\ UNCHANGED <<events, down>>

Player ==
    /\ open /\ (Key \/ Close \/ SwitchFocus)
    /\ UNCHANGED <<menus, configured, machine, joypad, at, open>>

-----------------------------------------------------------------------------
\* A folder is read in some order.
Orders == {order \in [1..Cardinality(Games) -> Games] :
              \A i, j \in DOMAIN order : order[i] = order[j] => i = j}

InitFolder ==
    \E order \in Orders, marked \in SUBSET Games :
        /\ state = "select_rom_file"
        /\ favorites = marked
        /\ roms \in Partitions(order, marked) /\ shown = roms
        /\ loaded = NoGame

\* One file: register_gameboy() loads it.
InitFile ==
    \E game \in Games :
        /\ state = "game"
        /\ favorites = {}
        /\ roms = <<game>> /\ shown = <<>>
        /\ loaded = game

SessionInit ==
    /\ InitFolder \/ InitFile
    /\ current_idx = [list \in Lists |-> 1]
    /\ palette_disabled = FALSE
    /\ configured \in [Games -> 0..Palettes]
    /\ \A game \in ColourGames : configured[game] = NotConfigured
    /\ palette = Zelda
    /\ ram = 0 /\ disk = [game \in Games |-> 0]
    /\ Init
    /\ at = "loop"
    /\ events = <<>> /\ open = TRUE /\ focus = TRUE /\ down = {}

SessionNext == Program \/ Player

SessionSpec == SessionInit /\ [][SessionNext]_svars

\* main() goes on as long as it is not asleep, and a frame ends.
SessionFair == SessionSpec /\ WF_svars(Program)
=============================================================================
