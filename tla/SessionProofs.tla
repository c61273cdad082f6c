--------------------------- MODULE SessionProofs ---------------------------
(***************************************************************************)
(* Proofs about Session and the poll of the keys, for any games, palettes, *)
(* devices and keys, and for any length of the window's queue.             *)
(***************************************************************************)
EXTENDS MCSession, FiniteSetTheorems, TLAPS

\* Any player: the histories of MCSession without the bounds of its scenes.
PlayerNext == (KeysStep \/ MenusStep \/ Poll) /\ UNCHANGED scene
PlayerSpec == HistoryInit /\ [][PlayerNext]_mcvars

\* The behaviours the run checks are among those the theorems are about.
THEOREM BoundedPlayer == MCSpec => PlayerSpec
<1>1. MCInit => HistoryInit
  BY DEF MCInit
<1>2. [MCNext]_mcvars => [PlayerNext]_mcvars
  BY DEF MCNext, KeysScene, PollScene, MenusScene, PlayerNext
<1> QED
  BY <1>1, <1>2, PTL DEF MCSpec, PlayerSpec

-----------------------------------------------------------------------------
(* The list of games. *)

\* Sorting the games keeps their number, and a list of one game as it is.
LEMMA PartitionKeeps ==
    ASSUME NEW list \in Seq(Games), Len(list) > 0, NEW marked,
           NEW sorted \in Partitions(list, marked)
    PROVE  /\ sorted \in Seq(Games) /\ Len(sorted) = Len(list)
           /\ \A game : list = <<game>> => sorted = <<game>>
<1>1. PICK order \in [DOMAIN list -> DOMAIN list] :
         sorted = [i \in DOMAIN list |-> list[order[i]]]
  BY DEF Partitions
<1>2. DOMAIN list = 1..Len(list) /\ Len(list) \in Nat
  OBVIOUS
<1>3. \A i \in DOMAIN list : list[order[i]] \in Games
  BY <1>1
<1>4. sorted \in Seq(Games) /\ Len(sorted) = Len(list)
  BY <1>1, <1>2, <1>3
<1>5. ASSUME NEW game, list = <<game>> PROVE sorted = <<game>>
  <2>1. Len(list) = 1 /\ list[1] = game
    BY <1>5
  <2>2. order[1] \in DOMAIN list /\ DOMAIN list = 1..1
    BY <1>2, <2>1
  <2>3. order[1] = 1
    BY <2>2
  <2>4. sorted[1] = game /\ Len(sorted) = 1
    BY <1>1, <1>4, <2>1, <2>2, <2>3
  <2> QED
    BY <1>4, <2>4
<1> QED
  BY <1>4, <1>5

LEMMA OrdersAreLists ==
    ASSUME NEW order \in Orders
    PROVE  order \in Seq(Games) /\ Len(order) > 0
<1>1. Cardinality(Games) \in Nat /\ Cardinality(Games) # 0
  BY GamesAssumption, FS_CardinalityType, FS_EmptySet
<1> QED
  BY <1>1 DEF Orders

-----------------------------------------------------------------------------
(* The menus, for any player. *)

\* The entry of a list that is selected is one of its entries, and one that is
\* enabled; the games are listed in the order in which a pick looks them up.
ListsOk ==
    /\ roms \in Seq(Games) /\ Len(roms) > 0
    /\ DOMAIN current_idx = Lists
    /\ current_idx["main_menu"] \in 1..5
    /\ current_idx["select_rom_file"] \in 1..Len(roms)
    /\ state # "main_menu" => current_idx["main_menu"] = 1
    /\ state = "select_rom_file" => shown = roms
    /\ state = "main_menu" =>
          /\ palette_disabled = FALSE <=> can_pick_gb_color_palette
          /\ current_idx["main_menu"] = 3 => palette_disabled = FALSE
    /\ state = "select_gb_color_palette" => can_pick_gb_color_palette

MachineOk ==
    /\ loaded \in Games \cup {NoGame}
    /\ DOMAIN configured = Games
    /\ disk \in [Games -> Nat] /\ ram \in Nat

\* The program that was asked to end has closed its window.
ClosingOk == state = Quitting \/ at \in {"saving", "ended"} => open = FALSE

\* The inductive invariant of the menus.
MenusOk == ListsOk /\ MachineOk /\ ClosingOk /\ open \in BOOLEAN
           /\ palette_disabled \in BOOLEAN /\ PaletteIsTheGames

LEMMA InitMenus == SessionInit => MenusOk
<1> SUFFICES ASSUME SessionInit PROVE MenusOk
  OBVIOUS
<1>1. /\ current_idx = [list \in Lists |-> 1]
      /\ palette_disabled = FALSE /\ palette = Zelda
      /\ configured \in [Games -> 0..Palettes]
      /\ \A game \in ColourGames : configured[game] = NotConfigured
      /\ ram = 0 /\ disk = [game \in Games |-> 0]
      /\ at = "loop" /\ open = TRUE
  BY DEF SessionInit
<1>2. MachineOk /\ roms \in Seq(Games) /\ Len(roms) > 0 /\ state \in {"select_rom_file", "game"}
      /\ (state = "select_rom_file" => shown = roms)
      /\ (loaded = NoGame \/ roms = <<loaded>>)
  <2>1. CASE InitFolder
    <3>1. PICK order \in Orders, marked \in SUBSET Games :
             /\ roms \in Partitions(order, marked) /\ shown = roms
             /\ loaded = NoGame /\ state = "select_rom_file"
      BY <2>1 DEF InitFolder
    <3>2. roms \in Seq(Games) /\ Len(roms) > 0
      BY <3>1, OrdersAreLists, PartitionKeeps
    <3> QED
      BY <1>1, <3>1, <3>2 DEF MachineOk
  <2>2. CASE InitFile
    BY <1>1, <2>2 DEF InitFile, MachineOk
  <2> QED
    BY <2>1, <2>2 DEF SessionInit
<1>3. ListsOk
  BY <1>1, <1>2 DEF ListsOk, Lists
<1> QED
  BY <1>1, <1>2, <1>3 DEF MenusOk, ClosingOk, PaletteIsTheGames, Quitting

\* What the invariant depends on.
menuvars == <<state, current_idx, palette_disabled, roms, shown, configured,
              machine, at, open>>

LEMMA MenusStutter == MenusOk /\ UNCHANGED menuvars => MenusOk'
BY DEF menuvars, machine, MenusOk, ListsOk, MachineOk, ClosingOk, PaletteIsTheGames,
       can_pick_gb_color_palette

\* The arrows stay among the enabled entries.
LEMMA MovesAmongEntries ==
    ASSUME MenusOk, NEW key, Move(key), InMenu,
           UNCHANGED <<configured, machine, at, open>>
    PROVE  MenusOk'
<1>1. PICK idx \in Targets(state, key) :
         current_idx' = [current_idx EXCEPT ![state] = idx]
  BY DEF Move
<1>2. UNCHANGED <<state, palette_disabled, roms, shown>>
  BY DEF Move
<1>3. idx \in 1..Entries(state) /\ is_enabled(state, idx)
  BY <1>1 DEF Targets
<1>4. /\ state = "main_menu" => idx \in 1..5 /\ (idx = 3 => palette_disabled = FALSE)
      /\ state = "select_rom_file" => idx \in 1..Len(roms)
  BY <1>3 DEF Entries, MainMenu, is_enabled, MenusOk, ListsOk
<1>5. state \in DOMAIN current_idx
  BY DEF InMenu, MenusOk, ListsOk
<1>6. ListsOk'
  BY <1>1, <1>2, <1>4, <1>5 DEF ListsOk, MenusOk, can_pick_gb_color_palette, machine
<1>7. MachineOk' /\ ClosingOk' /\ PaletteIsTheGames'
  BY <1>2 DEF MenusOk, MachineOk, ClosingOk, PaletteIsTheGames, machine
<1> QED
  BY <1>2, <1>6, <1>7 DEF MenusOk

LEMMA MenuSelects ==
    ASSUME MenusOk, state = "main_menu", open,
           on_main_menu_item_selected(current_idx["main_menu"]), toFirst(state),
           UNCHANGED <<palette_disabled, at>>, at = "polling"
    PROVE  MenusOk'
<1> DEFINE idx == current_idx["main_menu"]
<1>1. idx \in 1..5 /\ (idx = 3 => can_pick_gb_color_palette)
  BY DEF MenusOk, ListsOk
<1>2. /\ state' = CASE MainMenu[idx] = "resume" -> "game"
                    [] MainMenu[idx] = "quit" -> Quitting
                    [] OTHER -> MainMenu[idx]
      /\ open' = (state' # Quitting)
      /\ UNCHANGED <<configured, machine>>
  BY DEF on_main_menu_item_selected
<1>3. /\ state' \in {"game", Quitting, "select_audio_device", "select_gb_color_palette",
                     "select_rom_file"}
      /\ state' = "select_gb_color_palette" => idx = 3
  <2> HIDE DEF idx
  <2> QED
    BY <1>1, <1>2 DEF MainMenu, Quitting
<1>4. /\ roms' \in Seq(Games) /\ Len(roms') = Len(roms)
      /\ state' = "select_rom_file" => shown' = roms'
      /\ \A game : roms = <<game>> => roms' = <<game>>
  <2>1. CASE state' = "select_rom_file"
    BY <2>1, PartitionKeeps DEF on_main_menu_item_selected, generate_rom_select_menu_items,
                                MenusOk, ListsOk
  <2>2. CASE state' # "select_rom_file"
    BY <2>2 DEF on_main_menu_item_selected, MenusOk, ListsOk
  <2> QED
    BY <2>1, <2>2
<1>5. current_idx' = [current_idx EXCEPT !["main_menu"] = 1]
  BY DEF toFirst
<1>6. can_pick_gb_color_palette' <=> can_pick_gb_color_palette
  BY <1>2 DEF can_pick_gb_color_palette, machine
<1>7. ListsOk'
  BY <1>1, <1>3, <1>4, <1>5, <1>6 DEF ListsOk, MenusOk, Lists, Quitting
<1>8. ClosingOk' /\ open' \in BOOLEAN
  BY <1>2 DEF ClosingOk
<1>9. MachineOk' /\ PaletteIsTheGames'
  BY <1>2, <1>4 DEF MenusOk, MachineOk, PaletteIsTheGames, machine
<1> QED
  BY <1>7, <1>8, <1>9 DEF MenusOk

LEMMA DeviceSelects ==
    ASSUME MenusOk, state = "select_audio_device", toFirst(state), at = "polling",
           on_audio_device_selected(current_idx[state]), UNCHANGED <<palette_disabled, at>>
    PROVE  MenusOk'
<1>1. /\ state' = "game" /\ current_idx' = [current_idx EXCEPT !["select_audio_device"] = 1]
      /\ UNCHANGED <<roms, shown, configured, machine, open, palette_disabled, at>>
  BY DEF on_audio_device_selected, toFirst
<1>2. ListsOk'
  BY <1>1 DEF ListsOk, MenusOk, Lists
<1> QED
  BY <1>1, <1>2 DEF MenusOk, MachineOk, ClosingOk, PaletteIsTheGames, machine, Quitting

\* The palettes are offered to a monochrome game, and the game remembers its own.
LEMMA PaletteSelects ==
    ASSUME MenusOk, state = "select_gb_color_palette", toFirst(state), at = "polling",
           on_gb_color_palette_selected(current_idx[state]), UNCHANGED <<palette_disabled, at>>
    PROVE  MenusOk'
<1> DEFINE idx == current_idx[state]
<1>1. /\ state' = "game" /\ current_idx' = [current_idx EXCEPT !["select_gb_color_palette"] = 1]
      /\ palette' = idx /\ configured' = [configured EXCEPT ![loaded] = idx]
      /\ UNCHANGED <<roms, shown, loaded, ram, disk, open, palette_disabled, at>>
  BY DEF on_gb_color_palette_selected, toFirst
<1>2. loaded \in DOMAIN configured /\ loaded \notin ColourGames
  BY DEF MenusOk, ListsOk, MachineOk, can_pick_gb_color_palette
<1>3. ListsOk'
  BY <1>1 DEF ListsOk, MenusOk, Lists
<1>4. MachineOk' /\ ClosingOk'
  BY <1>1 DEF MenusOk, MachineOk, ClosingOk, Quitting
<1>5. configured'[loaded] = idx
  BY <1>1, <1>2
<1>6. PaletteIsTheGames'
  BY <1>1, <1>2, <1>5 DEF PaletteIsTheGames
<1> QED
  BY <1>1, <1>3, <1>4, <1>6 DEF MenusOk

LEMMA RomSelects ==
    ASSUME MenusOk, state = "select_rom_file", toFirst(state), at = "polling",
           on_rom_file_selected(current_idx[state]), UNCHANGED <<palette_disabled, at>>
    PROVE  /\ MenusOk'
           /\ ~(UNCHANGED <<loaded, ram>>) =>
                 loaded' # loaded /\ loaded' = shown[current_idx[state]]
           /\ IF loaded' # loaded THEN keys' = {} ELSE UNCHANGED joypad
<1> DEFINE idx == current_idx["select_rom_file"]
           game == roms[idx]
<1>1. /\ state' = "game" /\ current_idx' = [current_idx EXCEPT !["select_rom_file"] = 1]
      /\ IF game # loaded THEN load_rom(game) /\ palette' = gb_palette(game)
                          ELSE UNCHANGED <<loaded, ram, palette, joypad>>
      /\ UNCHANGED <<roms, shown, configured, disk, open, palette_disabled, at>>
  BY DEF on_rom_file_selected, toFirst, is_another
<1>2. idx \in 1..Len(roms) /\ game \in Games /\ shown = roms
  BY DEF MenusOk, ListsOk
<1>3. ListsOk'
  BY <1>1 DEF ListsOk, MenusOk, Lists
<1>4. CASE game # loaded
  <2>1. loaded' = game /\ ram' = disk[game] /\ palette' = gb_palette(game) /\ keys' = {}
    BY <1>1, <1>4 DEF load_rom
  <2>2. MachineOk'
    BY <1>1, <1>2, <2>1 DEF MenusOk, MachineOk
  <2>3. PaletteIsTheGames'
    BY <1>1, <2>1 DEF gb_palette, PaletteIsTheGames
  <2> QED
    BY <1>1, <1>2, <1>3, <1>4, <2>1, <2>2, <2>3 DEF MenusOk, ClosingOk, Quitting
<1>5. CASE game = loaded
  BY <1>1, <1>3, <1>5 DEF MenusOk, MachineOk, PaletteIsTheGames, ClosingOk, Quitting
<1> QED
  BY <1>4, <1>5

\* What an event may do to the game: nothing, but for the pick of another one.
GameGoesOn ==
    \/ UNCHANGED <<loaded, ram>>
    \/ /\ state = "select_rom_file"
       /\ loaded' # loaded /\ loaded' = shown[current_idx[state]]

LEMMA EventKeepsMenus ==
    ASSUME MenusOk, PollEvent
    PROVE  MenusOk' /\ GameGoesOn
<1> DEFINE e == Head(events)
<1>0. at = "polling" /\ open
  BY DEF PollEvent
<1>1. CASE CloseWindow(e)
  <2>1. UNCHANGED <<menus, configured, machine>> /\ open' = FALSE
    BY <1>1 DEF CloseWindow
  <2> QED
    BY <2>1 DEF MenusOk, ListsOk, MachineOk, ClosingOk, PaletteIsTheGames, menus, machine,
                can_pick_gb_color_palette, GameGoesOn
<1>2. CASE LeaveGame(e)
  <2>1. /\ state = "game" /\ state' = "main_menu"
        /\ palette_disabled' = ~can_pick_gb_color_palette
        /\ UNCHANGED <<current_idx, roms, shown, configured, machine, open, at>>
    BY <1>2 DEF LeaveGame
  <2>2. can_pick_gb_color_palette' <=> can_pick_gb_color_palette
    BY <2>1 DEF can_pick_gb_color_palette, machine
  <2>3. palette_disabled' = FALSE <=> can_pick_gb_color_palette'
    BY <2>1, <2>2
  <2>4. current_idx'["main_menu"] = 1
    BY <2>1 DEF ListsOk, MenusOk
  <2>5. ListsOk'
    BY <2>1, <2>3, <2>4 DEF ListsOk, MenusOk
  <2> QED
    BY <2>1, <2>5 DEF MenusOk, MachineOk, ClosingOk, PaletteIsTheGames, machine, Quitting,
                      GameGoesOn
<1>3. CASE handle_game_keys(e)
  <2>1. UNCHANGED <<menus, configured, loaded, palette, ram, open, at>>
    BY <1>3 DEF handle_game_keys
  <2>2. disk' \in [Games -> Nat]
    BY <1>3 DEF handle_game_keys, save_ram_rtc, MenusOk, MachineOk
  <2> QED
    BY <2>1, <2>2 DEF MenusOk, ListsOk, MachineOk, ClosingOk, PaletteIsTheGames, menus,
                      can_pick_gb_color_palette, GameGoesOn
<1>4. CASE on_key_event(e)
  <2>1. CASE Move(e.code) /\ UNCHANGED <<configured, machine, joypad, open, at>>
    BY <1>4, <2>1, MovesAmongEntries DEF on_key_event, GameGoesOn, machine
  <2>2. CASE /\ on_item_selected(state, current_idx[state]) /\ toFirst(state)
             /\ UNCHANGED <<palette_disabled, favorites, at>>
    <3>1. CASE /\ state = "main_menu"
               /\ on_main_menu_item_selected(current_idx["main_menu"])
      BY <1>0, <2>2, <3>1, MenuSelects DEF GameGoesOn, on_main_menu_item_selected, machine
    <3>2. CASE /\ state = "select_audio_device"
               /\ on_audio_device_selected(current_idx[state])
      BY <1>0, <2>2, <3>2, DeviceSelects DEF GameGoesOn, on_audio_device_selected, machine
    <3>3. CASE /\ state = "select_gb_color_palette"
               /\ on_gb_color_palette_selected(current_idx[state])
      BY <1>0, <2>2, <3>3, PaletteSelects DEF GameGoesOn, on_gb_color_palette_selected
    <3>4. CASE /\ state = "select_rom_file"
               /\ on_rom_file_selected(current_idx[state])
      BY <1>0, <2>2, <3>4, RomSelects DEF GameGoesOn
    <3> QED
      BY <2>2, <3>1, <3>2, <3>3, <3>4 DEF on_item_selected
  <2> QED
    BY <1>4, <2>1, <2>2 DEF on_key_event
<1>5. CASE ToggleFavorite(e) \/ Ignored(e)
  <2>1. UNCHANGED menuvars
    BY <1>5 DEF ToggleFavorite, Ignored, menus, menuvars
  <2> QED
    BY <2>1, MenusStutter DEF GameGoesOn, menuvars, machine
<1> QED
  BY <1>1, <1>2, <1>3, <1>4, <1>5 DEF PollEvent

\* Whatever the player does, an event, a frame or a turn of the loop keeps the
\* menus and the game that runs together.
LEMMA NextMenus ==
    MenusOk /\ [SessionNext]_svars => MenusOk' /\ (GameGoesOn \/ Frame)
<1> SUFFICES ASSUME MenusOk, [SessionNext]_svars
             PROVE  MenusOk' /\ (GameGoesOn \/ Frame)
  OBVIOUS
<1>1. CASE UNCHANGED svars \/ Player
  <2>1. UNCHANGED menuvars
    BY <1>1 DEF Player, svars, menus, window, menuvars
  <2> QED
    BY <2>1, MenusStutter DEF GameGoesOn, menuvars, machine
<1>2. CASE PollEvent
  BY <1>2, EventKeepsMenus
<1>3. CASE Loop \/ EndTick
  <2>1. UNCHANGED <<menus, configured, machine, open>>
    BY <1>3 DEF Loop, EndTick, window
  <2>2. ClosingOk'
    BY <1>3, <2>1 DEF Loop, EndTick, hasFocus, MenusOk, ClosingOk, menus
  <2> QED
    BY <2>1, <2>2 DEF MenusOk, ListsOk, MachineOk, PaletteIsTheGames, menus, machine,
                      can_pick_gb_color_palette, GameGoesOn
<1>4. CASE Frame
  <2>1. /\ UNCHANGED <<menus, configured, loaded, palette, disk, open>>
        /\ at' = "loop" /\ ram' \in {ram, ram + 1}
    BY <1>4 DEF Frame, window
  <2>2. ram' \in Nat
    BY <2>1 DEF MenusOk, MachineOk
  <2> QED
    BY <1>4, <2>1, <2>2 DEF MenusOk, ListsOk, MachineOk, ClosingOk, PaletteIsTheGames, menus,
                       can_pick_gb_color_palette
<1>5. CASE End
  <2>1. /\ UNCHANGED <<menus, configured, loaded, palette, ram, open>>
        /\ at = "saving" /\ save_ram_rtc
    BY <1>5 DEF End, window
  <2>2. disk' \in [Games -> Nat]
    BY <2>1 DEF save_ram_rtc, MenusOk, MachineOk
  <2> QED
    BY <2>1, <2>2 DEF MenusOk, ListsOk, MachineOk, ClosingOk, PaletteIsTheGames, menus,
                      can_pick_gb_color_palette, GameGoesOn
<1> QED
  BY <1>1, <1>2, <1>3, <1>4, <1>5 DEF SessionNext, Program

LEMMA NextMenusAndPoll ==
    MenusOk /\ [PlayerNext]_mcvars => MenusOk' /\ (GameGoesOn \/ Frame)
<1> SUFFICES ASSUME MenusOk, PlayerNext PROVE MenusOk' /\ (GameGoesOn \/ Frame)
  BY NextMenus DEF mcvars
<1>1. CASE KeysStep \/ MenusStep
  BY <1>1, NextMenus DEF KeysStep, MenusStep
<1>2. CASE Poll
  <2>1. UNCHANGED menuvars
    BY <1>2 DEF Poll, menus, menuvars, window
  <2> QED
    BY <2>1, MenusStutter DEF GameGoesOn, menuvars, machine
<1> QED
  BY <1>1, <1>2 DEF PlayerNext

LEMMA AlwaysMenusOk == PlayerSpec => []MenusOk
<1>1. HistoryInit => MenusOk
  BY InitMenus DEF HistoryInit
<1> QED
  BY <1>1, NextMenusAndPoll, PTL DEF PlayerSpec

\* However the player goes through the menus, a game from a folder is shown in
\* the palette remembered for it, and a colour game is never given one.
THEOREM PalettesAreKept == PlayerSpec => []PaletteIsTheGames
<1>1. MenusOk => PaletteIsTheGames
  BY DEF MenusOk
<1> QED
  BY <1>1, AlwaysMenusOk, PTL

\* Progress is replaced only by that of a game the player picks where the list
\* shows it, and it is on disk when main() ends.
THEOREM NoProgressIsLost == PlayerSpec => ProgressKept
<1> DEFINE Kept ==
       /\ loaded' # loaded \/ ram' < ram
             => /\ state = "select_rom_file"
                /\ loaded' # loaded /\ loaded' = shown[current_idx[state]]
       /\ at' = "ended" /\ loaded # NoGame => disk'[loaded] = ram
<1>1. MenusOk /\ [PlayerNext]_mcvars => [Kept]_mcvars
  <2> SUFFICES ASSUME MenusOk, PlayerNext PROVE Kept
    OBVIOUS
  <2>1. ram \in Nat /\ disk \in [Games -> Nat] /\ loaded \in Games \cup {NoGame}
    BY DEF MenusOk, MachineOk
  <2>2. /\ loaded' # loaded \/ ram' < ram
             => /\ state = "select_rom_file"
                /\ loaded' # loaded /\ loaded' = shown[current_idx[state]]
    <3>1. CASE GameGoesOn
      BY <2>1, <3>1 DEF GameGoesOn
    <3>2. CASE Frame
      <4>1. loaded' = loaded /\ ram' \in {ram, ram + 1}
        BY <3>2 DEF Frame
      <4> QED
        BY <2>1, <4>1
    <3> QED
      BY <3>1, <3>2, NextMenusAndPoll
  <2>3. ASSUME at' = "ended", loaded # NoGame PROVE disk'[loaded] = ram
    <3>1. CASE End
      BY <2>1, <2>3, <3>1 DEF End, save_ram_rtc
    <3>2. CASE at = "ended" /\ Player
      BY <3>2 DEF Player, MenusOk, ClosingOk
    <3>3. CASE PollEvent
      <4>1. at = "polling" /\ at' \in {at, "saving"}
        BY <3>3 DEF PollEvent, CloseWindow, LeaveGame, handle_game_keys, on_key_event,
                    ToggleFavorite, Ignored
      <4> QED
        BY <2>3, <4>1
    <3> QED
      BY <2>3, <3>1, <3>2, <3>3 DEF PlayerNext, KeysStep, MenusStep, Poll, SessionNext, Program,
                                   Loop, EndTick, Frame, Player
  <2> QED
    BY <2>2, <2>3
<1>2. PlayerSpec => [][Kept]_mcvars
  <2> HIDE DEF Kept
  <2> QED
    BY <1>1, AlwaysMenusOk, PTL DEF PlayerSpec
<1> QED
  BY <1>2 DEF ProgressKept

-----------------------------------------------------------------------------
(* The keys. *)

PlayerEvents ==
    [type : {"pressed", "released"}, code : PlayerKeys]
    \cup [type : {"released"}, code : {"Escape", "S", "Q"}]
    \cup [type : {"closed"}, code : {"window"}]

Pending(key) == \E i \in 1..Len(events) : events[i].code = key

\* The inductive invariant: of a key the game has heard of, the last change is
\* waiting in the window or has reached the machine.  A game that was just loaded
\* has heard of the keys that are up.
KeysOk ==
    InKeys =>
        /\ keys \subseteq Keys
        /\ events \in Seq(PlayerEvents)
        /\ \A key \in PlayerKeys \ missed :
              Pending(key) \/ (JoypadOf[key] \in keys <=> key \in down)

LEMMA JoypadKeys ==
    /\ \A key \in PlayerKeys : key \in DOMAIN JoypadOf /\ JoypadOf[key] \in Keys
    /\ \A key, other \in PlayerKeys : JoypadOf[key] = JoypadOf[other] => key = other
    /\ {"Escape", "S", "Q", "window"} \cap DOMAIN JoypadOf = {}
<1>1. \A key, other \in DOMAIN JoypadOf : JoypadOf[key] = JoypadOf[other] => key = other
  BY DEF JoypadOf
<1>2. {"Escape", "S", "Q", "window"} \cap DOMAIN JoypadOf = {}
  BY DEF JoypadOf
<1> QED
  BY <1>1, <1>2, KeysAssumption

\* The machine hears of the keys of the player in the game, and of no others; a
\* game that is loaded begins with none.
LEMMA EventReachesKeys ==
    ASSUME MenusOk, events \in Seq(PlayerEvents), PollEvent,
           NEW e, e = Head(events)
    PROVE  /\ e \in PlayerEvents /\ events' = Tail(events) /\ events # <<>>
           /\ loaded' = loaded => selected' = selected
           /\ IF loaded' # loaded THEN keys' = {}
              ELSE IF state = "game" /\ e.code \in PlayerKeys
              THEN keys' = IF e.type = "pressed" THEN keys \cup {JoypadOf[e.code]}
                                                 ELSE keys \ {JoypadOf[e.code]}
              ELSE keys' = keys
<1>0. at = "polling" /\ open /\ events' = Tail(events) /\ events # <<>>
  BY DEF PollEvent
<1>1. e \in PlayerEvents
  BY <1>0
<1>2. /\ e.code \in PlayerKeys => e.code \in DOMAIN JoypadOf
      /\ e.code \notin PlayerKeys => e.code \notin DOMAIN JoypadOf
  BY <1>1, JoypadKeys DEF PlayerEvents
<1>3. CASE CloseWindow(e)
  <2>1. UNCHANGED <<menus, machine, joypad>> /\ IsQuit(e)
    BY <1>3 DEF CloseWindow
  <2>2. e.code \notin PlayerKeys
    BY <1>1, <1>2, <2>1, JoypadKeys DEF IsQuit, Event, PlayerEvents
  <2> QED
    BY <1>0, <1>1, <2>1, <2>2 DEF menus, machine, joypad
<1>4. CASE LeaveGame(e)
  <2>1. UNCHANGED <<roms, machine, joypad>> /\ e.code = "Escape"
    BY <1>4 DEF LeaveGame, Event
  <2> QED
    BY <1>0, <1>1, <1>2, <2>1, JoypadKeys DEF machine, joypad
<1>5. CASE handle_game_keys(e)
  <2>1. UNCHANGED <<menus, loaded>> /\ state = "game"
    BY <1>5 DEF handle_game_keys
  <2>2. CASE /\ e.code \in DOMAIN JoypadOf
             /\ IF e.type = "pressed" THEN press(JoypadOf[e.code])
                                      ELSE release_key(JoypadOf[e.code])
    BY <1>0, <1>1, <1>2, <2>1, <2>2 DEF press, release_key, release, menus
  <2>3. CASE e = Event("released", "S") /\ UNCHANGED joypad
    BY <1>0, <1>1, <1>2, <2>1, <2>3, JoypadKeys DEF Event, joypad, menus
  <2> QED
    BY <1>5, <2>2, <2>3 DEF handle_game_keys
<1>6. CASE on_key_event(e)
  <2>0. state # "game"
    BY <1>6 DEF on_key_event, InMenu, Lists
  <2>1. CASE Move(e.code) /\ UNCHANGED <<configured, machine, joypad, open, at>>
    BY <1>0, <1>1, <2>0, <2>1 DEF Move, machine, joypad
  <2>2. CASE /\ on_item_selected(state, current_idx[state]) /\ toFirst(state)
             /\ UNCHANGED <<palette_disabled, favorites, at>>
    <3>1. CASE /\ state = "main_menu"
               /\ on_main_menu_item_selected(current_idx["main_menu"])
      <4>1. UNCHANGED <<machine, joypad>>
        BY <3>1 DEF on_main_menu_item_selected
      <4> QED
        BY <1>0, <1>1, <2>0, <4>1 DEF machine, joypad
    <3>2. CASE /\ state = "select_audio_device"
               /\ on_audio_device_selected(current_idx[state])
      BY <1>0, <1>1, <2>0, <3>2 DEF on_audio_device_selected, machine, joypad
    <3>3. CASE /\ state = "select_gb_color_palette"
               /\ on_gb_color_palette_selected(current_idx[state])
      BY <1>0, <1>1, <2>0, <3>3 DEF on_gb_color_palette_selected, joypad
    <3>4. CASE /\ state = "select_rom_file"
               /\ on_rom_file_selected(current_idx[state])
      <4>1. IF loaded' # loaded THEN keys' = {} ELSE UNCHANGED joypad
        BY <1>0, <2>2, <3>4, RomSelects
      <4> QED
        BY <1>0, <1>1, <2>0, <4>1 DEF joypad
    <3> QED
      BY <2>2, <3>1, <3>2, <3>3, <3>4 DEF on_item_selected
  <2> QED
    BY <1>6, <2>1, <2>2 DEF on_key_event
<1>7. CASE ToggleFavorite(e)
  BY <1>0, <1>1, <1>7 DEF ToggleFavorite, machine, joypad
<1>8. CASE Ignored(e)
  <2>1. state = "game" => e.code \notin PlayerKeys
    BY <1>2, <1>8 DEF Ignored
  <2> QED
    BY <1>0, <1>1, <1>8, <2>1 DEF Ignored, menus, machine, joypad
<1> QED
  BY <1>3, <1>4, <1>5, <1>6, <1>7, <1>8 DEF PollEvent

\* An event that is taken, whether the game hears of it or a menu takes it.
LEMMA EventKeepsKeys ==
    ASSUME MenusOk, KeysOk, InKeys, PollEvent, Heard, scene' = scene
    PROVE  KeysOk'
<1> DEFINE e == Head(events)
           key == e.code
<1>1. /\ keys \subseteq Keys /\ events \in Seq(PlayerEvents)
      /\ \A k \in PlayerKeys \ missed :
            Pending(k) \/ (JoypadOf[k] \in keys <=> k \in down)
  BY DEF KeysOk
<1>2. /\ e \in PlayerEvents /\ events' = Tail(events) /\ events # <<>>
      /\ IF loaded' # loaded THEN keys' = {}
         ELSE IF state = "game" /\ key \in PlayerKeys
         THEN keys' = IF e.type = "pressed" THEN keys \cup {JoypadOf[key]}
                                            ELSE keys \ {JoypadOf[key]}
         ELSE keys' = keys
  BY <1>1, EventReachesKeys
<1>3. down' = down
  BY DEF PollEvent
<1>4. events' \in Seq(PlayerEvents)
  BY <1>1, <1>2
<1>5. \A k : Pending(k) /\ k # key => Pending(k)'
  <2> SUFFICES ASSUME NEW k, NEW i \in 1..Len(events), events[i].code = k, k # key
               PROVE  \E j \in 1..Len(events') : events'[j].code = k
    BY DEF Pending
  <2>1. i # 1
    BY <1>2
  <2>2. i - 1 \in 1..Len(events') /\ events'[i - 1] = events[i]
    BY <1>1, <1>2, <2>1
  <2> QED
    BY <2>2
<1>6. missed' = IF loaded' # loaded THEN down
                ELSE IF key \notin PlayerKeys THEN missed
                ELSE IF state # "game" THEN missed \cup {key}
                ELSE IF (e.type = "pressed") = (key \in down)
                THEN missed \ {key} ELSE missed \cup {key}
  BY <1>2 DEF Heard
<1>7. keys' \subseteq Keys
  BY <1>1, <1>2, JoypadKeys
<1>8. ASSUME NEW k \in PlayerKeys, k \notin missed'
      PROVE  Pending(k)' \/ (JoypadOf[k] \in keys' <=> k \in down')
  <2>0. CASE loaded' # loaded
    BY <1>2, <1>3, <1>6, <1>8, <2>0
  <2>1. CASE loaded' = loaded /\ k # key
    <3>1. k \notin missed
      BY <1>6, <1>8, <2>1
    <3>2. JoypadOf[k] \in keys' <=> JoypadOf[k] \in keys
      BY <1>2, <2>1, JoypadKeys
    <3> QED
      BY <1>1, <1>3, <1>5, <2>1, <3>1, <3>2
  <2>2. CASE loaded' = loaded /\ k = key
    <3>1. state = "game" /\ ((e.type = "pressed") = (key \in down))
      BY <1>6, <1>8, <2>2
    <3>2. JoypadOf[key] \in keys' <=> e.type = "pressed"
      BY <1>2, <2>2, <3>1
    <3> QED
      BY <1>3, <2>2, <3>1, <3>2
  <2> QED
    BY <2>0, <2>1, <2>2
<1> QED
  BY <1>1, <1>2, <1>3, <1>4, <1>7, <1>8 DEF KeysOk

\* The player, whose changes wait in the window or are missed.
LEMMA PlayerKeepsKeys ==
    ASSUME KeysOk, InKeys, Player, Heard, scene' = scene
    PROVE  KeysOk'
<1>1. /\ keys \subseteq Keys /\ events \in Seq(PlayerEvents)
      /\ \A k \in PlayerKeys \ missed :
            Pending(k) \/ (JoypadOf[k] \in keys <=> k \in down)
  BY DEF KeysOk
<1>2. UNCHANGED <<menus, machine, joypad>>
  BY DEF Player
<1>3. loaded' = loaded /\ keys' = keys
  BY <1>1, <1>2 DEF menus, machine, joypad
<1>4. \/ events' = events
      \/ \E e \in PlayerEvents : events' = Append(events, e)
  BY DEF Player, Key, Close, SwitchFocus, Put, Event, PlayerEvents
<1>5. events' \in Seq(PlayerEvents)
  BY <1>1, <1>4
<1>6. events = <<>> \/ events' # Tail(events)
  <2>1. events # <<>> => Len(Tail(events)) = Len(events) - 1 /\ Len(events) \in Nat
    BY <1>1
  <2>2. Len(events') = Len(events) \/ Len(events') = Len(events) + 1
    BY <1>1, <1>4
  <2> QED
    BY <2>1, <2>2
<1>7. missed' = IF focus THEN missed
                ELSE missed \cup {k \in PlayerKeys : (k \in down) # (k \in down')}
  BY <1>3, <1>6 DEF Heard
<1>8. \A k : Pending(k) => Pending(k)'
  <2> SUFFICES ASSUME NEW k, NEW i \in 1..Len(events), events[i].code = k
               PROVE  \E j \in 1..Len(events') : events'[j].code = k
    BY DEF Pending
  <2>1. i \in 1..Len(events') /\ events'[i] = events[i]
    BY <1>1, <1>4
  <2> QED
    BY <2>1
<1>9. \/ down' = down
      \/ \E key \in PlayerKeys :
            /\ down' = down \cup {key} \/ down' = down \ {key}
            /\ focus => \E e \in PlayerEvents : e.code = key /\ events' = Append(events, e)
  BY DEF Player, Key, Close, SwitchFocus, Put, Event, PlayerEvents
<1>10. ASSUME NEW k \in PlayerKeys, k \notin missed'
       PROVE  Pending(k)' \/ (JoypadOf[k] \in keys' <=> k \in down')
  <2>1. k \notin missed
    BY <1>7, <1>10
  <2>2. CASE k \in down <=> k \in down'
    BY <1>1, <1>3, <1>8, <2>1, <2>2
  <2>3. CASE ~(k \in down <=> k \in down')
    <3>1. focus
      BY <1>7, <1>10, <2>3
    <3>2. PICK key \in PlayerKeys :
             /\ down' = down \cup {key} \/ down' = down \ {key}
             /\ focus => \E e \in PlayerEvents :
                            e.code = key /\ events' = Append(events, e)
      BY <1>9, <2>3
    <3>3. k = key
      BY <1>1, <2>3, <3>2
    <3>4. PICK e \in PlayerEvents : e.code = k /\ events' = Append(events, e)
      BY <3>1, <3>2, <3>3
    <3>5. Len(events') \in 1..Len(events') /\ events'[Len(events')] = e
      BY <1>1, <3>4
    <3> QED
      BY <3>4, <3>5 DEF Pending
  <2> QED
    BY <2>2, <2>3
<1> QED
  BY <1>1, <1>3, <1>5, <1>10 DEF KeysOk

LEMMA NextKeysOk == MenusOk /\ KeysOk /\ [PlayerNext]_mcvars => KeysOk'
<1> SUFFICES ASSUME MenusOk, KeysOk, InKeys, [PlayerNext]_mcvars PROVE KeysOk'
  BY DEF KeysOk, InKeys, PlayerNext, mcvars
<1>1. ASSUME UNCHANGED <<scene, keys, events, down, missed>> PROVE KeysOk'
  BY <1>1 DEF KeysOk, InKeys, Pending
<1>2. CASE UNCHANGED mcvars \/ (Poll /\ UNCHANGED scene)
  <2>1. CASE UNCHANGED mcvars
    BY <1>1, <2>1 DEF mcvars, svars, menus, machine, joypad, window
  <2>2. CASE Poll /\ UNCHANGED scene
    BY <1>1, <2>2 DEF Poll, Select, Read, Deselect, ClearFlag, write, joypad, menus, machine,
                      window
  <2> QED
    BY <1>2, <2>1, <2>2
<1>3. CASE KeysStep /\ UNCHANGED scene
  <2>1. CASE Player
    BY <1>3, <2>1, PlayerKeepsKeys DEF KeysStep
  <2>2. CASE PollEvent
    BY <1>3, <2>2, EventKeepsKeys DEF KeysStep
  <2>3. CASE Loop \/ EndTick \/ Frame \/ End
    <3>1. UNCHANGED <<loaded, keys, events, focus, down>>
      BY <2>3 DEF Loop, EndTick, Frame, End, menus, machine, joypad, window
    <3>2. events = <<>> \/ events' # Tail(events)
      <4>1. events \in Seq(PlayerEvents)
        BY DEF KeysOk
      <4>2. events # <<>> => Len(Tail(events)) = Len(events) - 1 /\ Len(events) \in Nat
        BY <4>1
      <4> QED
        BY <3>1, <4>2
    <3>3. missed' = missed
      BY <1>3, <3>1, <3>2 DEF KeysStep, Heard
    <3> QED
      BY <1>1, <1>3, <3>1, <3>3
  <2> QED
    BY <1>3, <2>1, <2>2, <2>3 DEF KeysStep, SessionNext, Program
<1> QED
  BY <1>2, <1>3 DEF PlayerNext, MenusStep

LEMMA AlwaysKeysOk == PlayerSpec => []KeysOk
<1>1. HistoryInit => KeysOk
  <2> SUFFICES ASSUME HistoryInit, InKeys PROVE KeysOk
    BY DEF KeysOk
  <2>1. keys = {} /\ down = {} /\ events = <<>>
    BY DEF HistoryInit, SessionInit, Init
  <2> QED
    BY <2>1 DEF KeysOk
<1> QED
  BY <1>1, NextKeysOk, AlwaysMenusOk, PTL DEF PlayerSpec

\* Before every frame the machine holds the keys the player holds, for any games,
\* any number of keys down at once and any way through the menus, except for the
\* keys the game has not heard of: those whose last change came while a menu was
\* open or another window was in front, or that were down when it was loaded.
THEOREM KeysAreThePlayers == PlayerSpec => KeysFollowPlayer
<1> DEFINE Follow == InKeys /\ EndTick /\ state = "game" /\ events = <<>>
                        => \A key \in PlayerKeys \ missed :
                               JoypadOf[key] \in keys <=> key \in down
<1>1. KeysOk => Follow
  BY DEF KeysOk, Pending
<1>2. PlayerSpec => [][Follow]_mcvars
  <2> HIDE DEF Follow
  <2> QED
    BY <1>1, AlwaysKeysOk, PTL
<1> QED
  BY <1>2 DEF KeysFollowPlayer

-----------------------------------------------------------------------------
(* The poll. *)

\* The inductive invariant: what the poll has read lies between the keys held
\* all the time and those held at some time.
PollOk ==
    /\ step \in {<<"select", "directions">>, <<"read", "directions">>,
                 <<"select", "buttons">>, <<"read", "buttons">>, <<"done">>}
    /\ step = <<"select", "directions">> => NoPoll
    /\ step # <<"select", "directions">> => always \subseteq keys /\ keys \subseteq ever
    /\ step = <<"read", "directions">> => selected = {"directions"} /\ seen = {}
    /\ step = <<"read", "buttons">> => selected = {"buttons"}
    /\ step \in {<<"select", "buttons">>, <<"read", "buttons">>} =>
          seen \subseteq ever /\ always \cap Directions \subseteq seen
    /\ PollIsSound

\* A poll is left as it is by what is not the program, but the keys may change.
LEMMA SessionKeepsPoll ==
    ASSUME MenusOk, KeysOk, PollOk, KeysStep
    PROVE  PollOk'
<1>1. CASE EndsPoll
  BY <1>1 DEF EndsPoll, NoPoll, PollOk, PollIsSound
<1>2. CASE loaded' = loaded /\ step # <<"select", "directions">>
  <2>1. /\ UNCHANGED <<step, seen>>
        /\ always' = always \cap keys' /\ ever' = ever \cup keys'
    BY <1>2 DEF KeysStep, PollGoesOn, NoPoll
  <2>2. selected' = selected
    <3>1. CASE PollEvent
      BY <1>2, <3>1, EventReachesKeys DEF KeysStep, KeysOk
    <3>2. CASE Player \/ Loop \/ EndTick \/ Frame \/ End
      BY <3>2 DEF Player, Loop, EndTick, Frame, End, joypad
    <3> QED
      BY <3>1, <3>2 DEF KeysStep, SessionNext, Program
  <2> QED
    BY <1>2, <2>1, <2>2 DEF PollOk, PollIsSound
<1> QED
  BY <1>1, <1>2 DEF KeysStep, PollGoesOn, PollOk

LEMMA PollSteps ==
    ASSUME KeysOk, PollOk, Poll
    PROVE  PollOk'
<1>1. InKeys /\ keys \subseteq Directions \cup Buttons
  BY DEF Poll, KeysOk, Keys
<1>2. CASE Deselect \/ ClearFlag
  BY <1>2 DEF Deselect, EndsPoll, NoPoll, ClearFlag, write, poll, PollOk, PollIsSound
<1>3. ASSUME NEW row \in Rows, Select(row) PROVE PollOk'
  BY <1>3 DEF Select, write, Rows, NoPoll, PollOk, PollIsSound
<1>4. ASSUME NEW row \in Rows, Read(row) PROVE PollOk'
  <2>1. UNCHANGED <<keys, selected, always, ever>> /\ step = <<"read", row>>
        /\ seen' = seen \cup read
    BY <1>4 DEF Read, joypad
  <2>2. CASE row = "directions"
    <3>1. selected = {"directions"} /\ seen = {}
      BY <2>1, <2>2 DEF PollOk
    <3>2. read = keys \cap Directions
      BY <3>1 DEF read
    <3>3. step' = <<"select", "buttons">>
      BY <1>4, <2>2 DEF Read
    <3> QED
      BY <2>1, <3>1, <3>2, <3>3 DEF PollOk, PollIsSound
  <2>3. CASE row = "buttons"
    <3>1. selected = {"buttons"}
      BY <2>1, <2>3 DEF PollOk
    <3>2. read = keys \cap Buttons
      BY <3>1 DEF read
    <3>3. step' = <<"done">>
      BY <1>4, <2>3 DEF Read
    <3>4. seen \subseteq ever /\ always \cap Directions \subseteq seen
      BY <2>1, <2>3 DEF PollOk
    <3> QED
      BY <1>1, <2>1, <3>2, <3>3, <3>4 DEF PollOk, PollIsSound
  <2> QED
    BY <2>2, <2>3 DEF Rows
<1> QED
  BY <1>2, <1>3, <1>4 DEF Poll

LEMMA NextPollOk ==
    MenusOk /\ KeysOk /\ (InKeys => PollOk) /\ [PlayerNext]_mcvars => (InKeys => PollOk)'
<1> SUFFICES ASSUME MenusOk, KeysOk, InKeys, PollOk, [PlayerNext]_mcvars PROVE PollOk'
  BY DEF InKeys, PlayerNext, mcvars
<1>1. CASE UNCHANGED mcvars
  BY <1>1 DEF mcvars, svars, joypad, poll, NoPoll, PollOk, PollIsSound
<1> QED
  BY <1>1, SessionKeepsPoll, PollSteps DEF PlayerNext, MenusStep

\* However the player's changes fall between the two reads of a poll, the game
\* sees every key held throughout, and none that was not held at all.
THEOREM PollsAreSound == PlayerSpec => []PollIsSound
<1> DEFINE Inv == (InKeys => PollOk) /\ (~InKeys => NoPoll)
<1>1. HistoryInit => Inv
  <2>1. HistoryInit => PollOk
    BY DEF HistoryInit, SessionInit, Init, NoPoll, PollOk, PollIsSound
  <2> QED
    BY <2>1 DEF HistoryInit
<1>2. MenusOk /\ KeysOk /\ Inv /\ [PlayerNext]_mcvars => Inv'
  <2>1. ~InKeys /\ NoPoll /\ [PlayerNext]_mcvars => (~InKeys /\ NoPoll)'
    BY DEF PlayerNext, KeysStep, MenusStep, Poll, InKeys, NoPoll, poll, mcvars
  <2> QED
    BY <2>1, NextPollOk DEF InKeys, PlayerNext, mcvars
<1>3. Inv => PollIsSound
  BY DEF PollOk, PollIsSound, NoPoll
<1> QED
  <2> HIDE DEF Inv
  <2> QED
    BY <1>1, <1>2, <1>3, AlwaysMenusOk, AlwaysKeysOk, PTL DEF PlayerSpec
====
