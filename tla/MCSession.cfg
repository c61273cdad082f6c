\* Two games, one of them for colour; a poll of two keys.
SPECIFICATION MCFairSpec
CONSTANTS
    Directions = {"up", "down", "left", "right"}
    Buttons = {"a", "b", "start", "select"}
    Games = {"mono", "colour"}
    ColourGames = {"colour"}
    Palettes = 1
    Devices = 1
    PlayerKeys = {"Enter", "Down", "Left"}
    MaxEvents = 1
    MaxProgress = 1
CHECK_DEADLOCK FALSE
INVARIANTS PollIsSound PaletteIsTheGames
PROPERTIES KeysFollowPlayer ProgressKept CloseEnds
