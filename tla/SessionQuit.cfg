\* One game; the player reaches Quit in the menu.
SPECIFICATION MCFairSpec
CONSTANTS
    Directions = {"up", "down", "left", "right"}
    Buttons = {"a", "b", "start", "select"}
    Games = {"colour"}
    ColourGames = {"colour"}
    Palettes = 1
    Devices = 1
    PlayerKeys = {"Enter", "Down", "Left"}
    MaxEvents = 1
    MaxProgress = 1
CHECK_DEADLOCK FALSE
PROPERTY QuitEnds
