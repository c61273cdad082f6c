\* The same, for what the documentation says of the save files.
SPECIFICATION MCSpec
CONSTANTS
    a = a
    b = b
    c = c
    d = d
    Cartridges = {a, b, c, d}
    Type <- MCTypeWithController
    RomBanks <- MCRomBanks
    RamBanks <- MCRamBanks
    Battery <- MCBattery
    Bytes = {0, 2, 10, 41, 255}
    Pauses = {45296, 86399}
    RegValues <- MCRegValues
    MaxTime = 190000
PROPERTY SavedOnLeave
