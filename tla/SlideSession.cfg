SPECIFICATION Spec
CONSTANTS
    home = home
    screen = screen
    power = power
    wlan = wlan
    Buttons <- HomeOnly
    AllCtrl <- HomeOnly
    StartBtn <- HomeOnly
    StopBtn <- HomeOnly
    Levels <- TwoLevels
    BLevel <- DimTo
    Leds <- TwoLeds
    LedDisable = TRUE
    Speeds <- TwoSpeeds
    ClockSpeed <- FullSpeed
    MaxPresses = 4
    Sequential = TRUE
INVARIANTS
    Restored
