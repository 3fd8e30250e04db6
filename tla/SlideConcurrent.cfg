SPECIFICATION FairSpec
CONSTANTS
    home = home
    screen = screen
    power = power
    wlan = wlan
    Buttons <- TwoButtons
    AllCtrl <- HomeOnly
    StartBtn <- HomeOnly
    StopBtn <- HomeOnly
    Levels <- TwoLevels
    BLevel <- Disabled
    Leds = {}
    LedDisable = FALSE
    Speeds <- TwoSpeeds
    ClockSpeed <- FullSpeed
    MaxPresses = 3
    Sequential = FALSE
INVARIANTS
    TypeOK
    NoMissedTick
    OnePressOneToggle
PROPERTIES
    SlideCycle
    RequestsComplete
