--------------------------- MODULE MCSlideControl ---------------------------
(* Small instances of SlideControl for TLC.                                 *)
EXTENDS SlideControl

CONSTANTS home, screen, power, wlan

HomeOnly     == {home}
TwoButtons   == {home, screen}
TwoLevels    == {0, 2}
DimTo        == 0
Disabled     == -1
TwoLeds      == {power, wlan}
FullSpeed    == <<333, 166>>
TwoSpeeds    == {<<222, 111>>, <<333, 166>>}
=============================================================================
