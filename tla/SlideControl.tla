---------------------------- MODULE SlideControl ----------------------------
(***************************************************************************)
(* The slide state machine of ZeroVSH Patcher (kernel/main.c).             *)
(*                                                                         *)
(* One word, slideState, is shared without a lock by three threads:        *)
(*   - the button thread (zeroCtrlReadButtons), which polls the pad every  *)
(*     10 ms, asks for the clock to start or stop, and on a stop restores  *)
(*     what the clock changed;                                             *)
(*   - the caller of the hooked sceBSMan import (zeroCtrlDummyFunc), which *)
(*     tells slide_plugin whether the slide is open, and which runs        *)
(*     InjectionEntryFuncInit when the plugin opens its clock;             *)
(*   - the caller of the hooked sceVshBridge import (zeroCtrlGetParam).    *)
(*                                                                         *)
(* Every read and every write of the shared word is a step of its own.     *)
(* The two hooks are called by Sony's slide_plugin, which is not in the    *)
(* repository: that it polls both, and that it opens the clock after a     *)
(* poll answered 0, is how the code uses it.  Sequential chooses between   *)
(* the two readings of its scheduling: one thread that opens the clock     *)
(* before it polls the impose parameter, or one thread for each hook.      *)
(***************************************************************************)
EXTENDS Integers

CONSTANTS
    Buttons,        \* the bits of uiMake
    AllCtrl,        \* ALL_CTRL, the bits the button thread looks at
    StartBtn,       \* slideStartBtn, a mask
    StopBtn,        \* slideStopBtn, a mask
    Levels,         \* brightness levels of the display
    BLevel,         \* b_level: the level under the clock, or -1
    Leds,           \* the syscon LEDs
    LedDisable,     \* TRUE iff ledDisable is "Enabled"
    Speeds,         \* pairs <<cpu, bus>> of clock frequencies
    ClockSpeed,     \* <<333, 166>>
    MaxPresses,     \* bound: how many buttons are pressed in a behaviour
    Sequential      \* TRUE iff one Sony thread calls both hooks

Unset == -1

ASSUME ButtonsAssumption ==
    /\ AllCtrl \subseteq Buttons
    /\ StartBtn \subseteq Buttons
    /\ StopBtn \subseteq Buttons

ASSUME HardwareAssumption ==
    /\ Levels \subseteq Nat
    /\ BLevel \in Levels \cup {Unset}
    /\ LedDisable \in BOOLEAN
    /\ Speeds \subseteq Nat \X Nat
    /\ ClockSpeed \in Speeds

ASSUME BoundsAssumption ==
    /\ MaxPresses \in Nat
    /\ Sequential \in BOOLEAN

VARIABLES
    slideState,     \* the shared word
    latch,          \* the make bits the pad driver holds for the next read
    bpc,            \* where the button thread is
    data,           \* data.uiMake of the button thread
    ticked,         \* this turn of its loop has called sceKernelPowerTick
    bsPc,           \* where the caller of sceBSMan is
    impPc,          \* where the caller of sceVshBridge is
    opened,         \* the plugin has opened its clock
    brightness,     \* saved by zeroCtrlSetBrightness
    cpuOld,         \* saved by zeroCtrlSetClockSpeed
    busOld,
    hw,             \* the display level, the LEDs and the clock speed
    chosen,         \* what the user and the firmware set them to outside the clock
    presses,        \* buttons pressed so far
    toggles         \* starts and stops the button thread has decided

shared   == <<slideState>>
button   == <<bpc, data, ticked>>
sony     == <<bsPc, impPc, opened>>
saved    == <<brightness, cpuOld, busOld>>
outside  == <<latch, chosen, presses>>
vars     == <<shared, button, sony, saved, outside, hw, toggles>>

SlideStates == {"STARTING", "STARTED", "STOPPING", "STOPPED"}

RestoreSteps == {"stop", "restoreBrightness", "restoreLeds", "restoreClock", "restoreSpeed"}

InitSteps == {"ledOff", "getBrightness", "setBrightness", "getCpu", "getBus", "setSpeed"}

ButtonSteps == {"latch", "isStopped", "start", "isStarted", "isStarting", "isUp", "tick", "sleep"}
               \cup RestoreSteps

BsSteps == {"idle", "isStopping", "unload", "isStopped"} \cup InitSteps

ImpSteps == {"idle", "isStarting", "started"}

Hardware == [display : Levels \cup {Unset}, leds : [Leds -> BOOLEAN], speed : Int \X Int]

TypeOK ==
    /\ slideState \in SlideStates
    /\ latch \subseteq Buttons
    /\ bpc \in ButtonSteps
    /\ data \subseteq Buttons
    /\ ticked \in BOOLEAN
    /\ bsPc \in BsSteps
    /\ impPc \in ImpSteps
    /\ opened \in BOOLEAN
    /\ brightness \in Levels \cup {Unset}
    /\ cpuOld \in Int
    /\ busOld \in Int
    /\ hw \in Hardware
    /\ chosen \in Hardware
    /\ presses \in 0..MaxPresses
    /\ toggles \in Nat

Init ==
    /\ slideState = "STOPPED"
    /\ latch = {}
    /\ bpc = "latch" /\ data = {} /\ ticked = FALSE
    /\ bsPc = "idle" /\ impPc = "idle" /\ opened = FALSE
    /\ brightness = Unset /\ cpuOld = Unset /\ busOld = Unset
    /\ chosen \in [display : Levels, leds : [Leds -> BOOLEAN], speed : Speeds]
    /\ hw = chosen
    /\ presses = 0
    /\ toggles = 0

-----------------------------------------------------------------------------
(* The button thread: zeroCtrlReadButtons.                                  *)

BtnGoto(from, to) == bpc = from /\ bpc' = to

\* (data.uiMake & ALL_CTRL) == mask
Matches(mask) == data \cap AllCtrl = mask

\* Mutant: the latch is peeked at, and keeps its bits.
ReadLatchPeeks ==
    /\ BtnGoto("latch", "isStopped")
    /\ data' = latch
    /\ ticked' = FALSE
    /\ UNCHANGED <<shared, latch, sony, saved, hw, chosen, presses, toggles>>

\* sceCtrlReadLatch returns the bits made since the last read, and clears them.
ReadLatch ==
    /\ BtnGoto("latch", "isStopped")
    /\ data' = latch
    /\ latch' = {}
    /\ ticked' = FALSE
    /\ UNCHANGED <<shared, sony, saved, hw, chosen, presses, toggles>>

TestStopped ==
    /\ \/ /\ slideState = "STOPPED" /\ Matches(StartBtn)
          /\ BtnGoto("isStopped", "start")
       \/ /\ slideState = "STOPPED" /\ ~Matches(StartBtn)
          /\ BtnGoto("isStopped", "isStarting")
       \/ /\ slideState # "STOPPED"
          /\ BtnGoto("isStopped", "isStarted")
    /\ UNCHANGED <<shared, data, ticked, sony, saved, outside, hw, toggles>>

RequestStart ==
    /\ BtnGoto("start", "isStarting")
    /\ slideState' = "STARTING"
    /\ toggles' = toggles + 1
    /\ UNCHANGED <<data, ticked, sony, saved, outside, hw>>

TestStarted ==
    /\ \/ /\ slideState = "STARTED" /\ Matches(StopBtn)
          /\ BtnGoto("isStarted", "stop")
       \/ /\ slideState # "STARTED" \/ ~Matches(StopBtn)
          /\ BtnGoto("isStarted", "isStarting")
    /\ UNCHANGED <<shared, data, ticked, sony, saved, outside, hw, toggles>>

RequestStop ==
    /\ BtnGoto("stop", "restoreBrightness")
    /\ slideState' = "STOPPING"
    /\ toggles' = toggles + 1
    /\ UNCHANGED <<data, ticked, sony, saved, outside, hw>>

RestoreBrightness ==
    /\ BtnGoto("restoreBrightness", "restoreLeds")
    /\ hw' = IF BLevel # Unset THEN [hw EXCEPT !.display = brightness] ELSE hw
    /\ UNCHANGED <<shared, data, ticked, sony, saved, outside, toggles>>

RestoreLEDState ==
    /\ BtnGoto("restoreLeds", "restoreClock")
    /\ hw' = IF LedDisable THEN [hw EXCEPT !.leds = [l \in Leds |-> TRUE]] ELSE hw
    /\ UNCHANGED <<shared, data, ticked, sony, saved, outside, toggles>>

\* The test of the saved frequencies; the delay of one second lies between
\* this step and RestoreClockSpeed.
TestSavedClock ==
    /\ \/ /\ cpuOld # Unset /\ busOld # Unset
          /\ BtnGoto("restoreClock", "restoreSpeed")
       \/ /\ cpuOld = Unset \/ busOld = Unset
          /\ BtnGoto("restoreClock", "isStarting")
    /\ UNCHANGED <<shared, data, ticked, sony, saved, outside, hw, toggles>>

\* Mutant: the bus gets the frequency of the CPU.
RestoreClockSpeedTwice ==
    /\ BtnGoto("restoreSpeed", "isStarting")
    /\ hw' = [hw EXCEPT !.speed = <<cpuOld, cpuOld>>]
    /\ UNCHANGED <<shared, data, ticked, sony, saved, outside, toggles>>

RestoreClockSpeed ==
    /\ BtnGoto("restoreSpeed", "isStarting")
    /\ hw' = [hw EXCEPT !.speed = <<cpuOld, busOld>>]
    /\ UNCHANGED <<shared, data, ticked, sony, saved, outside, toggles>>

\* The first and the second operand of the || that guards the power tick.
TestStarting ==
    /\ \/ slideState = "STARTING" /\ BtnGoto("isStarting", "tick")
       \/ slideState # "STARTING" /\ BtnGoto("isStarting", "isUp")
    /\ UNCHANGED <<shared, data, ticked, sony, saved, outside, hw, toggles>>

\* Mutant: the second operand tests the same state as the first.
TestUpForStarting ==
    /\ \/ slideState = "STARTING" /\ BtnGoto("isUp", "tick")
       \/ slideState # "STARTING" /\ BtnGoto("isUp", "sleep")
    /\ UNCHANGED <<shared, data, ticked, sony, saved, outside, hw, toggles>>

TestUp ==
    /\ \/ slideState = "STARTED" /\ BtnGoto("isUp", "tick")
       \/ slideState # "STARTED" /\ BtnGoto("isUp", "sleep")
    /\ UNCHANGED <<shared, data, ticked, sony, saved, outside, hw, toggles>>

PowerTick ==
    /\ BtnGoto("tick", "sleep")
    /\ ticked' = TRUE
    /\ UNCHANGED <<shared, data, sony, saved, outside, hw, toggles>>

Wake ==
    /\ BtnGoto("sleep", "latch")
    /\ UNCHANGED <<shared, data, ticked, sony, saved, outside, hw, toggles>>

ReadButtons ==
    \/ ReadLatch \/ TestStopped \/ RequestStart \/ TestStarted \/ RequestStop
    \/ RestoreBrightness \/ RestoreLEDState \/ TestSavedClock \/ RestoreClockSpeed
    \/ TestStarting \/ TestUp \/ PowerTick \/ Wake

-----------------------------------------------------------------------------
(* slide_plugin's poll of sceBSMan: zeroCtrlDummyFunc, and the plugin's     *)
(* initialisation, which runs InjectionEntryFuncInit (user/main.c).         *)

BsGoto(from, to) == bsPc = from /\ bsPc' = to

BsCall ==
    /\ Sequential => impPc = "idle"
    /\ BsGoto("idle", "isStopping")
    /\ UNCHANGED <<shared, button, impPc, opened, saved, outside, hw, toggles>>

\* Mutant: a stop is answered like any other state.
BsIgnoresStopping ==
    /\ BsGoto("isStopping", "isStopped")
    /\ UNCHANGED <<shared, button, impPc, opened, saved, outside, hw, toggles>>

BsTestStopping ==
    /\ \/ slideState = "STOPPING" /\ BsGoto("isStopping", "unload")
       \/ slideState # "STOPPING" /\ BsGoto("isStopping", "isStopped")
    /\ UNCHANGED <<shared, button, impPc, opened, saved, outside, hw, toggles>>

\* Mutant: the state ends in ZERO_SLIDE_UNLOADED.
BsUnloads ==
    /\ BsGoto("unload", "idle")
    /\ slideState' = "UNLOADED"
    /\ opened' = FALSE
    /\ UNCHANGED <<button, impPc, saved, outside, hw, toggles>>

\* STOPPING becomes STOPPED, and the answer -1 closes the clock.
BsUnload ==
    /\ BsGoto("unload", "idle")
    /\ slideState' = "STOPPED"
    /\ opened' = FALSE
    /\ UNCHANGED <<button, impPc, saved, outside, hw, toggles>>

\* The answer is -1 in STOPPED and 0 otherwise; an answer of 0 makes a plugin
\* whose clock is closed open it.
BsTestStopped ==
    /\ \/ /\ slideState = "STOPPED"
          /\ BsGoto("isStopped", "idle")
          /\ opened' = FALSE
       \/ /\ slideState # "STOPPED" /\ opened
          /\ BsGoto("isStopped", "idle")
          /\ UNCHANGED opened
       \/ /\ slideState # "STOPPED" /\ ~opened
          /\ BsGoto("isStopped", "ledOff")
          /\ UNCHANGED opened
    /\ UNCHANGED <<shared, button, impPc, saved, outside, hw, toggles>>

SetLEDState ==
    /\ BsGoto("ledOff", "getBrightness")
    /\ hw' = IF LedDisable THEN [hw EXCEPT !.leds = [l \in Leds |-> FALSE]] ELSE hw
    /\ UNCHANGED <<shared, button, impPc, opened, saved, outside, toggles>>

GetBrightness ==
    /\ brightness' = IF BLevel # Unset THEN hw.display ELSE brightness
    /\ BsGoto("getBrightness", "setBrightness")
    /\ UNCHANGED <<shared, button, impPc, opened, cpuOld, busOld, outside, hw, toggles>>

SetBrightness ==
    /\ BsGoto("setBrightness", "getCpu")
    /\ hw' = IF BLevel # Unset THEN [hw EXCEPT !.display = BLevel] ELSE hw
    /\ UNCHANGED <<shared, button, impPc, opened, saved, outside, toggles>>

GetCpuSpeed ==
    /\ BsGoto("getCpu", "getBus")
    /\ cpuOld' = hw.speed[1]
    /\ UNCHANGED <<shared, button, impPc, opened, brightness, busOld, outside, hw, toggles>>

GetBusSpeed ==
    /\ BsGoto("getBus", "setSpeed")
    /\ busOld' = hw.speed[2]
    /\ UNCHANGED <<shared, button, impPc, opened, brightness, cpuOld, outside, hw, toggles>>

\* sctrlHENSetSpeed(333, 166); then origFuncInit, and the clock is open.
SetClockSpeed ==
    /\ BsGoto("setSpeed", "idle")
    /\ hw' = [hw EXCEPT !.speed = ClockSpeed]
    /\ opened' = TRUE
    /\ UNCHANGED <<shared, button, impPc, saved, outside, toggles>>

BsPoll ==
    \/ BsCall \/ BsTestStopping \/ BsUnload \/ BsTestStopped
    \/ SetLEDState \/ GetBrightness \/ SetBrightness
    \/ GetCpuSpeed \/ GetBusSpeed \/ SetClockSpeed

-----------------------------------------------------------------------------
(* slide_plugin's poll of impose parameter 0x8000000D: zeroCtrlGetParam.    *)
(* Other parameters, and this one in STARTED and STOPPING, are passed to    *)
(* vshImposeGetParam and change nothing here.                               *)

ImpGoto(from, to) == impPc = from /\ impPc' = to

ImpCall ==
    /\ Sequential => bsPc = "idle" /\ opened
    /\ ImpGoto("idle", "isStarting")
    /\ UNCHANGED <<shared, button, bsPc, opened, saved, outside, hw, toggles>>

\* Mutant: every state but STOPPED becomes STARTED.
ImpTestRunning ==
    /\ \/ slideState # "STOPPED" /\ ImpGoto("isStarting", "started")
       \/ slideState = "STOPPED" /\ ImpGoto("isStarting", "idle")
    /\ UNCHANGED <<shared, button, bsPc, opened, saved, outside, hw, toggles>>

\* Mutant: STARTED is confirmed, STARTING is not.
ImpTestStarted ==
    /\ \/ slideState = "STARTED" /\ ImpGoto("isStarting", "started")
       \/ slideState # "STARTED" /\ ImpGoto("isStarting", "idle")
    /\ UNCHANGED <<shared, button, bsPc, opened, saved, outside, hw, toggles>>

ImpTestStarting ==
    /\ \/ slideState = "STARTING" /\ ImpGoto("isStarting", "started")
       \/ slideState # "STARTING" /\ ImpGoto("isStarting", "idle")
    /\ UNCHANGED <<shared, button, bsPc, opened, saved, outside, hw, toggles>>

ImpStarted ==
    /\ ImpGoto("started", "idle")
    /\ slideState' = "STARTED"
    /\ UNCHANGED <<button, bsPc, opened, saved, outside, hw, toggles>>

ImposePoll == ImpCall \/ ImpTestStarting \/ ImpStarted

-----------------------------------------------------------------------------
(* The user.                                                                *)

Press(b) ==
    /\ presses < MaxPresses
    /\ presses' = presses + 1
    /\ latch' = latch \cup {b}
    /\ UNCHANGED <<shared, button, sony, saved, chosen, hw, toggles>>

\* The clock is closed and nobody is about to open it or to restore after it.
Quiet ==
    /\ slideState = "STOPPED"
    /\ bpc \notin RestoreSteps
    /\ bsPc \notin InitSteps

\* The user or the firmware changes the level, the LEDs or the speed.
Adjust(h) ==
    /\ Quiet
    /\ hw' = h
    /\ chosen' = h
    /\ UNCHANGED <<shared, button, sony, saved, latch, presses, toggles>>

Settings == [display : Levels, leds : [Leds -> BOOLEAN], speed : Speeds]

User == (\E b \in Buttons : Press(b)) \/ (\E h \in Settings : Adjust(h))

Next == ReadButtons \/ BsPoll \/ ImposePoll \/ User

Spec == Init /\ [][Next]_vars

\* Each of the three threads polls in an endless loop and never blocks on
\* another: a step it can take stays possible until it takes it.
FairSpec ==
    /\ Spec
    /\ WF_vars(ReadButtons)
    /\ WF_vars(BsPoll)
    /\ WF_vars(ImposePoll)

-----------------------------------------------------------------------------
(* Properties.                                                              *)

SlideStep ==
    \/ slideState = "STOPPED"  /\ slideState' = "STARTING"
    \/ slideState = "STARTING" /\ slideState' = "STARTED"
    \/ slideState = "STARTED"  /\ slideState' = "STOPPING"
    \/ slideState = "STOPPING" /\ slideState' = "STOPPED"

\* The unlocked test-then-write sequences of the three threads never undo each
\* other: the state only goes round STOPPED, STARTING, STARTED, STOPPING, so a
\* thread that writes after its test writes over the value it tested
\* (main.c:1040, 1062, 1719, 1725).
SlideCycle == [][SlideStep]_slideState

\* While the clock is starting or up, no turn of the button thread's loop goes
\* to sleep without keeping the console awake, although the state may move
\* between the two reads of the condition that guards the tick
\* (main.c:1744-1746).
NoMissedTick ==
    bpc = "sleep" /\ ~ticked => slideState \notin {"STARTING", "STARTED"}

\* A press is answered at most once: with one button configured for both, the
\* press that starts the clock cannot also stop it, whatever the other threads
\* do between the loop's reads of the state (main.c:1717-1725).
OnePressOneToggle ==
    StartBtn # {} /\ StopBtn # {} => toggles <= presses

\* Once a stop has been carried out, the display level and the clock speed are
\* what they were before the clock opened, over every number of sessions
\* (main.c:1730-1740, 1686-1704).
Restored ==
    Quiet => hw.display = chosen.display /\ hw.speed = chosen.speed

\* A start is completed and a stop is completed (main.c:1062-1065, 1040-1042).
RequestsComplete ==
    /\ slideState = "STARTING" ~> slideState = "STARTED"
    /\ slideState = "STOPPING" ~> slideState = "STOPPED"
=============================================================================
