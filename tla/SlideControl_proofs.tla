------------------------ MODULE SlideControl_proofs ------------------------
(* Theorems of SlideControl, for every value of its constants.              *)
EXTENDS SlideControl, TLAPS

\* A thread about to write the state writes over the value its test found:
\* only the button thread leaves STOPPED and STARTED, only the sceBSMan caller
\* leaves STOPPING, only the sceVshBridge caller leaves STARTING.
TestStillHolds ==
    /\ bpc = "start" => slideState = "STOPPED"
    /\ bpc = "stop" => slideState = "STARTED"
    /\ bsPc = "unload" => slideState = "STOPPING"
    /\ impPc = "started" => slideState = "STARTING"

\* What the button thread knows between the operands of the || and in its sleep.
AwakeKnown ==
    /\ bpc = "isUp" => slideState # "STARTING"
    /\ bpc = "sleep" /\ ~ticked => slideState \notin {"STARTING", "STARTED"}

\* A make bit is in the latch, or in data before the loop has decided on it, or
\* counted as a toggle: never in two of these places.
Count(condition) == IF condition THEN 1 ELSE 0

Undecided == bpc \in {"isStopped", "start", "isStarted", "stop"}

PressesCounted ==
    /\ bpc = "start" => Matches(StartBtn)
    /\ bpc = "stop" => Matches(StopBtn)
    /\ StartBtn # {} /\ StopBtn # {} =>
         toggles + Count(latch # {}) + Count(Undecided /\ data # {}) <= presses

CycleInv == TestStillHolds /\ AwakeKnown

-----------------------------------------------------------------------------
(* The session, under the Sequential reading of the plugin's scheduling.    *)

\* The clock is open, and no stop has been asked for.
Up == opened /\ slideState \in {"STARTING", "STARTED"}

\* Which phases of the three threads go together.
SessionPhases ==
    /\ bsPc = "idle" \/ impPc = "idle"
    /\ impPc # "idle" => opened
    /\ slideState = "STOPPED" => ~opened
    /\ slideState \in {"STARTED", "STOPPING"} => opened
    /\ bsPc \in InitSteps => ~opened /\ slideState = "STARTING"
    /\ bpc \in RestoreSteps \ {"stop"} => slideState \in {"STOPPING", "STOPPED"}

DisplayDirty ==
    \/ bsPc \in {"getCpu", "getBus", "setSpeed"}
    \/ Up
    \/ bpc = "restoreBrightness"

SpeedDirty == Up \/ bpc \in RestoreSteps \ {"stop"}

\* The saved values are the user's as long as a restore may still need them,
\* and the hardware has the user's values whenever no restore is due.
SavedIsChosen ==
    /\ chosen.speed \in Nat \X Nat
    /\ BLevel # Unset /\ (bsPc = "setBrightness" \/ DisplayDirty)
         => brightness = chosen.display
    /\ BLevel = Unset \/ ~DisplayDirty => hw.display = chosen.display
    /\ bsPc \in {"getBus", "setSpeed"} \/ SpeedDirty => cpuOld = chosen.speed[1]
    /\ bsPc = "setSpeed" \/ SpeedDirty => busOld = chosen.speed[2]
    /\ ~SpeedDirty => hw.speed = chosen.speed


-----------------------------------------------------------------------------
(* Type correctness.                                                        *)

\* TypeOK is inductive: one lemma for each thread, one step for each action.
LEMMA TypeButton == TypeOK /\ ReadButtons => TypeOK'
  <1> SUFFICES ASSUME TypeOK, ReadButtons
               PROVE TypeOK'
    OBVIOUS
  <1> USE ButtonsAssumption, HardwareAssumption, BoundsAssumption
      DEF TypeOK, SlideStates, ButtonSteps, RestoreSteps, BtnGoto,
          shared, button, sony, saved, outside
  <1>1. CASE ReadLatch
    BY <1>1 DEF ReadLatch
  <1>2. CASE TestStopped
    BY <1>2 DEF TestStopped
  <1>3. CASE RequestStart
    BY <1>3 DEF RequestStart
  <1>4. CASE TestStarted
    BY <1>4 DEF TestStarted
  <1>5. CASE RequestStop
    BY <1>5 DEF RequestStop
  <1>6. CASE RestoreBrightness
    BY <1>6 DEF RestoreBrightness, Hardware
  <1>7. CASE RestoreLEDState
    BY <1>7 DEF RestoreLEDState, Hardware
  <1>8. CASE TestSavedClock
    BY <1>8 DEF TestSavedClock
  <1>9. CASE RestoreClockSpeed
    BY <1>9 DEF RestoreClockSpeed, Hardware
  <1>10. CASE TestStarting
    BY <1>10 DEF TestStarting
  <1>11. CASE TestUp
    BY <1>11 DEF TestUp
  <1>12. CASE PowerTick
    BY <1>12 DEF PowerTick
  <1>13. CASE Wake
    BY <1>13 DEF Wake
  <1> QED
    BY <1>1, <1>2, <1>3, <1>4, <1>5, <1>6, <1>7, <1>8, <1>9, <1>10, <1>11, <1>12, <1>13
    DEF ReadButtons

LEMMA TypeBs == TypeOK /\ BsPoll => TypeOK'
  <1> SUFFICES ASSUME TypeOK, BsPoll
               PROVE TypeOK'
    OBVIOUS
  <1> USE ButtonsAssumption, HardwareAssumption, BoundsAssumption
      DEF TypeOK, SlideStates, BsSteps, InitSteps, BsGoto,
          shared, button, sony, saved, outside
  <1>1. CASE BsCall
    BY <1>1 DEF BsCall
  <1>2. CASE BsTestStopping
    BY <1>2 DEF BsTestStopping
  <1>3. CASE BsUnload
    BY <1>3 DEF BsUnload
  <1>4. CASE BsTestStopped
    BY <1>4 DEF BsTestStopped
  <1>5. CASE SetLEDState
    BY <1>5 DEF SetLEDState, Hardware
  <1>6. CASE GetBrightness
    BY <1>6 DEF GetBrightness, Hardware
  <1>7. CASE SetBrightness
    BY <1>7 DEF SetBrightness, Hardware
  <1>8. CASE GetCpuSpeed
    BY <1>8 DEF GetCpuSpeed, Hardware
  <1>9. CASE GetBusSpeed
    BY <1>9 DEF GetBusSpeed, Hardware
  <1>10. CASE SetClockSpeed
    BY <1>10 DEF SetClockSpeed, Hardware
  <1> QED
    BY <1>1, <1>2, <1>3, <1>4, <1>5, <1>6, <1>7, <1>8, <1>9, <1>10 DEF BsPoll

LEMMA TypeImpose == TypeOK /\ ImposePoll => TypeOK'
  BY DEF TypeOK, SlideStates, ImpSteps, ImpGoto, ImposePoll, ImpCall,
         ImpTestStarting, ImpStarted, shared, button, sony, saved, outside

LEMMA TypeUser == TypeOK /\ User => TypeOK'
  <1> SUFFICES ASSUME TypeOK, User
               PROVE TypeOK'
    OBVIOUS
  <1> USE DEF TypeOK, shared, button, sony, saved, outside
  <1>1. ASSUME NEW b \in Buttons, Press(b)
        PROVE TypeOK'
    BY <1>1, BoundsAssumption DEF Press
  <1>2. ASSUME NEW h \in Settings, Adjust(h)
        PROVE TypeOK'
    <2>1. h \in Hardware
      BY <1>2, HardwareAssumption DEF Settings, Hardware
    <2> QED
      BY <1>2, <2>1 DEF Adjust
  <1> QED
    BY <1>1, <1>2 DEF User

\* Every variable keeps its type; in particular the saved values and the
\* hardware only ever hold levels and frequencies the hardware had.
THEOREM TypeCorrect == Spec => []TypeOK
  <1>1. Init => TypeOK
    <2> SUFFICES ASSUME Init
                 PROVE TypeOK
      OBVIOUS
    <2>1. Speeds \subseteq Int \X Int
      BY HardwareAssumption
    <2>2. chosen \in Hardware /\ hw = chosen
      BY <2>1 DEF Init, Hardware
    <2>3. toggles = 0 /\ presses = 0 /\ cpuOld = -1 /\ busOld = -1 /\ brightness = -1
      BY DEF Init, Unset
    <2>4. QED
      <3>1. slideState \in SlideStates /\ bpc \in ButtonSteps
        BY DEF Init, SlideStates, ButtonSteps
      <3>2. bsPc \in BsSteps /\ impPc \in ImpSteps
        BY DEF Init, BsSteps, ImpSteps
      <3>3. latch \subseteq Buttons /\ data \subseteq Buttons
        BY DEF Init
      <3>4. ticked \in BOOLEAN /\ opened \in BOOLEAN
        BY DEF Init
      <3>5. presses \in 0..MaxPresses
        BY <2>3, BoundsAssumption
      <3> QED
        BY <2>2, <2>3, <3>1, <3>2, <3>3, <3>4, <3>5 DEF TypeOK, Unset
  <1>2. TypeOK /\ [Next]_vars => TypeOK'
    <2>1. CASE Next
      BY <2>1, TypeButton, TypeBs, TypeImpose, TypeUser DEF Next
    <2>2. CASE UNCHANGED vars
      BY <2>2 DEF vars, TypeOK, shared, button, sony, saved, outside
    <2> QED
      BY <2>1, <2>2
  <1> QED
    BY <1>1, <1>2, PTL DEF Spec

-----------------------------------------------------------------------------
(* The slide state only goes round its cycle.                               *)

\* The threads' tests still hold when they write; each thread's case names
\* the tests the others may disturb.
LEMMA CycleInvStep == TypeOK /\ CycleInv /\ [Next]_vars => CycleInv'
  <1> SUFFICES ASSUME TypeOK, CycleInv, [Next]_vars
               PROVE CycleInv'
    OBVIOUS
  <1> USE DEF CycleInv, TestStillHolds, AwakeKnown, shared, button, sony, saved, outside
  <1>1. CASE ReadButtons
    <2>1. TestStillHolds'
      BY <1>1 DEF ReadButtons, ReadLatch, TestStopped, RequestStart, TestStarted,
                  RequestStop, RestoreBrightness, RestoreLEDState, TestSavedClock,
                  RestoreClockSpeed, TestStarting, TestUp, PowerTick, Wake, BtnGoto
    <2>2. AwakeKnown'
      BY <1>1 DEF ReadButtons, ReadLatch, TestStopped, RequestStart, TestStarted,
                  RequestStop, RestoreBrightness, RestoreLEDState, TestSavedClock,
                  RestoreClockSpeed, TestStarting, TestUp, PowerTick, Wake, BtnGoto
    <2> QED
      BY <2>1, <2>2
  <1>2. CASE BsPoll
    BY <1>2 DEF BsPoll, BsCall, BsTestStopping, BsUnload, BsTestStopped, SetLEDState,
                GetBrightness, SetBrightness, GetCpuSpeed, GetBusSpeed, SetClockSpeed, BsGoto
  <1>3. CASE ImposePoll
    BY <1>3 DEF ImposePoll, ImpCall, ImpTestStarting, ImpStarted, ImpGoto
  <1>4. CASE User
    BY <1>4 DEF User, Press, Adjust
  <1>5. CASE UNCHANGED vars
    BY <1>5 DEF vars
  <1> QED
    BY <1>1, <1>2, <1>3, <1>4, <1>5 DEF Next

LEMMA CycleInvariant == Spec => [](TypeOK /\ CycleInv)
  <1>1. Init => CycleInv
    BY DEF Init, CycleInv, TestStillHolds, AwakeKnown
  <1> QED
    BY <1>1, CycleInvStep, TypeCorrect, PTL DEF Spec

\* SlideCycle: no interleaving of the unlocked tests and writes takes the slide
\* state anywhere but to its successor in the cycle.
THEOREM CycleHolds == Spec => SlideCycle
  <1>1. TypeOK /\ CycleInv /\ [Next]_vars => [SlideStep]_slideState
    <2> SUFFICES ASSUME TypeOK, CycleInv, [Next]_vars, slideState' # slideState
                 PROVE SlideStep
      OBVIOUS
    <2> USE DEF CycleInv, TestStillHolds, SlideStep, shared, button, sony, saved, outside
    <2>1. CASE ReadButtons
      BY <2>1 DEF ReadButtons, ReadLatch, TestStopped, RequestStart, TestStarted,
                  RequestStop, RestoreBrightness, RestoreLEDState, TestSavedClock,
                  RestoreClockSpeed, TestStarting, TestUp, PowerTick, Wake, BtnGoto
    <2>2. CASE BsPoll
      BY <2>2 DEF BsPoll, BsCall, BsTestStopping, BsUnload, BsTestStopped, SetLEDState,
                  GetBrightness, SetBrightness, GetCpuSpeed, GetBusSpeed, SetClockSpeed, BsGoto
    <2>3. CASE ImposePoll
      BY <2>3 DEF ImposePoll, ImpCall, ImpTestStarting, ImpStarted, ImpGoto
    <2>4. CASE User
      BY <2>4 DEF User, Press, Adjust
    <2>5. CASE UNCHANGED vars
      BY <2>5 DEF vars
    <2> QED
      BY <2>1, <2>2, <2>3, <2>4, <2>5 DEF Next
  <1> QED
    BY <1>1, CycleInvariant, PTL DEF Spec, SlideCycle

\* NoMissedTick: a turn of the button thread's loop that skips the power tick
\* leaves a clock that is neither starting nor up.
THEOREM TickKept == Spec => []NoMissedTick
  <1>1. CycleInv => NoMissedTick
    BY DEF CycleInv, AwakeKnown, NoMissedTick
  <1> QED
    BY <1>1, CycleInvariant, PTL

-----------------------------------------------------------------------------
(* A press is answered at most once.                                        *)

LEMMA PressesCountedStep ==
    TypeOK /\ PressesCounted /\ [Next]_vars => PressesCounted'
  <1> SUFFICES ASSUME TypeOK, PressesCounted, [Next]_vars
               PROVE PressesCounted'
    OBVIOUS
  <1> USE DEF PressesCounted, TypeOK, Count, Undecided, Matches,
              shared, button, sony, saved, outside
  <1>1. CASE ReadLatch
    BY <1>1 DEF ReadLatch, BtnGoto
  <1>2. CASE TestStopped
    BY <1>2 DEF TestStopped, BtnGoto
  <1>3. CASE RequestStart
    BY <1>3 DEF RequestStart, BtnGoto
  <1>4. CASE TestStarted
    BY <1>4 DEF TestStarted, BtnGoto
  <1>5. CASE RequestStop
    BY <1>5 DEF RequestStop, BtnGoto
  <1>6. CASE RestoreBrightness \/ RestoreLEDState \/ TestSavedClock \/ RestoreClockSpeed
    BY <1>6 DEF RestoreBrightness, RestoreLEDState, TestSavedClock, RestoreClockSpeed, BtnGoto
  <1>7. CASE TestStarting \/ TestUp \/ PowerTick \/ Wake
    BY <1>7 DEF TestStarting, TestUp, PowerTick, Wake, BtnGoto
  <1>8. CASE BsPoll
    BY <1>8 DEF BsPoll, BsCall, BsTestStopping, BsUnload, BsTestStopped, SetLEDState,
                GetBrightness, SetBrightness, GetCpuSpeed, GetBusSpeed, SetClockSpeed
  <1>9. CASE ImposePoll
    BY <1>9 DEF ImposePoll, ImpCall, ImpTestStarting, ImpStarted
  <1>10. ASSUME NEW b \in Buttons, Press(b)
         PROVE PressesCounted'
    BY <1>10, BoundsAssumption DEF Press
  <1>11. ASSUME NEW h \in Settings, Adjust(h)
         PROVE PressesCounted'
    BY <1>11 DEF Adjust
  <1>12. CASE UNCHANGED vars
    BY <1>12 DEF vars
  <1> QED
    BY <1>1, <1>2, <1>3, <1>4, <1>5, <1>6, <1>7, <1>8, <1>9, <1>10, <1>11, <1>12
    DEF Next, ReadButtons, User

\* OnePressOneToggle: the button thread never decides more starts and stops
\* than buttons were pressed, so one press cannot start and stop the clock.
THEOREM PressAnsweredOnce == Spec => []OnePressOneToggle
  <1>1. Init => PressesCounted
    BY DEF Init, PressesCounted, Count, Undecided
  <1>2. TypeOK /\ PressesCounted => OnePressOneToggle
    BY DEF TypeOK, PressesCounted, Count, OnePressOneToggle
  <1> QED
    BY <1>1, <1>2, PressesCountedStep, TypeCorrect, PTL DEF Spec

-----------------------------------------------------------------------------
(* A stop gives back what the clock took (Sequential).                      *)

\* The phases of a session follow one another: the clock opens while the state
\* is STARTING, the state moves on only once it is open, and a restore ends
\* before the next start.
LEMMA PhasesStep ==
  ASSUME Sequential, TypeOK, TestStillHolds, SessionPhases, [Next]_vars
  PROVE  SessionPhases'
  <1> USE DEF TestStillHolds, SessionPhases, InitSteps, RestoreSteps,
              shared, button, sony, saved, outside
  <1>1. CASE ReadLatch
    BY <1>1 DEF ReadLatch, BtnGoto
  <1>2. CASE TestStopped
    BY <1>2 DEF TestStopped, BtnGoto
  <1>3. CASE RequestStart
    BY <1>3 DEF RequestStart, BtnGoto
  <1>4. CASE TestStarted
    BY <1>4 DEF TestStarted, BtnGoto
  <1>5. CASE RequestStop
    BY <1>5 DEF RequestStop, BtnGoto
  <1>6. CASE RestoreBrightness
    BY <1>6 DEF RestoreBrightness, BtnGoto
  <1>7. CASE RestoreLEDState
    BY <1>7 DEF RestoreLEDState, BtnGoto
  <1>8. CASE TestSavedClock
    BY <1>8 DEF TestSavedClock, BtnGoto
  <1>9. CASE RestoreClockSpeed
    BY <1>9 DEF RestoreClockSpeed, BtnGoto
  <1>10. CASE TestStarting
    BY <1>10 DEF TestStarting, BtnGoto
  <1>11. CASE TestUp
    BY <1>11 DEF TestUp, BtnGoto
  <1>12. CASE PowerTick
    BY <1>12 DEF PowerTick, BtnGoto
  <1>13. CASE Wake
    BY <1>13 DEF Wake, BtnGoto
  <1>14. CASE BsCall
    BY <1>14 DEF BsCall, BsGoto
  <1>15. CASE BsTestStopping
    BY <1>15 DEF BsTestStopping, BsGoto
  <1>16. CASE BsUnload
    BY <1>16 DEF BsUnload, BsGoto
  <1>17. CASE BsTestStopped
    BY <1>17 DEF BsTestStopped, BsGoto, TypeOK, SlideStates
  <1>18. CASE SetLEDState
    BY <1>18 DEF SetLEDState, BsGoto
  <1>19. CASE GetBrightness
    BY <1>19 DEF GetBrightness, BsGoto
  <1>20. CASE SetBrightness
    BY <1>20 DEF SetBrightness, BsGoto
  <1>21. CASE GetCpuSpeed
    BY <1>21 DEF GetCpuSpeed, BsGoto
  <1>22. CASE GetBusSpeed
    BY <1>22 DEF GetBusSpeed, BsGoto
  <1>23. CASE SetClockSpeed
    BY <1>23 DEF SetClockSpeed, BsGoto
  <1>24. CASE ImpCall
    BY <1>24 DEF ImpCall, ImpGoto
  <1>25. CASE ImpTestStarting
    BY <1>25 DEF ImpTestStarting, ImpGoto
  <1>26. CASE ImpStarted
    BY <1>26 DEF ImpStarted, ImpGoto
  <1>27. ASSUME NEW b \in Buttons, Press(b)
        PROVE SessionPhases'
    BY <1>27 DEF Press
  <1>28. ASSUME NEW h \in Settings, Adjust(h)
        PROVE SessionPhases'
    BY <1>28, HardwareAssumption DEF Adjust, Quiet, Settings
  <1>29. CASE UNCHANGED vars
    BY <1>29 DEF vars
  <1> QED
    BY <1>1, <1>2, <1>3, <1>4, <1>5, <1>6, <1>7, <1>8, <1>9, <1>10, <1>11,
       <1>12, <1>13, <1>14, <1>15, <1>16, <1>17, <1>18, <1>19, <1>20,
       <1>21, <1>22, <1>23, <1>24, <1>25, <1>26, <1>27, <1>28, <1>29
    DEF Next, ReadButtons, BsPoll, ImposePoll, User

\* The saved values stay the user's for as long as a restore needs them.
LEMMA SavedStep ==
  ASSUME Sequential, TypeOK, TestStillHolds, SessionPhases, SavedIsChosen, [Next]_vars
  PROVE  SavedIsChosen'
  <1> USE DEF TypeOK, TestStillHolds, SessionPhases, InitSteps, RestoreSteps,
              SavedIsChosen, DisplayDirty, SpeedDirty, Up, Hardware, Unset,
              shared, button, sony, saved, outside
  <1>1. CASE ReadLatch
    BY <1>1 DEF ReadLatch, BtnGoto
  <1>2. CASE TestStopped
    BY <1>2 DEF TestStopped, BtnGoto
  <1>3. CASE RequestStart
    BY <1>3 DEF RequestStart, BtnGoto
  <1>4. CASE TestStarted
    BY <1>4 DEF TestStarted, BtnGoto
  <1>5. CASE RequestStop
    BY <1>5 DEF RequestStop, BtnGoto
  <1>6. CASE RestoreBrightness
    BY <1>6 DEF RestoreBrightness, BtnGoto
  <1>7. CASE RestoreLEDState
    BY <1>7 DEF RestoreLEDState, BtnGoto
  <1>8. CASE TestSavedClock
    BY <1>8 DEF TestSavedClock, BtnGoto
  <1>9. CASE RestoreClockSpeed
    BY <1>9 DEF RestoreClockSpeed, BtnGoto
  <1>10. CASE TestStarting
    BY <1>10 DEF TestStarting, BtnGoto
  <1>11. CASE TestUp
    BY <1>11 DEF TestUp, BtnGoto
  <1>12. CASE PowerTick
    BY <1>12 DEF PowerTick, BtnGoto
  <1>13. CASE Wake
    BY <1>13 DEF Wake, BtnGoto
  <1>14. CASE BsCall
    BY <1>14 DEF BsCall, BsGoto
  <1>15. CASE BsTestStopping
    BY <1>15 DEF BsTestStopping, BsGoto
  <1>16. CASE BsUnload
    BY <1>16 DEF BsUnload, BsGoto
  <1>17. CASE BsTestStopped
    BY <1>17 DEF BsTestStopped, BsGoto
  <1>18. CASE SetLEDState
    BY <1>18 DEF SetLEDState, BsGoto
  <1>19. CASE GetBrightness
    BY <1>19 DEF GetBrightness, BsGoto
  <1>20. CASE SetBrightness
    BY <1>20 DEF SetBrightness, BsGoto
  <1>21. CASE GetCpuSpeed
    BY <1>21 DEF GetCpuSpeed, BsGoto
  <1>22. CASE GetBusSpeed
    BY <1>22 DEF GetBusSpeed, BsGoto
  <1>23. CASE SetClockSpeed
    BY <1>23 DEF SetClockSpeed, BsGoto
  <1>24. CASE ImpCall
    BY <1>24 DEF ImpCall, ImpGoto
  <1>25. CASE ImpTestStarting
    BY <1>25 DEF ImpTestStarting, ImpGoto
  <1>26. CASE ImpStarted
    BY <1>26 DEF ImpStarted, ImpGoto
  <1>27. ASSUME NEW b \in Buttons, Press(b)
        PROVE SavedIsChosen'
    BY <1>27 DEF Press
  <1>28. ASSUME NEW h \in Settings, Adjust(h)
        PROVE SavedIsChosen'
    BY <1>28, HardwareAssumption DEF Adjust, Quiet, Settings
  <1>29. CASE UNCHANGED vars
    BY <1>29 DEF vars
  <1> QED
    BY <1>1, <1>2, <1>3, <1>4, <1>5, <1>6, <1>7, <1>8, <1>9, <1>10, <1>11,
       <1>12, <1>13, <1>14, <1>15, <1>16, <1>17, <1>18, <1>19, <1>20,
       <1>21, <1>22, <1>23, <1>24, <1>25, <1>26, <1>27, <1>28, <1>29
    DEF Next, ReadButtons, BsPoll, ImposePoll, User

\* Restored: with one Sony thread that opens the clock before it polls the
\* impose parameter, every stop gives the user's display level and clock speed
\* back, whatever was pressed and adjusted in every session before.
THEOREM StopRestores == ASSUME Sequential
                        PROVE  Spec => []Restored
  <1>1. Init => SessionPhases /\ SavedIsChosen
    BY HardwareAssumption
    DEF Init, SessionPhases, SavedIsChosen, DisplayDirty, SpeedDirty, Up, InitSteps,
        RestoreSteps
  <1>2. TypeOK /\ CycleInv /\ SessionPhases /\ SavedIsChosen /\ [Next]_vars
          => (SessionPhases /\ SavedIsChosen)'
    BY PhasesStep, SavedStep DEF CycleInv
  <1>3. SessionPhases /\ SavedIsChosen => Restored
    BY DEF SessionPhases, SavedIsChosen, DisplayDirty, SpeedDirty, Up, Restored, Quiet,
           InitSteps, RestoreSteps
  <1> QED
    BY <1>1, <1>2, <1>3, CycleInvariant, PTL DEF Spec

=============================================================================
