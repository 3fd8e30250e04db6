-------------------------- MODULE Redirect_proofs --------------------------
(* Theorems of Redirect, for every value of its constants.                  *)
EXTENDS Redirect, TLAPS

\* A call that is past its test of ms_drv is redirected for good: the hooks and
\* ms_drv stay, and its path has been found eligible.
CallKnows(t) ==
    /\ pc[t] \in {"enter", "alloc", "head", "check", "swap", "ms"} => hooked
    /\ pc[t] \in {"alloc", "head", "check", "swap", "ms"} =>
         ms_drv = "ms" /\ file[t] \in ValidType
    /\ pc[t] \in {"swap", "ms"} =>
         file[t] \in Named /\ ~(barred[t] /\ Base[file[t]] = Font)

\* The driver argument and the result, step by step.
DriverKnown(t) ==
    /\ pc[t] = "ms" => drv[t] = "ms"
    /\ pc[t] \in {"dispatch", "enter", "alloc", "head", "headFree", "check", "abort",
                  "flash", "swap", "fallback"} => drv[t] = "flash" /\ result[t] # "card"
    /\ pc[t] = "ms" => result[t] # "card"
    /\ pc[t] \in {"free", "return"} =>
         drv[t] = IF result[t] = "card" THEN "ms" ELSE "flash"

BlacklistKnown(t) ==
    /\ barred[t] => g_blacklisted
    /\ barred[t] /\ Base[file[t]] = Font => result[t] # "card"

CallInv == \A t \in Threads : CallKnows(t) /\ DriverKnown(t) /\ BlacklistKnown(t)

-----------------------------------------------------------------------------
(* Type correctness.                                                        *)

LEMMA TypeStep ==
  ASSUME TypeOK, [Next]_vars
  PROVE  TypeOK'
  <1> USE DEF TypeOK, FileSteps, ConfigSteps, Reasons, Goto, LeftBecause, shared, call
  <1>1. ASSUME NEW t \in Threads, NEW f \in Files, Begin(t, f)
        PROVE TypeOK'
    BY <1>1 DEF Begin
  <1>2. ASSUME NEW t \in Threads, Dispatch(t)
        PROVE TypeOK'
    BY <1>2 DEF Dispatch
  <1>3. ASSUME NEW t \in Threads, Enter(t)
        PROVE TypeOK'
    BY <1>3 DEF Enter
  <1>4. ASSUME NEW t \in Threads, Alloc(t)
        PROVE TypeOK'
    BY <1>4 DEF Alloc, Take
  <1>5. ASSUME NEW t \in Threads, Head(t)
        PROVE TypeOK'
    BY <1>5 DEF Head
  <1>6. ASSUME NEW t \in Threads, Check(t)
        PROVE TypeOK'
    BY <1>6 DEF Check, Refused
  <1>7. ASSUME NEW t \in Threads, GiveUp(t)
        PROVE TypeOK'
    BY <1>7 DEF GiveUp, Release
  <1>8. ASSUME NEW t \in Threads, SwapDriver(t)
        PROVE TypeOK'
    BY <1>8 DEF SwapDriver
  <1>9. ASSUME NEW t \in Threads, CallCard(t)
        PROVE TypeOK'
    BY <1>9 DEF CallCard
  <1>10. ASSUME NEW t \in Threads, CallFlash(t)
        PROVE TypeOK'
    BY <1>10 DEF CallFlash
  <1>11. ASSUME NEW t \in Threads, Free(t)
        PROVE TypeOK'
    BY <1>11 DEF Free, Release
  <1>12. ASSUME NEW t \in Threads, Return(t)
        PROVE TypeOK'
    BY <1>12 DEF Return
  <1>13. ASSUME NEW t \in Threads, ConfigBegin(t)
        PROVE TypeOK'
    BY <1>13 DEF ConfigBegin
  <1>14. ASSUME NEW t \in Threads, ConfigAlloc(t)
        PROVE TypeOK'
    BY <1>14 DEF ConfigAlloc, Take
  <1>15. ASSUME NEW t \in Threads, ConfigHead(t)
        PROVE TypeOK'
    BY <1>15 DEF ConfigHead
  <1>16. ASSUME NEW t \in Threads, ConfigRead(t)
        PROVE TypeOK'
    BY <1>16 DEF ConfigRead
  <1>17. ASSUME NEW t \in Threads, ConfigFree(t)
        PROVE TypeOK'
    BY <1>17 DEF ConfigFree, Release
  <1>18. CASE HookDriver
    BY <1>18 DEF HookDriver
  <1>19. CASE MsOpen
    BY <1>19 DEF MsOpen
  <1>20. CASE ProbeBlacklisted
    BY <1>20 DEF ProbeBlacklisted
  <1>21. ASSUME NEW names \in SUBSET Names, ChangeCard(names)
        PROVE TypeOK'
    BY <1>21 DEF ChangeCard
  <1>22. CASE UNCHANGED vars
    BY <1>22 DEF vars
  <1> QED
    BY <1>1, <1>2, <1>3, <1>4, <1>5, <1>6, <1>7, <1>8, <1>9, <1>10, <1>11,
       <1>12, <1>13, <1>14, <1>15, <1>16, <1>17, <1>18, <1>19, <1>20,
       <1>21, <1>22
    DEF Next, FileCall, ConfigCall

\* Every variable keeps its type.
THEOREM TypeCorrect == Spec => []TypeOK
  <1>1. Init => TypeOK
    <2> SUFFICES ASSUME Init
                 PROVE TypeOK
      OBVIOUS
    <2> USE DEF Init
    <2>1. /\ hooked \in BOOLEAN /\ ms_drv \in {"null", "ms"} /\ g_blacklisted \in BOOLEAN
          /\ card \subseteq Names /\ blocks \subseteq Uids
      OBVIOUS
    <2>2. pc \in [Threads -> FileSteps \cup ConfigSteps \cup {"idle"}]
      OBVIOUS
    <2>3. file \in [Threads -> Files] /\ path_id \in [Threads -> Uids \cup {NoUid}]
      OBVIOUS
    <2>4. drv \in [Threads -> {"flash", "null", "ms"}]
      OBVIOUS
    <2>5. result \in [Threads -> {"none", "flash", "card"}]
      OBVIOUS
    <2>6. why \in [Threads -> Reasons]
      BY DEF Reasons
    <2>7. barred \in [Threads -> BOOLEAN]
      OBVIOUS
    <2> QED
      BY <2>1, <2>2, <2>3, <2>4, <2>5, <2>6, <2>7 DEF TypeOK
  <1> QED
    BY <1>1, TypeStep, PTL DEF Spec

-----------------------------------------------------------------------------
(* What each call knows.                                                    *)

LEMMA CallInvStep ==
  ASSUME TypeOK, CallInv, [Next]_vars
  PROVE  CallInv'
  <1> USE DEF TypeOK, CallInv, CallKnows, DriverKnown, BlacklistKnown,
              Goto, LeftBecause, shared, call
  <1>1. ASSUME NEW t \in Threads, NEW f \in Files, Begin(t, f)
        PROVE CallInv'
    BY <1>1 DEF Begin
  <1>2. ASSUME NEW t \in Threads, Dispatch(t)
        PROVE CallInv'
    BY <1>2 DEF Dispatch
  <1>3. ASSUME NEW t \in Threads, Enter(t)
        PROVE CallInv'
    BY <1>3 DEF Enter
  <1>4. ASSUME NEW t \in Threads, Alloc(t)
        PROVE CallInv'
    BY <1>4 DEF Alloc, Take
  <1>5. ASSUME NEW t \in Threads, Head(t)
        PROVE CallInv'
    BY <1>5 DEF Head
  <1>6. ASSUME NEW t \in Threads, Check(t)
        PROVE CallInv'
    BY <1>6 DEF Check, Refused
  <1>7. ASSUME NEW t \in Threads, GiveUp(t)
        PROVE CallInv'
    BY <1>7 DEF GiveUp, Release
  <1>8. ASSUME NEW t \in Threads, SwapDriver(t)
        PROVE CallInv'
    BY <1>8 DEF SwapDriver
  <1>9. ASSUME NEW t \in Threads, CallCard(t)
        PROVE CallInv'
    BY <1>9 DEF CallCard
  <1>10. ASSUME NEW t \in Threads, CallFlash(t)
        PROVE CallInv'
    BY <1>10 DEF CallFlash
  <1>11. ASSUME NEW t \in Threads, Free(t)
        PROVE CallInv'
    BY <1>11 DEF Free, Release
  <1>12. ASSUME NEW t \in Threads, Return(t)
        PROVE CallInv'
    BY <1>12 DEF Return
  <1>13. ASSUME NEW t \in Threads, ConfigBegin(t)
        PROVE CallInv'
    BY <1>13 DEF ConfigBegin
  <1>14. ASSUME NEW t \in Threads, ConfigAlloc(t)
        PROVE CallInv'
    BY <1>14 DEF ConfigAlloc, Take
  <1>15. ASSUME NEW t \in Threads, ConfigHead(t)
        PROVE CallInv'
    BY <1>15 DEF ConfigHead
  <1>16. ASSUME NEW t \in Threads, ConfigRead(t)
        PROVE CallInv'
    BY <1>16 DEF ConfigRead
  <1>17. ASSUME NEW t \in Threads, ConfigFree(t)
        PROVE CallInv'
    BY <1>17 DEF ConfigFree, Release
  <1>18. CASE HookDriver
    BY <1>18 DEF HookDriver
  <1>19. CASE MsOpen
    BY <1>19 DEF MsOpen
  <1>20. CASE ProbeBlacklisted
    BY <1>20 DEF ProbeBlacklisted
  <1>21. ASSUME NEW names \in SUBSET Names, ChangeCard(names)
        PROVE CallInv'
    BY <1>21 DEF ChangeCard
  <1>22. CASE UNCHANGED vars
    BY <1>22 DEF vars
  <1> QED
    BY <1>1, <1>2, <1>3, <1>4, <1>5, <1>6, <1>7, <1>8, <1>9, <1>10, <1>11,
       <1>12, <1>13, <1>14, <1>15, <1>16, <1>17, <1>18, <1>19, <1>20,
       <1>21, <1>22
    DEF Next, FileCall, ConfigCall

LEMMA CallInvariant == Spec => [](TypeOK /\ CallInv)
  <1>1. Init => CallInv
    BY DEF Init, CallInv, CallKnows, DriverKnown, BlacklistKnown
  <1> QED
    BY <1>1, CallInvStep, TypeCorrect, PTL DEF Spec

\* DriverMatchesResult: a call hands back the driver that served it.
THEOREM DriverReturned == Spec => []DriverMatchesResult
  <1>1. CallInv => DriverMatchesResult
    BY DEF CallInv, DriverKnown, DriverMatchesResult
  <1> QED
    BY <1>1, CallInvariant, PTL

\* BlacklistHonoured: a call begun under the blacklist never gets the card's font.
THEOREM BlacklistKept == Spec => []BlacklistHonoured
  <1>1. CallInv => BlacklistHonoured
    BY DEF CallInv, BlacklistKnown, BlacklistHonoured
  <1> QED
    BY <1>1, CallInvariant, PTL

-----------------------------------------------------------------------------
(* The path buffers.                                                        *)

LEMMA BuffersStep ==
  ASSUME TypeOK, BuffersOwned, [Next]_vars
  PROVE  BuffersOwned'
  <1> USE UidsAssumption
      DEF TypeOK, BuffersOwned, Holding, Goto, LeftBecause, shared, call
  <1>1. ASSUME NEW t \in Threads, NEW f \in Files, Begin(t, f)
        PROVE BuffersOwned'
    BY <1>1 DEF Begin
  <1>2. ASSUME NEW t \in Threads, Dispatch(t)
        PROVE BuffersOwned'
    BY <1>2 DEF Dispatch
  <1>3. ASSUME NEW t \in Threads, Enter(t)
        PROVE BuffersOwned'
    BY <1>3 DEF Enter
  <1>4. ASSUME NEW t \in Threads, Alloc(t)
        PROVE BuffersOwned'
    BY <1>4 DEF Alloc, Take
  <1>5. ASSUME NEW t \in Threads, Head(t)
        PROVE BuffersOwned'
    BY <1>5 DEF Head
  <1>6. ASSUME NEW t \in Threads, Check(t)
        PROVE BuffersOwned'
    BY <1>6 DEF Check, Refused
  <1>7. ASSUME NEW t \in Threads, GiveUp(t)
        PROVE BuffersOwned'
    BY <1>7 DEF GiveUp, Release
  <1>8. ASSUME NEW t \in Threads, SwapDriver(t)
        PROVE BuffersOwned'
    BY <1>8 DEF SwapDriver
  <1>9. ASSUME NEW t \in Threads, CallCard(t)
        PROVE BuffersOwned'
    BY <1>9 DEF CallCard
  <1>10. ASSUME NEW t \in Threads, CallFlash(t)
        PROVE BuffersOwned'
    BY <1>10 DEF CallFlash
  <1>11. ASSUME NEW t \in Threads, Free(t)
        PROVE BuffersOwned'
    BY <1>11 DEF Free, Release
  <1>12. ASSUME NEW t \in Threads, Return(t)
        PROVE BuffersOwned'
    BY <1>12 DEF Return
  <1>13. ASSUME NEW t \in Threads, ConfigBegin(t)
        PROVE BuffersOwned'
    BY <1>13 DEF ConfigBegin
  <1>14. ASSUME NEW t \in Threads, ConfigAlloc(t)
        PROVE BuffersOwned'
    BY <1>14 DEF ConfigAlloc, Take
  <1>15. ASSUME NEW t \in Threads, ConfigHead(t)
        PROVE BuffersOwned'
    BY <1>15 DEF ConfigHead
  <1>16. ASSUME NEW t \in Threads, ConfigRead(t)
        PROVE BuffersOwned'
    BY <1>16 DEF ConfigRead
  <1>17. ASSUME NEW t \in Threads, ConfigFree(t)
        PROVE BuffersOwned'
    BY <1>17 DEF ConfigFree, Release
  <1>18. CASE HookDriver
    BY <1>18 DEF HookDriver
  <1>19. CASE MsOpen
    BY <1>19 DEF MsOpen
  <1>20. CASE ProbeBlacklisted
    BY <1>20 DEF ProbeBlacklisted
  <1>21. ASSUME NEW names \in SUBSET Names, ChangeCard(names)
        PROVE BuffersOwned'
    BY <1>21 DEF ChangeCard
  <1>22. CASE UNCHANGED vars
    BY <1>22 DEF vars
  <1> QED
    BY <1>1, <1>2, <1>3, <1>4, <1>5, <1>6, <1>7, <1>8, <1>9, <1>10, <1>11,
       <1>12, <1>13, <1>14, <1>15, <1>16, <1>17, <1>18, <1>19, <1>20,
       <1>21, <1>22
    DEF Next, FileCall, ConfigCall

\* BuffersOwned: no buffer is leaked, freed twice or shared.
THEOREM BuffersKept == Spec => []BuffersOwned
  <1>1. Init => BuffersOwned
    BY DEF Init, BuffersOwned, Holding
  <1> QED
    BY <1>1, BuffersStep, TypeCorrect, PTL DEF Spec

-----------------------------------------------------------------------------
(* Redirect implements Overlay.                                             *)

\* A step of a thread moves the phase of its call and of no other.
LEMMA PhaseMoves ==
  ASSUME TypeOK, NEW t \in Threads, NEW step, pc' = [pc EXCEPT ![t] = step]
  PROVE  phase' = [phase EXCEPT ![t] = PhaseOf(step)]
  BY DEF TypeOK, phase

\* The phase of every step of a call.
LEMMA Phases ==
  /\ PhaseOf("idle") = "idle"
  /\ \A s \in ConfigSteps : PhaseOf(s) = "idle"
  /\ \A s \in {"dispatch", "enter", "alloc", "head", "check", "swap", "ms"} : PhaseOf(s) = "begun"
  /\ \A s \in {"headFree", "abort", "flash", "fallback"} : PhaseOf(s) = "left"
  /\ \A s \in {"free", "return"} : PhaseOf(s) = "served"
  BY DEF PhaseOf, ConfigSteps

\* A step between two program points of one phase is a stutter of the promise.
LEMMA SamePhase ==
  ASSUME TypeOK, NEW t \in Threads, NEW step, pc' = [pc EXCEPT ![t] = step],
         PhaseOf(step) = PhaseOf(pc[t])
  PROVE  phase' = phase
  BY PhaseMoves DEF TypeOK, phase

LEMMA StepKeepsPromise ==
  ASSUME TypeOK, CallInv, [Next]_vars
  PROVE  [Promise!Next]_(Promise!vars)
  <1> USE DEF TypeOK, Goto, LeftBecause, shared, call, Promise!vars
  <1>a. \A t \in Threads : phase[t] = PhaseOf(pc[t])
    BY DEF phase
  <1>1. ASSUME NEW t \in Threads, NEW f \in Files, Begin(t, f)
        PROVE [Promise!Next]_(Promise!vars)
    <2>1. phase[t] = "idle" /\ phase' = [phase EXCEPT ![t] = "begun"]
      <3>1. pc[t] = "idle" /\ phase[t] = PhaseOf(pc[t])
        BY <1>1, <1>a DEF Begin
      <3>2. phase' = [phase EXCEPT ![t] = PhaseOf("dispatch")]
        BY <1>1, PhaseMoves DEF Begin
      <3> QED
        BY <3>1, <3>2, Phases
    <2>2. Promise!Begin(t, f)
      BY <1>1, <2>1 DEF Begin, Promise!Begin, ready
    <2> QED
      BY <2>2 DEF Promise!Next
  <1>2. ASSUME NEW t \in Threads, Dispatch(t)
        PROVE [Promise!Next]_(Promise!vars)
    <2>1. CASE hooked
      BY <1>2, <2>1, SamePhase, Phases DEF Dispatch, ready
    <2>2. CASE ~hooked
      <3>1. phase[t] = "begun" /\ phase' = [phase EXCEPT ![t] = "left"]
        BY <1>2, <2>2, <1>a, PhaseMoves, Phases DEF Dispatch
      <3>2. Promise!LeaveToFlash(t, "notReady")
        BY <1>2, <2>2, <3>1 DEF Dispatch, Promise!LeaveToFlash, ready
      <3> QED
        BY <3>2 DEF Promise!Next, Promise!Reasons
    <2> QED
      BY <2>1, <2>2
  <1>3. ASSUME NEW t \in Threads, Enter(t)
        PROVE [Promise!Next]_(Promise!vars)
    <2>1. CASE ms_drv # "null" /\ file[t] \in ValidType
      BY <1>3, <2>1, SamePhase, Phases DEF Enter, ready
    <2>2. CASE ms_drv = "null" \/ file[t] \notin ValidType
      <3>1. phase[t] = "begun" /\ phase' = [phase EXCEPT ![t] = "left"]
        BY <1>3, <2>2, <1>a, PhaseMoves, Phases DEF Enter
      <3>2. Promise!LeaveToFlash(t, "notReady") \/ Promise!LeaveToFlash(t, "ineligible")
        BY <1>3, <2>2, <3>1 DEF Enter, Promise!LeaveToFlash, Promise!Eligible, ready
      <3> QED
        BY <3>2 DEF Promise!Next, Promise!Reasons
    <2> QED
      BY <2>1, <2>2
  <1>4. ASSUME NEW t \in Threads, Alloc(t)
        PROVE [Promise!Next]_(Promise!vars)
    <2>1. CASE Goto(t, "alloc", "head") /\ UNCHANGED why
      BY <1>4, <2>1, SamePhase, Phases DEF Alloc, ready
    <2>2. CASE Goto(t, "alloc", "flash") /\ LeftBecause(t, "noMemory")
      <3>1. phase[t] = "begun" /\ phase' = [phase EXCEPT ![t] = "left"]
        <4>1. pc[t] = "alloc" /\ phase[t] = PhaseOf(pc[t])
          BY <2>2, <1>a
        <4>2. phase' = [phase EXCEPT ![t] = PhaseOf("flash")]
          BY <2>2, PhaseMoves
        <4> QED
          BY <4>1, <4>2, Phases
      <3>2. Promise!LeaveToFlash(t, "noMemory")
        BY <1>4, <2>2, <3>1 DEF Alloc, Promise!LeaveToFlash, ready
      <3> QED
        BY <3>2 DEF Promise!Next, Promise!Reasons
    <2> QED
      BY <1>4, <2>1, <2>2 DEF Alloc
  <1>5. ASSUME NEW t \in Threads, Head(t)
        PROVE [Promise!Next]_(Promise!vars)
    <2>1. CASE Goto(t, "head", "check") /\ UNCHANGED why
      BY <1>5, <2>1, SamePhase, Phases DEF Head, ready
    <2>2. CASE Goto(t, "head", "headFree") /\ LeftBecause(t, "noMemory")
      <3>1. phase[t] = "begun" /\ phase' = [phase EXCEPT ![t] = "left"]
        <4>1. pc[t] = "head" /\ phase[t] = PhaseOf(pc[t])
          BY <2>2, <1>a
        <4>2. phase' = [phase EXCEPT ![t] = PhaseOf("headFree")]
          BY <2>2, PhaseMoves
        <4> QED
          BY <4>1, <4>2, Phases
      <3>2. Promise!LeaveToFlash(t, "noMemory")
        BY <1>5, <2>2, <3>1 DEF Head, Promise!LeaveToFlash, ready
      <3> QED
        BY <3>2 DEF Promise!Next, Promise!Reasons
    <2> QED
      BY <1>5, <2>1, <2>2 DEF Head
  <1>6. ASSUME NEW t \in Threads, Check(t)
        PROVE [Promise!Next]_(Promise!vars)
    <2>1. CASE ~Refused(t)
      BY <1>6, <2>1, SamePhase, Phases DEF Check, ready
    <2>2. CASE Refused(t)
      <3>1. phase[t] = "begun" /\ phase' = [phase EXCEPT ![t] = "left"]
        BY <1>6, <2>2, <1>a, PhaseMoves, Phases DEF Check
      <3>2. Promise!LeaveToFlash(t, "ineligible")
        BY <1>6, <2>2, <3>1
        DEF Check, Refused, Promise!LeaveToFlash, Promise!Eligible, ready
      <3> QED
        BY <3>2 DEF Promise!Next, Promise!Reasons
    <2> QED
      BY <2>1, <2>2
  <1>7. ASSUME NEW t \in Threads, GiveUp(t)
        PROVE [Promise!Next]_(Promise!vars)
    BY <1>7, SamePhase, Phases DEF GiveUp, ready
  <1>8. ASSUME NEW t \in Threads, SwapDriver(t)
        PROVE [Promise!Next]_(Promise!vars)
    BY <1>8, SamePhase, Phases DEF SwapDriver, ready
  <1>9. ASSUME NEW t \in Threads, CallCard(t)
        PROVE [Promise!Next]_(Promise!vars)
    <2>1. ready /\ phase[t] = "begun"
      BY <1>9, <1>a, Phases DEF CallCard, CallInv, CallKnows, ready
    <2>2. CASE Base[file[t]] \in card
      <3>1. phase' = [phase EXCEPT ![t] = "served"]
        BY <1>9, <2>2, PhaseMoves, Phases DEF CallCard
      <3>2. Promise!ServeFromCard(t)
        BY <1>9, <2>1, <2>2, <3>1
        DEF CallCard, CallInv, CallKnows, Promise!ServeFromCard, ready
      <3> QED
        BY <3>2 DEF Promise!Next
    <2>3. CASE Base[file[t]] \notin card
      <3>1. phase' = [phase EXCEPT ![t] = "left"]
        BY <1>9, <2>3, PhaseMoves, Phases DEF CallCard
      <3>2. Promise!LeaveToFlash(t, "absent")
        BY <1>9, <2>1, <2>3, <3>1 DEF CallCard, Promise!LeaveToFlash, ready
      <3> QED
        BY <3>2 DEF Promise!Next, Promise!Reasons
    <2> QED
      BY <2>2, <2>3
  <1>10. ASSUME NEW t \in Threads, CallFlash(t)
        PROVE [Promise!Next]_(Promise!vars)
    <2>1. phase[t] = "left" /\ phase' = [phase EXCEPT ![t] = "served"]
      BY <1>10, <1>a, PhaseMoves, Phases DEF CallFlash
    <2>2. Promise!ServeFromFlash(t)
      BY <1>10, <2>1 DEF CallFlash, Promise!ServeFromFlash, ready
    <2> QED
      BY <2>2 DEF Promise!Next
  <1>11. ASSUME NEW t \in Threads, Free(t)
        PROVE [Promise!Next]_(Promise!vars)
    BY <1>11, SamePhase, Phases DEF Free, ready
  <1>12. ASSUME NEW t \in Threads, Return(t)
        PROVE [Promise!Next]_(Promise!vars)
    <2>1. phase[t] = "served" /\ phase' = [phase EXCEPT ![t] = "idle"]
      <3>1. pc[t] = "return" /\ phase[t] = PhaseOf(pc[t])
        BY <1>12, <1>a DEF Return
      <3>2. phase' = [phase EXCEPT ![t] = PhaseOf("idle")]
        BY <1>12, PhaseMoves DEF Return
      <3> QED
        BY <3>1, <3>2, Phases
    <2>2. Promise!Return(t)
      BY <1>12, <2>1 DEF Return, Promise!Return, ready
    <2> QED
      BY <2>2 DEF Promise!Next
  <1>13. ASSUME NEW t \in Threads, ConfigCall(t)
         PROVE [Promise!Next]_(Promise!vars)
    <2> USE DEF ConfigSteps
    <2>1. CASE ConfigBegin(t)
      BY <1>13, <2>1, SamePhase, Phases DEF ConfigBegin, ready
    <2>2. CASE ConfigAlloc(t)
      BY <1>13, <2>2, SamePhase, Phases DEF ConfigAlloc, ready
    <2>3. CASE ConfigHead(t)
      BY <1>13, <2>3, SamePhase, Phases DEF ConfigHead, ready
    <2>4. CASE ConfigRead(t)
      <3>1. phase' = phase
        BY <2>4, SamePhase, Phases DEF ConfigRead
      <3>2. Promise!Environment
        BY <2>4, <3>1 DEF ConfigRead, Promise!Environment, ready
      <3> QED
        BY <3>2 DEF Promise!Next
    <2>5. CASE ConfigFree(t)
      BY <1>13, <2>5, SamePhase, Phases DEF ConfigFree, ready
    <2> QED
      BY <1>13, <2>1, <2>2, <2>3, <2>4, <2>5 DEF ConfigCall
  <1>14. CASE HookDriver \/ MsOpen \/ ProbeBlacklisted
    <2>1. phase' = phase
      BY <1>14 DEF HookDriver, MsOpen, ProbeBlacklisted, phase
    <2>2. Promise!Environment
      BY <1>14, <2>1 DEF HookDriver, MsOpen, ProbeBlacklisted, Promise!Environment, ready
    <2> QED
      BY <2>2 DEF Promise!Next
  <1>15. ASSUME NEW names \in SUBSET Names, ChangeCard(names)
         PROVE [Promise!Next]_(Promise!vars)
    <2>1. phase' = phase
      BY <1>15 DEF ChangeCard, phase
    <2>2. Promise!Environment
      BY <1>15, <2>1 DEF ChangeCard, Promise!Environment, ready
    <2> QED
      BY <2>2 DEF Promise!Next
  <1>16. CASE UNCHANGED vars
    BY <1>16 DEF vars, phase, ready
  <1> QED
    BY <1>1, <1>2, <1>3, <1>4, <1>5, <1>6, <1>7, <1>8, <1>9, <1>10, <1>11, <1>12,
       <1>13, <1>14, <1>15, <1>16
    DEF Next, FileCall

\* KeepsPromise: whatever the threads, the files and the memory, every open and
\* getstat is served as Overlay promises, under every interleaving.
THEOREM RedirectImplementsOverlay == Spec => KeepsPromise
  <1>1. Init => Promise!Init
    BY Phases DEF Init, Promise!Init, phase, ready
  <1> QED
    BY <1>1, StepKeepsPromise, CallInvariant, PTL DEF Spec, KeepsPromise, Promise!Spec

=============================================================================
