------------------------------ MODULE Redirect ------------------------------
(***************************************************************************)
(* The redirection of flash files to the memory stick (kernel/main.c):     *)
(* zeroCtrlIoOpen and zeroCtrlIoGetstat, called by any thread through the  *)
(* function table of the flash driver, with the state they share: ms_drv,  *)
(* the partition memory their path buffers come from, the blacklist of     *)
(* kernel/blacklist.c and the contents of the card.                        *)
(*                                                                         *)
(* IoOpen/IoOpenEX and IoGetstat/IoGetstatEX take the same steps on the    *)
(* same state and are one call here.  zeroCtrlGetSlideConfig draws on the  *)
(* same memory and is a second kind of call.                               *)
(***************************************************************************)
EXTENDS Integers, FiniteSets

CONSTANTS
    Threads,        \* callers
    Files,          \* paths on the flash
    Flash,          \* the paths that exist there
    Names,          \* file names
    Base,           \* the file name of a path
    ValidType,      \* the paths zeroCtrlIsValidFileType accepts
    Named,          \* the paths for which zeroCtrlGetFileName is not NULL
    Font,           \* "/ltn0.pgf"
    Uids,           \* identifiers of partition blocks
    NoUid           \* -1

ASSUME FilesAssumption ==
    /\ Flash \subseteq Files
    /\ Base \in [Files -> Names]
    /\ ValidType \subseteq Files
    /\ Named \subseteq Files

ASSUME UidsAssumption == NoUid \notin Uids

VARIABLES
    hooked,         \* the flash driver's table holds the hooks
    ms_drv,         \* "ms", or "null" while no open of the card has been seen
    g_blacklisted,
    card,           \* file names in redir_path on the card
    blocks,         \* partition blocks in use
    pc,             \* where each thread is
    file,           \* the path of its call
    path_id,        \* its buffer
    drv,            \* arg->drv of its call
    result,         \* what served its call
    why,            \* history: why its call was left to the flash
    barred          \* history: g_blacklisted when its call began

shared == <<hooked, ms_drv, g_blacklisted, card, blocks>>
call   == <<file, drv, result, why, barred>>
vars   == <<shared, pc, path_id, call>>

FileSteps == {"dispatch", "enter", "alloc", "head", "headFree", "check", "abort", "flash",
              "swap", "ms", "fallback", "free", "return"}

ConfigSteps == {"cfgAlloc", "cfgHead", "cfgHeadFree", "cfgRead", "cfgFree"}

Reasons == {"none", "notReady", "ineligible", "noMemory", "absent"}

TypeOK ==
    /\ hooked \in BOOLEAN
    /\ ms_drv \in {"null", "ms"}
    /\ g_blacklisted \in BOOLEAN
    /\ card \subseteq Names
    /\ blocks \subseteq Uids
    /\ pc \in [Threads -> FileSteps \cup ConfigSteps \cup {"idle"}]
    /\ file \in [Threads -> Files]
    /\ path_id \in [Threads -> Uids \cup {NoUid}]
    /\ drv \in [Threads -> {"flash", "null", "ms"}]
    /\ result \in [Threads -> {"none", "flash", "card"}]
    /\ why \in [Threads -> Reasons]
    /\ barred \in [Threads -> BOOLEAN]

Init ==
    /\ hooked = FALSE
    /\ ms_drv = "null"
    /\ g_blacklisted = FALSE
    /\ card \in SUBSET Names
    /\ blocks = {}
    /\ pc = [t \in Threads |-> "idle"]
    /\ file \in [Threads -> Files]
    /\ path_id = [t \in Threads |-> NoUid]
    /\ drv = [t \in Threads |-> "flash"]
    /\ result = [t \in Threads |-> "none"]
    /\ why = [t \in Threads |-> "none"]
    /\ barred = [t \in Threads |-> FALSE]

Goto(t, from, to) == pc[t] = from /\ pc' = [pc EXCEPT ![t] = to]

LeftBecause(t, reason) == why' = [why EXCEPT ![t] = reason]

-----------------------------------------------------------------------------
(* The path buffer: zeroCtrlAllocUserBuffer and zeroCtrlFreeUserBuffer.     *)

Take(t, uid) ==
    /\ uid \in Uids \ blocks
    /\ blocks' = blocks \cup {uid}
    /\ path_id' = [path_id EXCEPT ![t] = uid]

\* Mutant: a freed identifier becomes NULL, which is not -1.
ReleaseNull(t) ==
    /\ blocks' = blocks \ {path_id[t]}
    /\ path_id' = [path_id EXCEPT ![t] = "null"]

Release(t) ==
    /\ blocks' = blocks \ {path_id[t]}
    /\ path_id' = [path_id EXCEPT ![t] = NoUid]

-----------------------------------------------------------------------------
(* A flash open or getstat.                                                 *)

Begin(t, f) ==
    /\ Goto(t, "idle", "dispatch")
    /\ file' = [file EXCEPT ![t] = f]
    /\ drv' = [drv EXCEPT ![t] = "flash"]
    /\ result' = [result EXCEPT ![t] = "none"]
    /\ LeftBecause(t, "none")
    /\ barred' = [barred EXCEPT ![t] = g_blacklisted]
    /\ UNCHANGED <<shared, path_id>>

\* The file manager calls what the driver's table holds.
Dispatch(t) ==
    /\ \/ hooked /\ Goto(t, "dispatch", "enter") /\ UNCHANGED why
       \/ ~hooked /\ Goto(t, "dispatch", "flash") /\ LeftBecause(t, "notReady")
    /\ UNCHANGED <<shared, path_id, file, drv, result, barred>>

\* zeroCtrlIoOpen: ms_drv && zeroCtrlIsValidFileType(file).
Enter(t) ==
    /\ \/ /\ ms_drv # "null" /\ file[t] \in ValidType
          /\ Goto(t, "enter", "alloc") /\ UNCHANGED why
       \/ /\ ms_drv = "null"
          /\ Goto(t, "enter", "flash") /\ LeftBecause(t, "notReady")
       \/ /\ ms_drv # "null" /\ file[t] \notin ValidType
          /\ Goto(t, "enter", "flash") /\ LeftBecause(t, "ineligible")
    /\ UNCHANGED <<shared, path_id, file, drv, result, barred>>

\* Mutant: without memory the flash is not called.
AllocOrReturn(t) ==
    /\ \/ /\ Goto(t, "alloc", "head")
          /\ \E uid \in Uids : Take(t, uid)
          /\ UNCHANGED why
       \/ /\ Goto(t, "alloc", "return")
          /\ LeftBecause(t, "noMemory")
          /\ UNCHANGED <<blocks, path_id>>
    /\ UNCHANGED <<hooked, ms_drv, g_blacklisted, card, file, drv, result, barred>>

\* sceKernelAllocPartitionMemory, which may fail.
Alloc(t) ==
    /\ \/ /\ Goto(t, "alloc", "head")
          /\ \E uid \in Uids : Take(t, uid)
          /\ UNCHANGED why
       \/ /\ Goto(t, "alloc", "flash")
          /\ LeftBecause(t, "noMemory")
          /\ UNCHANGED <<blocks, path_id>>
    /\ UNCHANGED <<hooked, ms_drv, g_blacklisted, card, file, drv, result, barred>>

\* sceKernelGetBlockHeadAddr, which may return NULL: the block is freed.
Head(t) ==
    /\ \/ Goto(t, "head", "check") /\ UNCHANGED why
       \/ Goto(t, "head", "headFree") /\ LeftBecause(t, "noMemory")
    /\ UNCHANGED <<shared, path_id, file, drv, result, barred>>

\* Mutant: the blacklist is not asked.
RefusedUnnamed(t) == file[t] \notin Named

\* zeroCtrlSwapFile: no usable file name, or a blacklisted one.
Refused(t) == file[t] \notin Named \/ (g_blacklisted /\ Base[file[t]] = Font)

Check(t) ==
    /\ \/ Refused(t) /\ Goto(t, "check", "abort") /\ LeftBecause(t, "ineligible")
       \/ ~Refused(t) /\ Goto(t, "check", "swap") /\ UNCHANGED why
    /\ UNCHANGED <<shared, path_id, file, drv, result, barred>>

\* Mutant: the buffer of a call that is not redirected is kept.
GiveUpKeeping(t) ==
    /\ Goto(t, "abort", "flash") \/ Goto(t, "headFree", "flash")
    /\ UNCHANGED <<shared, path_id, call>>

\* The buffer of a call that is not redirected goes back before the flash call.
GiveUp(t) ==
    /\ Goto(t, "abort", "flash") \/ Goto(t, "headFree", "flash")
    /\ Release(t)
    /\ UNCHANGED <<hooked, ms_drv, g_blacklisted, card, call>>

\* arg->drv = ms_drv
SwapDriver(t) ==
    /\ Goto(t, "swap", "ms")
    /\ drv' = [drv EXCEPT ![t] = ms_drv]
    /\ UNCHANGED <<shared, path_id, file, result, why, barred>>

\* Mutant: arg->drv stays at the card's driver when the card fails.
CallCardOnly(t) ==
    /\ \/ /\ Base[file[t]] \in card
          /\ Goto(t, "ms", "free")
          /\ result' = [result EXCEPT ![t] = "card"]
          /\ UNCHANGED why
       \/ /\ Base[file[t]] \notin card
          /\ Goto(t, "ms", "fallback")
          /\ LeftBecause(t, "absent")
          /\ UNCHANGED result
    /\ UNCHANGED <<shared, path_id, file, drv, barred>>

\* The card's driver is called with the new path; when it fails, arg->drv is
\* given back.
CallCard(t) ==
    /\ \/ /\ Base[file[t]] \in card
          /\ Goto(t, "ms", "free")
          /\ result' = [result EXCEPT ![t] = "card"]
          /\ UNCHANGED <<drv, why>>
       \/ /\ Base[file[t]] \notin card
          /\ Goto(t, "ms", "fallback")
          /\ drv' = [drv EXCEPT ![t] = "flash"]
          /\ LeftBecause(t, "absent")
          /\ UNCHANGED result
    /\ UNCHANGED <<shared, path_id, file, barred>>

\* The flash's driver is called, with a buffer still to be freed or without.
CallFlash(t) ==
    /\ Goto(t, "fallback", "free") \/ Goto(t, "flash", "return")
    /\ result' = [result EXCEPT ![t] = IF file[t] \in Flash THEN "flash" ELSE "none"]
    /\ UNCHANGED <<shared, path_id, file, drv, why, barred>>

Free(t) ==
    /\ Goto(t, "free", "return")
    /\ Release(t)
    /\ UNCHANGED <<hooked, ms_drv, g_blacklisted, card, call>>

Return(t) ==
    /\ Goto(t, "return", "idle")
    /\ UNCHANGED <<shared, path_id, call>>

FileCall(t) ==
    \/ \E f \in Files : Begin(t, f)
    \/ Dispatch(t) \/ Enter(t) \/ Alloc(t) \/ Head(t) \/ Check(t) \/ GiveUp(t)
    \/ SwapDriver(t) \/ CallCard(t) \/ CallFlash(t) \/ Free(t) \/ Return(t)

-----------------------------------------------------------------------------
(* zeroCtrlGetSlideConfig, exported to the user helper.                     *)

ConfigBegin(t) ==
    /\ Goto(t, "idle", "cfgAlloc")
    /\ UNCHANGED <<shared, path_id, call>>

ConfigAlloc(t) ==
    /\ \/ Goto(t, "cfgAlloc", "cfgHead") /\ \E uid \in Uids : Take(t, uid)
       \/ Goto(t, "cfgAlloc", "idle") /\ UNCHANGED <<blocks, path_id>>
    /\ UNCHANGED <<hooked, ms_drv, g_blacklisted, card, call>>

ConfigHead(t) ==
    /\ Goto(t, "cfgHead", "cfgRead") \/ Goto(t, "cfgHead", "cfgHeadFree")
    /\ UNCHANGED <<shared, path_id, call>>

\* ini_gets opens the configuration on the card, through zeroCtrlMsIoOpen.
ConfigRead(t) ==
    /\ Goto(t, "cfgRead", "cfgFree")
    /\ ms_drv' = IF hooked THEN "ms" ELSE ms_drv
    /\ UNCHANGED <<hooked, g_blacklisted, card, blocks, path_id, call>>

ConfigFree(t) ==
    /\ Goto(t, "cfgFree", "idle") \/ Goto(t, "cfgHeadFree", "idle")
    /\ Release(t)
    /\ UNCHANGED <<hooked, ms_drv, g_blacklisted, card, call>>

ConfigCall(t) ==
    ConfigBegin(t) \/ ConfigAlloc(t) \/ ConfigHead(t) \/ ConfigRead(t) \/ ConfigFree(t)

-----------------------------------------------------------------------------
(* What happens around the calls.                                           *)

\* zeroCtrlHookDriver replaces the tables with interrupts suspended.
HookDriver ==
    /\ ~hooked
    /\ hooked' = TRUE
    /\ UNCHANGED <<ms_drv, g_blacklisted, card, blocks, pc, path_id, call>>

\* zeroCtrlMsIoOpen: the dummy open of zeroCtrlHookDriver, the replacement of a
\* module in zeroCtrlModuleProbe, or anybody's open of a file on the card.
MsOpen ==
    /\ hooked
    /\ ms_drv' = "ms"
    /\ UNCHANGED <<hooked, g_blacklisted, card, blocks, pc, path_id, call>>

\* zeroCtrlModuleProbe calls zeroCtrlSetBlackListItems with a blacklisted name.
ProbeBlacklisted ==
    /\ g_blacklisted' = TRUE
    /\ UNCHANGED <<hooked, ms_drv, card, blocks, pc, path_id, call>>

\* The user adds files to the card or removes them, or the card itself.
ChangeCard(names) ==
    /\ card' = names
    /\ UNCHANGED <<hooked, ms_drv, g_blacklisted, blocks, pc, path_id, call>>

Next ==
    \/ \E t \in Threads : FileCall(t) \/ ConfigCall(t)
    \/ HookDriver \/ MsOpen \/ ProbeBlacklisted
    \/ \E names \in SUBSET Names : ChangeCard(names)

Spec == Init /\ [][Next]_vars

-----------------------------------------------------------------------------
(* The promise that the calls keep.                                         *)

PhaseOf(step) ==
    CASE step \in {"idle"} \cup ConfigSteps -> "idle"
      [] step \in {"dispatch", "enter", "alloc", "head", "check", "swap", "ms"} -> "begun"
      [] step \in {"headFree", "abort", "flash", "fallback"} -> "left"
      [] step \in {"free", "return"} -> "served"

phase == [t \in Threads |-> PhaseOf(pc[t])]

ready == hooked /\ ms_drv # "null"

Promise == INSTANCE Overlay WITH
    Redirectable <- ValidType \cap Named,
    banned <- g_blacklisted

-----------------------------------------------------------------------------
(* Properties.                                                              *)

Holding == {"head", "headFree", "check", "abort", "swap", "ms", "fallback", "free",
            "cfgHead", "cfgHeadFree", "cfgRead", "cfgFree"}

\* The blocks in use are exactly those of the calls between their allocation
\* and their free, each of a call of its own: no path through the fallbacks
\* leaks a buffer, frees one twice or frees another call's (main.c:699-720,
\* 797-833, 859, 885, 1585-1602).
BuffersOwned ==
    /\ blocks = {path_id[t] : t \in Threads} \ {NoUid}
    /\ \A t \in Threads : path_id[t] # NoUid <=> pc[t] \in Holding
    /\ \A t, u \in Threads : path_id[t] = path_id[u] /\ path_id[t] # NoUid => t = u

\* A call returns with arg->drv at the card's driver exactly if the card served
\* it: later reads go to the driver that holds the file, also when ms_drv, the
\* card and the hooks change during the call (main.c:846-857, 872-883).
DriverMatchesResult ==
    \A t \in Threads : pc[t] = "return" => drv[t] = IF result[t] = "card" THEN "ms" ELSE "flash"

\* Once the blacklisting module has been probed, no call that begins serves the
\* font from the card (main.c:820-828, blacklist.c:28-47).
BlacklistHonoured ==
    \A t \in Threads : barred[t] /\ Base[file[t]] = Font => result[t] # "card"

\* Every call is served as Overlay promises.
KeepsPromise == Promise!Spec
=============================================================================
