------------------------------ MODULE CodePatch ------------------------------
(***************************************************************************)
(* Code that is rewritten while the console runs: the plugin's own import  *)
(* stubs (kernel/resolver.c), the import through which the module manager  *)
(* probes modules (kernel/main.c, hook.c), and the init of Sony's slide    *)
(* plugin, at every load of it (user/main.c).                              *)
(*                                                                         *)
(* The CPU has a write-back data cache and an instruction cache, and keeps *)
(* neither coherent with the other.  A store stays in the data cache until *)
(* the line is written back, by an operation or by an eviction at any      *)
(* time; an instruction comes from the instruction cache, or from memory,  *)
(* never from the data cache.                                              *)
(*                                                                         *)
(* Three threads run at once: the boot; a thread of the module manager     *)
(* that probes modules; and VSH, which loads, starts and unloads the slide *)
(* plugin once the boot is over.  Both OnModuleStart handlers are          *)
(* installed, the user module's being the newer: HandlerChain has the      *)
(* other cases.                                                            *)
(***************************************************************************)
EXTENDS Integers, Sequences, FiniteSets

CONSTANTS
    Firmwares,      \* the columns of nids that the console may need
    Addresses,      \* where the slide plugin may be loaded
    MaxMissing,     \* bound: functions that SystemControl does not find
    MaxLoads        \* bound: loads of the slide plugin

\* The stubs of nids, in its order, and the libraries they are looked up in:
\* count is the index of the first stub that is not of the library.
nids == <<"sceKernelAllocPartitionMemory", "sceKernelFreePartitionMemory",
          "sceKernelGetBlockHeadAddr", "sceKernelQuerySystemCall",
          "sceKernelProbeExecutableObject", "sceKernelFindModuleByName",
          "sceKernelLoadModuleBuffer", "sceKernelStartModule">>

libs == <<[name |-> "SysMemForKernel", count |-> 3],
          [name |-> "InterruptManagerForKernel", count |-> 4],
          [name |-> "LoadCoreForKernel", count |-> 6],
          [name |-> "ModuleMgrForKernel", count |-> 8]>>

Functions == {nids[n] : n \in DOMAIN nids}
Probe == "sceKernelProbeExecutableObject"
FindModule == "sceKernelFindModuleByName"

\* The library whose export a function is.
Exports(lib) ==
    CASE lib = "SysMemForKernel" -> {nids[1], nids[2], nids[3]}
      [] lib = "InterruptManagerForKernel" -> {"sceKernelQuerySystemCall"}
      [] lib = "LoadCoreForKernel" -> {Probe, FindModule}
      [] lib = "ModuleMgrForKernel" -> {"sceKernelLoadModuleBuffer", "sceKernelStartModule"}

\* The NID under which a firmware exports a function and its modules import it.
FirmwareNid(f, fw) == <<f, fw>>

\* A column of nids: 0xDEADBEEF, which is no function's NID, stands where the
\* NID is not known, and "other" is a firmware without a column.
NoNid == <<"0xDEADBEEF", "">>
Nid(f, fw) ==
    IF fw = "5.70" /\ f \in {FindModule, "sceKernelLoadModuleBuffer", "sceKernelStartModule"}
    THEN NoNid ELSE FirmwareNid(f, fw)

\* moduleprobe_nid before it is assigned.
Unset == <<"0", "">>

ASSUME PatchAssumption ==
    /\ Firmwares \subseteq {"3.xx", "5.xx", "5.70", "6.20", "6.3x", "6.60", "other"}
    /\ Addresses \cap {"import", "stub"} = {}
    /\ MaxMissing \in Nat /\ MaxLoads \in Nat

VARIABLES
    mem, dcache, icache,    \* the lines of code, and what the caches hold of them
    firmware, exported,     \* the console's, and what SystemControl finds in it
    own,                    \* the import stubs of this module that lead to their function
    bpc, i, count,          \* where the boot is; the loop of the resolver
    moduleprobe_nid,
    hooked,                 \* what zeroCtrlHookModule returned
    ppc,                    \* where the probe is
    expected, passed,       \* history: it began hooked; it went through the hook
    image,                  \* whose the probed image is
    lpc,                    \* where the slide plugin is
    address, version,       \* of the load of it
    origFuncInit,
    ran,                    \* history: what its init has executed
    refilled                \* history: the stub was fetched inside ClearCaches

lines  == <<mem, dcache, icache>>
boot   == <<firmware, exported, own, bpc, i, count, moduleprobe_nid, hooked>>
probe  == <<ppc, expected, passed, image>>
plugin == <<lpc, address, version, origFuncInit, ran, refilled>>
vars   == <<lines, boot, probe, plugin>>

None == <<>>
Lines == {"import", "stub"} \cup Addresses

\* Words.
Jump(to, offset) == <<"j", to, offset>>
Call(to) == <<"jal", to, 0>>
Original(n, v) == <<"word", n, v>>
Nop == <<"nop", "", 0>>

\* A line is what the model tells apart of it, three words.  The import of the
\* module manager, and this module's function in its place.
Direct == <<Jump(Probe, 0), Nop, Nop>>
Hook   == <<Jump("zeroCtrlModuleProbe", 0), Nop, Nop>>

\* The words of the image that are patched: the two at the init's entry and the
\* call of sceRtcGetCurrentClockLocalTime, which is in it.
Image(v) == <<Original("first", v), Original("second", v), Original("call", v)>>

NotRun == [entry |-> Nop, stub |-> <<Nop, Nop, Nop>>, call |-> Nop]

\* What a data access and what a fetch find in a line.
Data(l) == IF dcache[l] # None THEN dcache[l] ELSE mem[l]
Code(l) == IF icache[l] # None THEN icache[l] ELSE mem[l]

Store(l, words) == dcache' = [dcache EXCEPT ![l] = words] /\ UNCHANGED <<mem, icache>>

Fetch(l) == icache' = [icache EXCEPT ![l] = Code(l)] /\ UNCHANGED <<mem, dcache>>

\* sceKernelDcacheWritebackInvalidateRange and sceKernelIcacheInvalidateRange.
WritebackInvalidate(l) ==
    /\ mem' = [mem EXCEPT ![l] = Data(l)] /\ dcache' = [dcache EXCEPT ![l] = None]
    /\ UNCHANGED icache
Invalidate(l) == icache' = [icache EXCEPT ![l] = None] /\ UNCHANGED <<mem, dcache>>

\* ClearCaches, its first call and its second.
NoLines == [l \in Lines |-> None]
WrittenBack == [l \in Lines |-> Data(l)]
IcacheClearAll == icache' = NoLines /\ UNCHANGED <<mem, dcache>>
DcacheWritebackAll == mem' = WrittenBack /\ dcache' = NoLines /\ UNCHANGED icache

\* The caches make room.
Evict(l) ==
    /\ \/ dcache[l] # None /\ WritebackInvalidate(l)
       \/ icache[l] # None /\ Invalidate(l)
    /\ UNCHANGED <<boot, probe, plugin>>

Init ==
    /\ mem = [l \in Lines |->
                 IF l = "import" THEN Direct
                 ELSE <<Nop, Nop, IF l = "stub" THEN Jump("0", 0) ELSE Nop>>]
    /\ dcache = NoLines /\ icache = NoLines
    /\ firmware \in Firmwares
    /\ exported \in {f \in SUBSET Functions : Cardinality(Functions \ f) <= MaxMissing}
    /\ own \in {{}, Functions}
    /\ bpc = "resolve" /\ i = 0 /\ count = 0 /\ moduleprobe_nid = Unset /\ hooked = FALSE
    /\ ppc = "idle" /\ expected = FALSE /\ passed = FALSE /\ image = "flash"
    /\ lpc = "unloaded" /\ address \in Addresses /\ version = 0
    /\ origFuncInit = None /\ ran = NotRun /\ refilled = FALSE

-----------------------------------------------------------------------------
(* The boot: zeroCtrlResolveNids and zeroCtrlHookModule.                    *)

\* sctrlHENFindFunction (external): what the firmware exports from the library
\* under the NID, nothing for the placeholder.
FindFunction(lib, nid) ==
    {f \in exported \cap Exports(lib) : FirmwareNid(f, firmware) = nid}

\* Mutant: the NID is kept before its function was found.
ResolveKeepsNid ==
    /\ bpc = "resolve" /\ i < Len(nids) /\ firmware # "other"
    /\ i' = i + 1
    /\ count' = IF i = libs[count + 1].count THEN count + 1 ELSE count
    /\ LET fw_nid == Nid(nids[i + 1], firmware)
       IN  /\ own' = own \cup FindFunction(libs[count' + 1].name, fw_nid)
           /\ moduleprobe_nid' = IF nids[i + 1] = Probe THEN fw_nid ELSE moduleprobe_nid
    /\ UNCHANGED <<lines, firmware, exported, bpc, hooked, probe, plugin>>

\* Mutant: the NID of every function is kept.
ResolveKeepsLast ==
    /\ bpc = "resolve" /\ i < Len(nids) /\ firmware # "other"
    /\ i' = i + 1
    /\ count' = IF i = libs[count + 1].count THEN count + 1 ELSE count
    /\ LET fw_nid == Nid(nids[i + 1], firmware)
           found  == FindFunction(libs[count' + 1].name, fw_nid)
       IN  /\ own' = own \cup found
           /\ moduleprobe_nid' = IF found # {} THEN fw_nid ELSE moduleprobe_nid
    /\ UNCHANGED <<lines, firmware, exported, bpc, hooked, probe, plugin>>

\* One turn of the loop.  A stub is written and both caches are synchronised
\* before anything calls through it.
Resolve ==
    /\ bpc = "resolve" /\ i < Len(nids) /\ firmware # "other"
    /\ i' = i + 1
    /\ count' = IF i = libs[count + 1].count THEN count + 1 ELSE count
    /\ LET fw_nid == Nid(nids[i + 1], firmware)
           found  == FindFunction(libs[count' + 1].name, fw_nid)
       IN  /\ own' = own \cup found
           /\ moduleprobe_nid' = IF Probe \in found THEN fw_nid ELSE moduleprobe_nid
    /\ UNCHANGED <<lines, firmware, exported, bpc, hooked, probe, plugin>>

Resolved ==
    /\ bpc = "resolve" /\ (i = Len(nids) \/ firmware = "other")
    /\ bpc' = "find"
    /\ UNCHANGED <<lines, firmware, exported, own, i, count, moduleprobe_nid, hooked, probe, plugin>>

BGoto(from, to) ==
    /\ bpc = from /\ bpc' = to
    /\ UNCHANGED <<firmware, exported, own, i, count, moduleprobe_nid, probe, plugin>>

\* sceKernelFindModuleByName finds the module manager.  Through a stub that
\* leads nowhere the call returns anything, here NULL, or not at all.
FindManager ==
    /\ \/ FindModule \in own /\ BGoto("find", "import")
       \/ FindModule \notin own /\ (BGoto("find", "done") \/ BGoto("find", "stuck"))
    /\ UNCHANGED <<lines, hooked>>

\* find_import_bynid: the module manager imports the function by the NID of
\* its firmware.
FindImport ==
    /\ BGoto("import", IF moduleprobe_nid = FirmwareNid(Probe, firmware) THEN "write" ELSE "done")
    /\ UNCHANGED <<lines, hooked>>

\* api_hook_import.  The jump's delay slot was a nop before.
WriteImport ==
    /\ BGoto("write", "writeback")
    /\ Store("import", Hook)
    /\ UNCHANGED hooked

WritebackImport ==
    /\ BGoto("writeback", "invalidate")
    /\ WritebackInvalidate("import")
    /\ UNCHANGED hooked

InvalidateImport ==
    /\ BGoto("invalidate", "done")
    /\ Invalidate("import")
    /\ hooked' = TRUE

Boot == \/ Resolve \/ Resolved \/ FindManager \/ FindImport
        \/ WriteImport \/ WritebackImport \/ InvalidateImport

-----------------------------------------------------------------------------
(* A probe.                                                                 *)

\* The module manager calls through its import.
CallImport ==
    /\ ppc = "idle"
    /\ Fetch("import")
    /\ ppc' = IF Code("import") = Direct THEN "firmware" ELSE "hook"
    /\ expected' = hooked /\ passed' = FALSE /\ image' = "flash"
    /\ UNCHANGED <<boot, plugin>>

\* zeroCtrlModuleProbe: one of g_modules_mod whose file is on the card is read
\* over the image, as far as the read comes; then ClearCaches, whose two calls
\* are one step here, for nothing executes the image yet.
ReplaceImage ==
    /\ ppc = "hook"
    /\ \/ image' = "flash" /\ UNCHANGED lines
       \/ /\ image' \in {"card", "mixed"}
          /\ mem' = WrittenBack /\ dcache' = NoLines /\ icache' = NoLines
    /\ ppc' = "own" /\ passed' = TRUE
    /\ UNCHANGED <<expected, boot, plugin>>

\* zeroCtrlModuleProbe calls the firmware through this module's own stub.
CallOwn ==
    /\ ppc = "own"
    /\ ppc' = IF Probe \in own THEN "firmware" ELSE "lost"
    /\ UNCHANGED <<expected, passed, image, lines, boot, plugin>>

\* sceKernelProbeExecutableObject (external) returns.
EndProbe ==
    /\ ppc = "firmware"
    /\ ppc' = "idle" /\ expected' = FALSE /\ passed' = FALSE /\ image' = "flash"
    /\ UNCHANGED <<lines, boot, plugin>>

ProbeModule == CallImport \/ ReplaceImage \/ CallOwn \/ EndProbe

-----------------------------------------------------------------------------
(* The slide plugin.                                                        *)

LGoto(from, to) == lpc = from /\ lpc' = to /\ UNCHANGED <<boot, probe>>

\* The firmware (external) writes the image and synchronises the caches.
Load ==
    /\ bpc = "done" /\ version < MaxLoads
    /\ LGoto("unloaded", "loaded")
    /\ address' \in Addresses /\ version' = version + 1
    /\ mem' = [mem EXCEPT ![address'] = Image(version')]
    /\ dcache' = [dcache EXCEPT ![address'] = None]
    /\ icache' = [icache EXCEPT ![address'] = None]
    /\ ran' = NotRun /\ refilled' = FALSE
    /\ UNCHANGED origFuncInit

\* zeroCtrlRedir2Stub: the stub takes over the two words at the address and
\* jumps behind them.
StubOf(code) == <<code[1], code[2], Jump(address, 8)>>

\* The user OnModuleStart: MAKE_CALL, and zeroCtrlRedir2Stub.  Nothing executes
\* the image yet; the patched words of it are taken for one line.
PatchPlugin ==
    /\ LGoto("loaded", "patched")
    /\ dcache' = [dcache EXCEPT
           !["stub"] = StubOf(Data(address)),
           ![address] = <<Jump("InjectionEntryFuncInit", 0), Nop,
                          Call("zeroCtrlGetCurrentClockLocalTime")>>]
    /\ origFuncInit' = <<"stub">>
    /\ UNCHANGED <<mem, icache, address, version, ran, refilled>>

\* Mutant: the instruction cache is not cleared.
ClearNothing ==
    /\ LGoto("patched", "cleared")
    /\ UNCHANGED <<lines, address, version, origFuncInit, ran, refilled>>

\* The kernel OnModuleStart, with its ClearCaches.
ClearInstructions ==
    /\ LGoto("patched", "cleared")
    /\ IcacheClearAll
    /\ UNCHANGED <<address, version, origFuncInit, ran, refilled>>

WriteBackData ==
    /\ LGoto("cleared", "started")
    /\ DcacheWritebackAll
    /\ UNCHANGED <<address, version, origFuncInit, ran, refilled>>

\* The plugin runs its init.
RunEntry ==
    /\ lpc = "started"
    /\ Fetch(address)
    /\ LET first == Code(address)[1]
       IN  /\ ran' = [ran EXCEPT !.entry = first]
           /\ lpc' = IF first[1] = "j" THEN "hook" ELSE "running"
    /\ UNCHANGED <<address, version, origFuncInit, refilled, boot, probe>>

\* InjectionEntryFuncInit calls origFuncInit, which is the stub.
RunStub ==
    /\ LGoto("hook", "jump") /\ origFuncInit = <<"stub">>
    /\ Fetch("stub")
    /\ ran' = [ran EXCEPT !.stub = Code("stub")]
    /\ UNCHANGED <<address, version, origFuncInit, refilled>>

\* The stub jumps behind the words that were redirected.
RunRest ==
    /\ LGoto("jump", "running")
    /\ LET to == ran.stub[3][2]
       IN  IF to \in Addresses
           THEN Fetch(to) /\ ran' = [ran EXCEPT !.call = Code(to)[3]]
           ELSE UNCHANGED <<lines, ran>>
    /\ UNCHANGED <<address, version, origFuncInit, refilled>>

Unload ==
    /\ LGoto("running", "unloaded")
    /\ UNCHANGED <<lines, address, version, origFuncInit, ran, refilled>>

\* add_sysconf_item_stub, which lies in the same line as slide_start_stub, is
\* executed by another thread.
CallNeighbour ==
    /\ bpc = "done"
    /\ Fetch("stub")
    /\ refilled' = (refilled \/ (lpc = "cleared" /\ dcache["stub"] # None))
    /\ UNCHANGED <<lpc, address, version, origFuncInit, ran, boot, probe>>

SlidePlugin == \/ Load \/ PatchPlugin \/ ClearInstructions \/ WriteBackData
               \/ RunEntry \/ RunStub \/ RunRest \/ Unload \/ CallNeighbour

Next == Boot \/ ProbeModule \/ SlidePlugin \/ \E l \in Lines : Evict(l)

Spec == Init /\ [][Next]_vars

-----------------------------------------------------------------------------
(* Properties.                                                              *)

Word == {Nop, Call("zeroCtrlGetCurrentClockLocalTime")}
        \cup {Jump(to, offset) : to \in {Probe, "zeroCtrlModuleProbe",
                  "InjectionEntryFuncInit", "0"} \cup Addresses, offset \in {0, 8}}
        \cup {Original(n, v) : n \in {"first", "second", "call"}, v \in 1..MaxLoads}

Line == Word \X Word \X Word

TypeOK ==
    /\ mem \in [Lines -> Line]
    /\ dcache \in [Lines -> Line \cup {None}] /\ icache \in [Lines -> Line \cup {None}]
    /\ firmware \in Firmwares /\ exported \subseteq Functions /\ own \subseteq Functions
    /\ bpc \in {"resolve", "find", "import", "write", "writeback", "invalidate",
                "done", "stuck"}
    /\ i \in 0..Len(nids) /\ count \in 0..Len(libs) - 1
    /\ moduleprobe_nid \in {Unset, FirmwareNid(Probe, firmware)} /\ hooked \in BOOLEAN
    /\ ppc \in {"idle", "hook", "own", "firmware", "lost"}
    /\ expected \in BOOLEAN /\ passed \in BOOLEAN /\ image \in {"flash", "card", "mixed"}
    /\ lpc \in {"unloaded", "loaded", "patched", "cleared", "started", "hook", "jump", "running"}
    /\ address \in Addresses /\ version \in 0..MaxLoads
    /\ origFuncInit \in {None, <<"stub">>}
    /\ ran \in [entry : Word, stub : Line, call : Word] /\ refilled \in BOOLEAN

\* After the loop, every stub whose NID nids knows and whose function the
\* firmware exports leads to it: none was looked up in another's library
\* (resolver.c:127-130, 148).
StubsResolved ==
    bpc # "resolve" /\ firmware # "other" =>
        {f \in exported : Nid(f, firmware) # NoNid} \subseteq own

\* Whatever lookup fails and at whatever step of the hooking it begins, a
\* probe comes to the firmware's function; once zeroCtrlHookModule has
\* reported the hook, it goes through it (main.c:1009, 1020; hook.c:137-144;
\* resolver.c:154-156).
ProbesArrive ==
    /\ ppc # "lost"
    /\ ppc = "firmware" /\ expected => passed

CallsArrive == StubsResolved /\ ProbesArrive

\* However often and wherever the slide plugin is loaded, its init runs the
\* hook once, then the two instructions that the hook's jump displaced, those
\* of this load, and goes on behind them, with the clock's own time: the words
\* of an earlier load do not come back from a cache.  The exception is the
\* moment between the two calls of ClearCaches, in which a fetch from the
\* stub's line brings the old words back (user/main.c:98-106, 187-188;
\* main.c:740-743, 1510).
InitPatched ==
    lpc = "running" /\ ~refilled =>
        /\ ran.entry = Jump("InjectionEntryFuncInit", 0)
        /\ ran.stub = <<Original("first", version), Original("second", version),
                        Jump(address, 8)>>
        /\ ran.call = Call("zeroCtrlGetCurrentClockLocalTime")
=============================================================================
