# ZeroVSH Patcher: specification, model checking and proofs

ZeroVSH Patcher is a plugin for the PSP. A kernel module (`src/kernel`) and a
small user module that it embeds (`src/user`) redirect firmware files from flash
to the Memory Stick, bring the PSP Go's clock-and-calendar slide to other models,
and, on a PSP-1000, record what happens when that slide plugin is loaded. Nearly
all of it runs in other people's threads: in calls of the flash driver, in
handlers called when a module starts, in imports of Sony's plugin. No lock is
taken anywhere but one suspension of interrupts. This directory models that
concurrency, the code that is rewritten while it may run, and the configuration
file, which the power or the card may fail, and checks what has to hold.

Paths below are relative to `src/`; `main.c` alone means `kernel/main.c`.

## The system

| part | state | operations | interacts by |
|---|---|---|---|
| Slide control (`main.c:1029-1078, 1644-1764`, `user/main.c:145-151`) | `slideState`, `brightness`, `cpuOld`, `busOld`; display, LEDs, clock speed | button thread, `zeroCtrlDummyFunc`, `zeroCtrlGetParam`, `InjectionEntryFuncInit` | a shared word polled by three threads |
| Flash redirection (`main.c:698-970`) | `ms_drv`, driver tables, one path buffer and `arg->drv` per call | `zeroCtrlIoOpen`, `zeroCtrlIoGetstat`, `zeroCtrlMsIoOpen`, `zeroCtrlHookDriver` | replaced driver functions, called by any thread |
| Module probe, blacklist (`main.c:972-1027`, `blacklist.c`) | `g_blacklisted`, the image being probed | `zeroCtrlModuleProbe`, `zeroCtrlSetBlackListItems` | an import hook in the module manager |
| PSP-1000 diagnostics (`main.c:146-230, 591-679, 1111-1483`, `logger.c`) | `slide_diag`, the log file | callbacks that set flags and capture memory; the `zeroctrl_slide_diag` writer | flags set by the loader, polled by the writer |
| Boot and start-module handlers (`main.c:1485-1583, 1766-1865`, `user/main.c:153-200`) | `previous` of both modules, SystemControl's chain, the helper module | `module_start` (both), `zeroCtrlLoadStartModule`, `OnModuleStart` (both) | SystemControl calls the newest handler, each calls its `previous` |
| Patching and caches (`main.c:722-743`, `user/main.c:98-106`, `hook.c:131-163`) | words of code, two caches | `zeroCtrlRedir2Stub`, `ClearCaches`, `api_hook_import*` | called by the handlers |
| VSH scanners (`main.c:232-589, 1187-1238`) | windows, reference arrays, counters of `slide_diag` | scans of VSH's text and import table | called while VSH starts |
| Import hooking, NID resolver (`hook.c`, `resolver.c`) | stub tables | `find_import_lib`, `hook_import_bynid`, `zeroCtrlResolveNids` | called at boot and by the kernel handler |
| minIni (`kernel/minini`) | the configuration file and its temporary copy | `ini_gets`, `ini_puts` | `module_start`, `zeroCtrlGetSlideConfig`, `zeroCtrlSetSlideConfig` |
| Log file (`logger.c`) | the file | append one line | every part |

What makes them correct, and hard:

* **Slide control.** The state must go round STOPPED, STARTING, STARTED, STOPPING
  although every access is an unlocked test followed by a write; a press must be
  answered once; the console must not fall asleep under the clock; brightness and
  speed must come back, session after session; starts and stops must complete.
* **Redirection.** A call has six ways to fail back to the flash. Each must free
  its buffer once, give `arg->drv` back, and have a reason, while other calls,
  the card, the blacklist and `ms_drv` change.
* **Diagnostics.** The writer reads, without a lock and with timeouts, what the
  loader writes, and the loader may freeze at any instruction: that is what is
  being diagnosed. What it persists must be whole and true.
* **Scanners and import walks.** They read memory laid out by somebody else.
  What they report must be complete where it is a count and the right selection
  where it is an array of 32 or 16 records. The walk of `main.c` must end, and
  find no stub that is not the table's, whatever the table holds; that of `hook.c`
  tests nothing and relies on the loader's tables. The scans decode some opcodes
  only, as the document says of them (`docs/phase3-vsh-trigger-analysis.md:113-114,
  145-149`).
* **Handlers.** The boot and the helper thread install handlers at once, with a
  gap between making a handler live and storing what it must chain to. Handlers
  must run once, none may be skipped, an unloaded one must not be reachable.
* **Patching and caches.** A word that was written is not a word that is executed:
  both caches have to be synchronised in between, while other threads execute
  neighbouring code, and the slide plugin may be loaded again elsewhere. Functions
  that the firmware lacks leave stubs behind that nothing may call through.
* **Configuration file.** `ini_puts` rewrites the file into a second one, removes
  the first and renames the second, and looks at no result. A crash, or what an
  earlier crash left, must not cost an entry; a failed read and a full card do cost
  entries, and how many has to have a limit.

`PROJECT.json` lists the hazards one by one, each at its line, with the
properties that would catch it or the reason why none does.

## Modules

| module | models |
|---|---|
| `SlideControl`, `MCSlideControl`, `SlideControl_proofs` | slide control |
| `SlideDiag`, `MCSlideDiag`, `SlideDiag_proofs` | diagnostics, with the probe's and the kernel handler's captures |
| `Overlay` | what redirection promises (abstract) |
| `Redirect`, `MCRedirect`, `Redirect_proofs` | redirection and the blacklist; implements `Overlay` |
| `HandlerChain`, `MCHandlerChain`, `HandlerChain_proofs` | boot, helper thread and both start-module handlers |
| `ImportTable` | the two walks of an import table, in `hook.c` and in `main.c` |
| `VshScan`, `MCVshScan`, `VshScan_proofs` | the evidence scans of VSH's text; extends `ImportTable` |
| `CodePatch`, `MCCodePatch`, `CodePatch_proofs` | the resolver, the hook of the probe, the patches of the slide plugin, and the two caches |
| `ConfigStore` | what a put of a setting promises (abstract) |
| `ConfigFile`, `MCConfigFile`, `ConfigFile_proofs` | the configuration file, its reader and `ini_puts`; implements `ConfigStore` |
| `NatLemmas` | no part of the system: the least and the greatest member of a set of numbers, for the proofs about walks and sequences |

Each module has one action per step of a thread that another thread can see: a
read of a shared word, a write of one, a call of the firmware. A `pc` variable
per thread (`bpc`, `bsPc`, `wpc`, ...) names the next step. Reads and writes of
one aligned word are atomic, and a thread's steps are seen in program order: the
PSP runs these threads on one core. An operator whose comment begins with
*Mutant* stands beside the definition it spoils and is used by no specification;
`PROJECT.json` says which property it has to break.

### SlideControl

`slideState` is the word itself. `ReadLatch` to `Wake` are the loop of
`zeroCtrlReadButtons`, one action per read or write; the two operands of the
power-tick condition are `TestStarting` and `TestUp`. `BsCall` to
`BsTestStopped` are `zeroCtrlDummyFunc`, then `SetLEDState` to `SetClockSpeed`
are what `InjectionEntryFuncInit` calls. `ImpCall` to `ImpStarted` are
`zeroCtrlGetParam`. `hw` is the hardware; `chosen` is what the user or the
firmware last set it to while the clock was closed (`Adjust`). `toggles` and
`presses` count starts and stops, and presses.

Sony's plugin is not in the repository. What the code shows of it is that it
polls both hooks, that an answer of -1 from the first closes its clock and an
answer of 0 opens it, and that opening runs its patched init. The constant
`Sequential` chooses between a plugin that polls with one thread and asks for the
impose parameter only with the clock open, and one with a thread for each hook.
`Restored` needs the first: with two threads the start can be confirmed and
stopped before the init has run.

### SlideDiag

`flags` holds the volatile flags. The loader's actions follow one load:
`OpenPrx`, the probe (`ProbeEnter` to `ProbeReturning`), the start (`StartEnter`
to `SawStart`); before it VSH may start, more than once (`VshStart` to
`VshSeen`). A partition snapshot and the VSH record are captured in parts, and
each part carries the number of the load that wrote it, so that a torn one can be
told from a whole one. The writer's actions follow
`zeroCtrlWriteSlideDiagnostics`; a scan tests one flag per step
(`WriteCheckpoint`). `log` is what is on the card. The waits are counted in
polls. The word of VSH that the writer samples in its evidence is left out, and
so are the five `module_start_*` milestones, which no code sets.

### Redirect and Overlay

`IoOpen` and `IoGetstat` take the same steps and are one call. `Dispatch` reads
the driver's table, `Enter` tests `ms_drv` and the extension, `Alloc` and `Head`
are `zeroCtrlAllocUserBuffer`, `Check` is the rest of `zeroCtrlSwapFile`, then
`SwapDriver`, `CallCard`, `CallFlash`, `Free`. `ConfigCall` is
`zeroCtrlGetSlideConfig`, which draws on the same memory. Extensions and file
names are sets: `ValidType` is what `zeroCtrlIsValidFileType` accepts, `Named`
is where `zeroCtrlGetFileName` finds a name. `Overlay` says what a caller is
promised: served once, by the card if the file was there when it was tried, and
otherwise by the flash for a stated reason. The refinement maps the step of a
call to a phase (`PhaseOf`).

### HandlerChain

`Boot` is `module_start` from the creation of its threads on, `Helper` is
`zeroctrl_umod`, with the user module's `module_start` inside it. `Swap`, the
external `sctrlHENSetStartModuleHandler`, and `Store`, the assignment to
`previous`, are separate steps. A starter runs the chain: `KernelOnModuleStart`,
`UserOnModuleStart` and `CfwOnModuleStart` do a handler's own work, `Chain`
calls its `previous`. `effects` names what was patched or captured, `dirty` says
that code was written and the caches not cleared since. Assumed of the firmware:
`sceKernelStartModule` fails only before the module's `module_start` has run;
the custom firmware's handler chains to nothing of this plugin.

### ImportTable and VshScan

`RecordCode` of `SlideDiag` stands for a sequence of loops; these modules are that
sequence, one step per turn of a loop, in the order of
`zeroCtrlRecordVshSlideTarget`: `Derive` decodes the shared global, `Resolve` walks
the import table, then come the scans `direct` (callers of the predicates),
`global` (accesses of the global) and `state` (callers of the initializer), each of
two passes. They are one algorithm with three reference tests (`IsReference`), two
capacities and two first offsets. The other reader of import tables,
`hook_import_bynid`, starts in the same initial states with phase `hook`.

An instruction is what the scans tell apart of it: its kind, its registers, the
offset it jumps to. An effective address is the pair of its two immediates, which
determine each other. A table gives a descriptor for every offset, because a length
may lead the walk anywhere; `Usable` holds the tests of a descriptor, and
`table.valid` those made before the first. The properties do not reuse the code's
searches: `HighBefore` executes the instructions before an access, and `WalkTo` says
which descriptors a chain of lengths reaches. A text may hold instructions that the
scans do not decode: a write of a register by another opcode (`unknown`) and a call
through a register (`jalr`). `References` is what an execution reaches of which only
the decoded opcodes write and jump, `Executed` what one reaches where all do.
`CountsComplete` says that a scan counts the first exactly, and differs from the second
by no more than the instructions it cannot decode leave open (`Undecodable`): it leaves
out calls through a register, and takes in accesses behind an undecoded write of their
base. The copies of fixed windows and the segment test of the global are left out.

### CodePatch

`mem`, `dcache` and `icache` hold lines of code: the import through which the module
manager probes modules, the line of `stub.S` in which `slide_start_stub` lies, and
one line for each address at which the slide plugin may be loaded. A line is three
words, those that are patched. `Data` is what a load finds, `Code` what a fetch
finds; `Evict` may write a line back or drop it at any time.

`Boot` is `zeroCtrlResolveNids`, one turn of the loop per step, and
`zeroCtrlHookModule` with the store, the write-back and the invalidation of
`api_hook_import` as three steps. `own` is the set of this module's stubs that lead
to their function, `exported` what SystemControl can find. At the start all stubs
lead on or none does: the loader has linked them or has not. `Nid` is the column of the
table `nids` for the firmware, `FirmwareNid` what the firmware exports: for 5.70 the table holds
the placeholder `0xDEADBEEF` where its authors knew no NID (`NoNid`), which no function has, so
that the lookup returns NULL and the function is skipped (`FindFunction`). A call through a stub
that does not, at the hook's installation, returns NULL or not at all. `ProbeModule` is a
thread that probes: it fetches the import (`CallImport`), and in the hook may replace
the image (`ReplaceImage`, whole or as far as the read came) and calls the firmware
through its own stub (`CallOwn`). `SlidePlugin` is VSH: `Load`, the user handler
(`PatchPlugin`, with `StubOf` for `zeroCtrlRedir2Stub`), the two calls of `ClearCaches`
in the kernel handler, then the init as the console executes it (`RunEntry`,
`RunStub`, `RunRest`), recorded in `ran`. `CallNeighbour` is another thread that
executes `add_sysconf_item_stub`, which shares a cache line with `slide_start_stub`; `refilled` says
that this happened between the two calls of `ClearCaches`, with the new words still in the
data cache. `InitPatched` excepts that case because the code fails in it:
`ClearCaches` invalidates the instruction cache before it writes the data cache back
(`main.c:740-743`), so the fetch brings the old stub back, and it stays. No document
speaks of it. `StubsResolved`, `ProbesArrive` and `InitPatched` do not mention the
caches, only what is executed in the end.

### ConfigFile and ConfigStore

A file is a sequence of tokens: a section header, a key with its `=`, a character of
a value, a line's end. `Get` is `getkeystring`, with comments, quotation marks and
escapes (`BeforeComment`, `Dequoted`); `Settings` is what a reader finds for every
section and key. `IniPuts` is `ini_puts`: `OpenNew`, `OpenSame` and `OpenTemp` are its three
beginnings, `FindSection`, `FindKey` and `CopyRest` its three loops, a line per step,
`Write` each `sceIoWrite`, then `Remove` and `Rename`. `Crash`, the power failing, may
follow any of them, and the card may fill up in the middle of a piece. A read may fail:
in the search for the key, which then seems to be missing (`OpenTemp`), and in the loops,
which take it for the end of the file (`ReadFails`). Neither file is truncated
when it is opened: `Overwrite` leaves what lies behind.

`ConfigStore` states the promise in the reader's terms. A put replaces its entry and
keeps every other; in between a reader may find nothing (`Vanish`, `Appear`); a put
may be refused and change nothing; after a crash, entries that the file did not hold
may come to light; a file that was not read or not written whole (`incomplete`) lacks entries,
and one of them may be cut, and the put returns 1 all the same. The refinement maps a file to `Settings` of it, and the time between
remove and rename to `next`. `RescueCopy` adds what the reader cannot see: when the
file is gone, the temporary one holds every entry until another put opens it. That put
finds no file and writes a new one with a single entry in it: minIni has no recovery, and
`Vanish` without `Appear` says so.

## Runs

| run | instance | shows |
|---|---|---|
| `SlideConcurrent` | one button for start and stop and one outside `ALL_CTRL`, 3 presses, a thread for each hook | `TypeOK`, `SlideCycle`, `NoMissedTick`, `OnePressOneToggle`, `RequestsComplete` |
| `SlideSession` | two levels, two LEDs, two speeds, 4 presses (two sessions), one Sony thread | `Restored` |
| `DiagOneLoad` | two starts of VSH, one load, no poll in the first wait, one in the second | `TypeOK`, `EvidenceWhole`, `StartSnapshotWhole` |
| `DiagReload` | two loads, a failing probe, one poll in the first wait, none in the second | `ProbeSnapshotWhole`, `CheckpointResultReturned`, `ProbeSeenCheckpointed`, `WriterEnds` |
| `Redirect` | two threads, two blocks, four paths: a font, a resource in another directory, the excluded code page, a file of no redirected kind | `TypeOK`, `BuffersOwned`, `DriverMatchesResult`, `BlacklistHonoured`, and `KeepsPromise`, the refinement of `Overlay` |
| `HandlerChain` | all models, firmwares and settings, with a prior handler and without, one starter | `TypeOK`, `WholeChainRuns`, `NoHandlerTwice`, `NoDanglingHandler`, `SlidePluginAllOrNone`, `PatchesFlushed`, `ComesUp`, `StartsReturn` |
| `VshScan` | every text of two words at the target and three more from eleven instructions, two of them not decoded; every table of four words from eight descriptors, those without length, too short or too long among them; arrays of 2 and 1 | `TypeOK`, `CountsComplete`, `PriorityKept`, `WindowsClamped`, `ImportsGenuine`, `ReadersEnd` |
| `CodePatch` | firmware 5.70, for which NIDs are not known, one of the others and an unknown one; up to two functions missing; two addresses, two loads | `TypeOK`, `CallsArrive`, `InitPatched` |
| `ConfigFile` | no file, and seven, with the section first, last or missing, comments, blanks, and last lines without an end; two keys, values that need quoting and that do not; three puts, one crash, failed read or full card | `TypeOK`, `RescueCopy`, `KeepsStore`, the refinement of `ConfigStore`, and `PutsReturn` |

**Bounds.** Three presses start, stop and start the clock, four are two sessions:
the second starts from every state the first can leave. Two loads or two starts of
VSH are the fewest that can overwrite a record; further ones meet the same flags.
A wait of no poll and of one poll differ in whether its body runs at all; more
polls repeat it. Two calls suffice for one to disturb another, and two blocks for
both to hold one; `Alloc` may fail in any state. A starter's chain is at most three
handlers, and starters share nothing but the chain, which only boot and helper
change. Three words after the target hold an access, a redefinition of its base
and a second LUI; arrays of two and one fill in both passes; a table of four words
holds two descriptors, or one and a rest. `hook.c` is run on tables whose
descriptors fill them exactly (`Linked`), as the firmware's loader leaves them: its
walk has no test for others, on which it would leave the table or, at a descriptor without
length, not end (`hook.c:60-76`), so that `ImportsGenuine` and `ReadersEnd` say of it what
holds on `Linked` tables. Two loads at two addresses let a stub and a cache hold
the words of another load, at the same address or elsewhere; all firmwares but 5.70
differ in their NIDs only. Of three puts the first can be cut off, the second can
find the file gone, and the third goes over what the first left. A file whose last line has
no end gets no fault in `ConfigFile`: what then happens is the run `ConfigTail`. The theorems hold for every value of these constants.

Deadlock is checked in the slide, redirect, handler and patching runs. It is not in the
diagnostic runs, where the writer exits and the loader may freeze, nor in
`VshScan`, whose readers return, nor in `ConfigFile`, which ends after its puts.

**Fairness.** `SlideControl` assumes it of the button thread, an endless loop that
only sleeps, and of the two polls, which Sony's plugin makes for as long as it
lives; none blocks on another. `SlideDiag` assumes it of the writer alone, which
sleeps for fixed times, and of the loader nothing. `HandlerChain` assumes that
threads that were started run, that the firmware starts its library, and that a
start that has begun goes on; not that another begins. `VshScan` assumes that a loop
goes on to its next turn, `ConfigFile` that the thread inside `ini_puts` runs on
unless it crashes; it waits for nobody.

### Disagreements with the documents

Three runs each check one sentence of the repository, and TLC shows a behaviour of
the code that contradicts it.

| run | the sentence | the code |
|---|---|---|
| `DiagLabel` | a timeout records `start_not_seen` (`...:95-97`) | a start after the timeout relabels the timeout's capture (`main.c:1447`) |
| `HandlerChainPrior` | the prior handler is chained exactly once (`...:212-213`) | a start between swap and store finds `previous` NULL (`main.c:1855, 1861`) |
| `ConfigTail` | "Copy the rest of the INI file" (`kernel/minini/minIni.c:666`) | the temporary file is not truncated; after a put that was cut off, the left-over tail is joined to an unfinished last line, and the value of another key changes (`minIni.c:565`) |

`HandlerChain` shows the other side of `HandlerChainPrior`: outside that window the
whole chain runs, and even inside it no handler runs twice.

Four more were met while modelling and have no run of their own. `ini_puts` is said to
return "1 if successful, otherwise 0" (`kernel/minini/minIni.c:524`): a read that fails
while the file is copied is taken for the end of the file, what does not fit on the card is
not missed, and the put replaces the file by the short copy and returns 1 (`minIni.c:105,
576-591`). `ConfigStore` states it as `incomplete`. Stopping is said to
restore the LED state (`docs/phase2-final-report.md:154-155`): all LEDs go on, whatever
they were (`main.c:1676`). The checkpoints are expected in the order in which the
loader passes them (`docs/phase3-controlled-enablement.md:283-287`): a scan tests each
flag once, and can persist probe-entered before request (`main.c:1134-1139`). The exact
probe result is said to be retained (`...:270-271`): the report prints the initial 0
if the probe has not returned (`main.c:1445`). `zeroCtrlSetSlideConfig` and
`zeroCtrlGetSlideConfig` name `ms0:` even where `module_start` reads `ef0:`
(`main.c:1596, 1606, 1786`).

## Proofs

TLAPS proves, for every value of the constants the named assumptions allow:

| theorem | along |
|---|---|
| `SlideControl_proofs!TypeCorrect` | inductive by itself |
| `!CycleHolds`, `!TickKept` | an invariant that says, for each thread between its test and its write, what the state still is: only the button thread leaves STOPPED and STARTED, only the first hook leaves STOPPING, only the second leaves STARTING |
| `!PressAnsweredOnce` | presses not yet read, in hand and answered add up |
| `!StopRestores` | assumes `Sequential`; an invariant per stage of a session: what is saved is what the user chose, from the saving to the restoring |
| `SlideDiag_proofs!TypeCorrect` | inductive by itself; types of the log are kept through `Append` |
| `!ProbeSnapshotKept` | a probe step belongs to the first probe only; once `sawProbe` is up both parts carry the same load and stay |
| `!CheckpointResultKept` | a raised `probeReturning` means that `probe_result` is a result some probe returned |
| `!EvidenceKept` | while `vsh` is down one start owns the record; once up it never changes |
| `!ProbeSeenCheckpointedKept` | `probeEntered` is up before `sawProbe`; a report follows a scan that began after `sawProbe` was read, and that scan has tested `probeEntered` when it goes on to the second wait |
| `!StartSnapshotKept` | with one load (`MaxLoads = 1`): `sawStart` is raised when both parts and the module are captured, the loader captures nothing after it, and the writer copies only when it has found it up |
| `Redirect_proofs!TypeCorrect` | inductive by itself |
| `!DriverReturned` | `arg->drv` is a function of the step of the call; `ms_drv` once set stays |
| `!BlacklistKept` | the blacklist only grows |
| `!BuffersKept` | a call holds an identifier exactly in its `Holding` steps, and holders differ |
| `!RedirectImplementsOverlay` | initial states map, and each action is a step of `Overlay` or a stutter |
| `HandlerChain_proofs!TypeCorrect` | inductive by itself |
| `!NoHandlerTwiceHolds`, `!WholeChainRunsHolds` | `old` never changes for an installed handler, so `installed` and every chain a start began with are spelled out by `old`, and `previous` is `old` or still NULL; what a start has run is a prefix of its chain, all of it if every `previous` was stored when it began |
| `!NoDanglingHandlerHolds` | the same: a handler that is the head, chained to or running was installed, and the user handler is installed only by a user module that stays |
| `!SlidePluginAllOrNoneHolds`, `!PatchesFlushedHolds` | with the invariant of the two above, `WorkInv`: what a start has patched or captured is what the handlers it has run do for its module, armed or not, and where the kernel handler ran after the user's nothing is dirty |
| `VshScan_proofs!TypeCorrect` | the bounds of every index, with the walks inside their table |
| `!ImportsGenuineHolds` | the descriptors passed are a chain from the first, each whole and none of them the one looked for; in `hook.c` the chain that fills the table (`Linked`) is that chain, by least counterexample |
| `!CountsCompleteHolds`, `!PriorityKeptHolds` | what is counted is the cardinality of the references behind the scan, pass by pass; the backward search finds what an execution of the decoded instructions would have loaded, by induction on the distance; of two executions, one with every write and one with the decoded ones, an access without an undecoded write of its base near by sees the same; records are the first references of the first kind, then of the second, each stored once |
| `VshScan_proofs!RetainedHolds` | total, overflow and length move together; that the test against storing an offset twice never decides needs the order of the two passes: what the global scan has stored lies behind it |
| `!WindowsHold` | each record stored carries a window clamped about its source |
| `CodePatch_proofs!TypeCorrect` | needs that `count` is a function of `i` (`LibOf`), or `libs` could be read outside |
| `!CallsArriveHolds` | the stubs passed by the loop are resolved, each in its own library, but for those whose NID is missing or a placeholder; the NID is kept only with the stub resolved, hence the hook is written only then; and the import's three copies at each step of `api_hook_import` |
| `!InitPatchedHolds` | for the loads that `InitPatched` does not except: the two lines of the init from load to run: after the patch a data access finds the new words, after `ClearCaches` a fetch does, whatever is evicted or fetched by others |
| `ConfigFile_proofs!TypeCorrect` | positions stay inside the file they belong to, and the files that a loop reads and writes exist |
| `!WrittenIsRead` | of the operators alone: the reader's steps (blanks, comment, quotation marks, escapes) undo the writer's, token by token |
| `!RescueCopyHolds` | assumes `Careful`; the invariant `PutInv`, below |
| `!KeepsStoreHolds` | the same; initial states map, and under `PutInv` each action is a step of `ConfigStore` or a stutter |

The conjunct that each proof rests on is stated and explained in its module.
The invariants were checked by TLC before they were proved.

**The rewriting of the file.** What a reader finds in the temporary file after each
step cannot be said of the two files alone: half a line is no line. `PutInv` therefore
speaks of a *draft*, what the temporary file holds with the pieces that are still to be
written, or, on a full card, what it would have held. In each loop a reader cannot tell
the draft from the part of the file that has been read (`Past`, `Same`), but for the
entry that is put, once it is (`Progress`); after a failed read the file is replaced by
what such a part holds. That this survives a line rests on what a
single line does to a reader: `Effect` says which section is open after it and which
keys it gives, whatever comes before, and lines whose effects agree, as a line and its
copy do, keep files alike. Where the card ends a piece in the middle, the cut file is a
beginning of the draft, and lacks entries of it or cuts the last one, which is what
`ConfigStore` admits.

`Careful` says what is assumed: at most one crash, failed read or full card (`MaxFaults`), none with
a file that lacks the end of its last line (`FragileFiles`), and values of one line that
do not begin with a blank unless they are quoted (`Putable`). The run `ConfigFile` makes
the same assumptions, and none of them can be dropped. `ConfigTail` shows what one fault
does to a file whose last line has no end. With `MaxFaults = 2` TLC finds `RescueCopy`
violated: a full card leaves a line without its end, then a put is cut off, and the
tail that it leaves in the temporary file is joined to that line by the put after it.
`zeroCtrlSetSlideConfig` writes any value it is given, and one that begins with a blank
but needs no quotes is written bare: the reader skips the blank.

**Assumptions on constants** are named in the modules and evaluated by TLC. They say that
model values differ (`NoStub` is no stub, no token of a file has two kinds), what
ranges sizes have, and that no instruction of a text loads a constant into the register
that stays zero (`ModulesAssumption`). A descriptor lists as many NIDs as stubs: both
arrays have its one count (`Entry`).

**Recursion and counting.** Recursive definitions are functions. That such a function
exists is proved by extending it one argument at a time (`ForwardFunction` and its kin
in `ConfigFile_proofs`), and what it computes by the least argument at which it
would fail (`NatLemmas`). A count is related to a cardinality by adding one element at a time.

**Only model-checked** is liveness: `RequestsComplete`, `WriterEnds`, `ComesUp`,
`StartsReturn`, `ReadersEnd`, `PutsReturn`. Every other property of a passing run is
stated by a theorem.

## Not modelled

Registry value `slide_welcome` (one write whose result is ignored), the contrast
table and the clock's local-time hook (no state), build tools, headers and
stubs. `StartBtn` lists buttons
in `bin/zerovsh.ini` that `ALL_CTRL` (`main.c:1706-1710`) masks out, so that they
never match; that needs no run to be seen.

Of minIni: requests to erase, `ini_getsection`, `ini_getkey`, `ini_getbool`,
`ini_getf`, `ini_putl` and `ini_putf`, which nothing in the repository
calls; lines longer than its buffer of 512 bytes; names of sections and keys are whole
tokens, so that case and prefixes play no part. A remove, a rename or an open for
reading fails in the model only by a crash, and a crash ends the put: that the card is
pulled out and put back while the thread runs on is not modelled. In the code an open for
reading that fails leads to the branch for a missing file, which then writes over the
beginning of the old one (`minIni.c:535-543`); a remove or a rename that fails leaves the old
file, or none, and the put returns 1.

Of the patches: those of `vsh_module` and `sysconf_plugin_module`, which
`zeroCtrlRedir2Stub` makes in the same way; the syscall form of an import hook
(`hook.c:148-163`), which the kernel handler uses on the slide plugin; and a kernel
handler newer than the user's, where no `ClearCaches` follows the patch
(`HandlerChain` shows which orders occur). `CodePatch` takes the patched words of the
init for one line, and a store of two words for one step.

## Plan

Done: `SlideControl`, `SlideDiag`, `Redirect` with `Overlay`, `HandlerChain`,
`VshScan` with `ImportTable`, `CodePatch`, `ConfigFile` with `ConfigStore`, and a theorem
for every safety property that a run checks. To come, in order of weight:

1. `ConfigFile`: without `Careful`, the weaker promise that does hold, namely that a crash
   before `Remove` leaves the file as it was, whatever came before.
2. `StartSnapshotWhole` for more than one load, with the window that a second load opens
   stated as an exception.
3. `CodePatch` with the handlers in either order, and with the hooks of the slide
   plugin's imports.
4. `VshScan`: the fixed windows and the segment test with the writer's late read of
   the global.
5. The helper thread against the start of VSH.
