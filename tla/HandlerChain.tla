---------------------------- MODULE HandlerChain ----------------------------
(***************************************************************************)
(* How ZeroVSH Patcher comes up, and how it sees modules start             *)
(* (kernel/main.c, user/main.c).                                           *)
(*                                                                         *)
(* Three kinds of threads run at once:                                     *)
(*   - the boot, in the kernel module_start, which creates the other       *)
(*     threads of the plugin and installs the kernel OnModuleStart;        *)
(*   - the helper thread, zeroctrl_umod, which waits for sceKernelLibrary  *)
(*     and loads and starts the embedded user module, whose module_start   *)
(*     installs the user OnModuleStart;                                    *)
(*   - starters, the threads of the firmware that start modules: each runs *)
(*     the handlers, from the newest, every one calling its `previous`.    *)
(*                                                                         *)
(* sctrlHENSetStartModuleHandler (external) swaps the head of the chain    *)
(* and returns the old one; the caller stores it in `previous` only        *)
(* afterwards, in a step of its own.                                       *)
(***************************************************************************)
EXTENDS Integers, Sequences

CONSTANTS
    Starters,       \* threads that start modules
    Configs         \* hardware and configuration files

None == "none"

Firmwares == {"5.xx", "6.0x", "6.20", "6.61"}

\* model: 0 is the PSP-1000, 4 the Go; slide: ClockAndCalendar is "Enabled";
\* experiment: PSP1000SlidePlugin is; prior: SystemControl has a handler already.
Config == [model : {0, 1, 4}, devkit : Firmwares, slide : BOOLEAN,
           experiment : BOOLEAN, prior : {"cfw", None}]

ASSUME ConfigsAssumption == Configs \subseteq Config

VARIABLES
    config,         \* read once, at boot
    head,           \* the handler SystemControl calls
    previous,       \* `previous` of the kernel and of the user module
    old,            \* the result of the swap, before it is stored
    installed,      \* history: the handlers swapped in, newest first
    bpc,            \* where the boot is
    hpc,            \* where the helper thread is
    library,        \* sceKernelLibrary is found
    userModule,     \* the embedded user module
    threads,        \* the other threads that were started
    at,             \* the handler each starter is in or calls next
    called,         \* that handler has done its own work
    module,         \* the module each starter starts
    effects,        \* what the handlers have done for it
    dirty,          \* code was written after the last ClearCaches
    ran,            \* history: the handlers run for it
    chain,          \* history: `installed` when the start began
    stored          \* history: every `previous` was stored when it began

chainVars == <<head, previous, old, installed>>
bootVars  == <<config, bpc, threads>>
helper    == <<hpc, library, userModule>>
starts    == <<at, called, module, effects, dirty, ran, chain, stored>>
vars      == <<chainVars, bootVars, helper, starts>>

Modules == {"vsh_module", "sysconf_plugin_module", "slide_plugin_module", "other"}

Handlers == {"kernel", "user", "cfw"}

\* slide_diag.armed, which the exported predicate reports.
Armed == config.model = 0 /\ config.experiment /\ ~config.slide

\* The kernel handler serves the clock.
ClockOn == config.model \notin {0, 4} /\ config.devkit # "5.xx" /\ config.slide

\* The user handler knows where to patch VSH and its plugins.
Offsets == config.devkit \in {"6.20", "6.61"}

Effects == {"captureStart", "hookImports", "recordVsh", "slideCheck", "sysconfItem",
            "formatPrompt", "localTime", "initEntry"}

\* A swap whose result is not stored yet.
InWindow == bpc = "store" \/ hpc = "store"

TypeOK ==
    /\ config \in Configs
    /\ head \in Handlers \cup {None}
    /\ previous \in [{"kernel", "user"} -> Handlers \cup {None}]
    /\ old \in [{"kernel", "user"} -> Handlers \cup {None}]
    /\ installed \in Seq(Handlers)
    /\ bpc \in {"diag", "patch", "buttons", "swap", "store", "done"}
    /\ hpc \in {None, "wait", "load", "start", "swap", "store", "unload", "ended"}
    /\ library \in BOOLEAN
    /\ userModule \in {"absent", "loaded", "started", "unloaded"}
    /\ threads \subseteq {"diag", "buttons"}
    /\ at \in [Starters -> Handlers \cup {"idle", None}]
    /\ called \in [Starters -> BOOLEAN]
    /\ module \in [Starters -> Modules]
    /\ effects \in [Starters -> SUBSET Effects]
    /\ dirty \in [Starters -> BOOLEAN]
    /\ ran \in [Starters -> Seq(Handlers)]
    /\ chain \in [Starters -> Seq(Handlers)]
    /\ stored \in [Starters -> BOOLEAN]

Init ==
    /\ config \in Configs
    /\ head = config.prior
    /\ previous = [h \in {"kernel", "user"} |-> None]
    /\ old = previous
    /\ installed = IF head = None THEN <<>> ELSE <<head>>
    /\ bpc = "diag" /\ threads = {}
    /\ hpc = None /\ library = FALSE /\ userModule = "absent"
    /\ at = [t \in Starters |-> "idle"]
    /\ called = [t \in Starters |-> FALSE]
    /\ module = [t \in Starters |-> "other"]
    /\ effects = [t \in Starters |-> {}]
    /\ dirty = [t \in Starters |-> FALSE]
    /\ ran = [t \in Starters |-> <<>>]
    /\ chain = ran
    /\ stored = called

-----------------------------------------------------------------------------
(* sctrlHENSetStartModuleHandler (external), and the store of its result.   *)

\* Mutant: the new handler is returned, not the old one.
SwapReturnsNew(h) ==
    /\ old' = [old EXCEPT ![h] = h]
    /\ head' = h
    /\ installed' = <<h>> \o installed
    /\ UNCHANGED previous

Swap(h) ==
    /\ old' = [old EXCEPT ![h] = head]
    /\ head' = h
    /\ installed' = <<h>> \o installed
    /\ UNCHANGED previous

Store(h) ==
    /\ previous' = [previous EXCEPT ![h] = old[h]]
    /\ UNCHANGED <<head, old, installed>>

-----------------------------------------------------------------------------
(* The kernel module_start, after the configuration and the hooks.          *)

BGoto(from, to) == bpc = from /\ bpc' = to

\* The diagnostic thread, when armed: create or start may fail.
CreateSlideDiagnosticsThread ==
    /\ BGoto("diag", "patch")
    /\ \/ Armed /\ threads' = threads \cup {"diag"}
       \/ UNCHANGED threads
    /\ UNCHANGED <<config, chainVars, helper, starts>>

\* The helper thread; when create or start fails, the boot goes on without it.
CreatePatchThread ==
    /\ BGoto("patch", IF ClockOn THEN "buttons" ELSE IF Armed THEN "swap" ELSE "done")
    /\ hpc' \in {"wait", "ended"}
    /\ UNCHANGED <<config, threads, chainVars, library, userModule, starts>>

\* Mutant: the boot is given up without the button thread.
CreateBtnThreadOrFail ==
    /\ \/ BGoto("buttons", "swap") /\ threads' = threads \cup {"buttons"}
       \/ BGoto("buttons", "failed") /\ UNCHANGED threads
    /\ UNCHANGED <<config, chainVars, helper, starts>>

CreateBtnThread ==
    /\ BGoto("buttons", "swap")
    /\ \/ threads' = threads \cup {"buttons"}
       \/ UNCHANGED threads
    /\ UNCHANGED <<config, chainVars, helper, starts>>

SetKernelHandler ==
    /\ BGoto("swap", "store")
    /\ Swap("kernel")
    /\ UNCHANGED <<config, threads, helper, starts>>

\* Mutant: the result of the swap is dropped.
DropKernelPrevious ==
    /\ BGoto("store", "done")
    /\ UNCHANGED <<config, threads, chainVars, helper, starts>>

StoreKernelPrevious ==
    /\ BGoto("store", "done")
    /\ Store("kernel")
    /\ UNCHANGED <<config, threads, helper, starts>>

Boot == \/ CreateSlideDiagnosticsThread \/ CreatePatchThread \/ CreateBtnThread
        \/ SetKernelHandler \/ StoreKernelPrevious

-----------------------------------------------------------------------------
(* zeroCtrlLoadStartModule, and the user module_start it runs.              *)

HGoto(from, to) == hpc = from /\ hpc' = to

\* The firmware starts sceKernelLibrary.
StartLibrary ==
    /\ ~library
    /\ library' = TRUE
    /\ UNCHANGED <<chainVars, bootVars, hpc, userModule, starts>>

FindLibrary ==
    /\ library
    /\ HGoto("wait", "load")
    /\ UNCHANGED <<chainVars, bootVars, library, userModule, starts>>

\* Mutant: a failed load is tried again.
LoadModuleAgain ==
    /\ \/ HGoto("load", "start") /\ userModule' = "loaded"
       \/ HGoto("load", "wait") /\ UNCHANGED userModule
    /\ UNCHANGED <<chainVars, bootVars, library, starts>>

LoadModule ==
    /\ \/ HGoto("load", "start") /\ userModule' = "loaded"
       \/ HGoto("load", "ended") /\ UNCHANGED userModule
    /\ UNCHANGED <<chainVars, bootVars, library, starts>>

\* sceKernelStartModule runs the user module_start, or fails before it.
StartModule ==
    /\ HGoto("start", "swap") \/ HGoto("start", "unload")
    /\ UNCHANGED <<chainVars, bootVars, library, userModule, starts>>

SetUserHandler ==
    /\ HGoto("swap", "store")
    /\ Swap("user")
    /\ UNCHANGED <<bootVars, library, userModule, starts>>

\* Mutant: the module is unloaded also when its start succeeded.
StoreThenUnload ==
    /\ HGoto("store", "unload")
    /\ userModule' = "started"
    /\ Store("user")
    /\ UNCHANGED <<bootVars, library, starts>>

StoreUserPrevious ==
    /\ HGoto("store", "ended")
    /\ userModule' = "started"
    /\ Store("user")
    /\ UNCHANGED <<bootVars, library, starts>>

UnloadModule ==
    /\ HGoto("unload", "ended")
    /\ userModule' = "unloaded"
    /\ UNCHANGED <<chainVars, bootVars, library, starts>>

Helper == \/ FindLibrary \/ LoadModule \/ StartModule \/ SetUserHandler
          \/ StoreUserPrevious \/ UnloadModule

-----------------------------------------------------------------------------
(* The start of a module.                                                   *)

\* SystemControl calls the head of the chain.
BeginStart(t) ==
    /\ at[t] = "idle"
    /\ \E m \in Modules : module' = [module EXCEPT ![t] = m]
    /\ at' = [at EXCEPT ![t] = head]
    /\ effects' = [effects EXCEPT ![t] = {}]
    /\ dirty' = [dirty EXCEPT ![t] = FALSE]
    /\ ran' = [ran EXCEPT ![t] = <<>>]
    /\ chain' = [chain EXCEPT ![t] = installed]
    /\ stored' = [stored EXCEPT ![t] = ~InWindow]
    /\ UNCHANGED <<chainVars, bootVars, helper, called>>

When(condition, set) == IF condition THEN set ELSE {}

\* A handler's own work, before it chains.
Handle(t, h, done, flushed, wrote) ==
    /\ at[t] = h /\ ~called[t]
    /\ called' = [called EXCEPT ![t] = TRUE]
    /\ effects' = [effects EXCEPT ![t] = @ \cup done]
    /\ dirty' = [dirty EXCEPT ![t] = wrote \/ (@ /\ ~flushed)]
    /\ ran' = [ran EXCEPT ![t] = Append(@, h)]
    /\ UNCHANGED <<chainVars, bootVars, helper, at, module, chain, stored>>

\* Mutant: no early return for the armed experiment.
KernelAlwaysHooks(t) ==
    Handle(t, "kernel", When(module[t] = "slide_plugin_module", {"hookImports"}), TRUE, FALSE)

\* Mutant: no ClearCaches.
KernelNeverFlushes(t) ==
    LET slide == module[t] = "slide_plugin_module"
    IN  Handle(t, "kernel", IF Armed THEN When(slide, {"captureStart"})
                            ELSE When(slide, {"hookImports"}), FALSE, FALSE)

\* The kernel OnModuleStart: a capture for the armed experiment; otherwise the
\* import hooks of the clock, and ClearCaches.
KernelOnModuleStart(t) ==
    LET slide == module[t] = "slide_plugin_module"
    IN  IF Armed /\ slide
        THEN Handle(t, "kernel", {"captureStart"}, FALSE, FALSE)
        ELSE Handle(t, "kernel", When(slide, {"hookImports"}), TRUE, FALSE)

\* What the user OnModuleStart writes into the code of a module.
UserPatches(m) ==
    LET onVsh == config.model \notin {0, 4} /\ ~Armed
    IN  When(onVsh /\ m = "vsh_module" /\ Offsets, {"slideCheck"})
        \cup When(onVsh /\ m = "sysconf_plugin_module" /\ Offsets, {"sysconfItem"})
        \cup When(onVsh /\ m = "sysconf_plugin_module", {"formatPrompt"})
        \cup When(~Armed /\ m = "slide_plugin_module", {"localTime", "initEntry"})

\* The user OnModuleStart.  zeroCtrlRecordVshSlideTarget synchronises the one
\* word it may write by itself.
UserOnModuleStart(t) ==
    LET patches  == UserPatches(module[t])
        recorded == When(Armed /\ module[t] = "vsh_module" /\ config.devkit = "6.61",
                         {"recordVsh"})
    IN  Handle(t, "user", recorded \cup patches, FALSE, patches # {})

\* The handler of the custom firmware (external), which calls no other of ours.
CfwOnModuleStart(t) == Handle(t, "cfw", {}, FALSE, FALSE)

\* Mutant: a NULL `previous` is called.
ChainNull(t) ==
    /\ at[t] \in Handlers /\ called[t]
    /\ LET next == IF at[t] = "cfw" THEN None ELSE previous[at[t]]
       IN  IF next = None THEN UNCHANGED <<at, called>>
           ELSE /\ at' = [at EXCEPT ![t] = next]
                /\ called' = [called EXCEPT ![t] = FALSE]
    /\ UNCHANGED <<chainVars, bootVars, helper, module, effects, dirty, ran, chain, stored>>

\* return previous ? previous(mod) : 0
Chain(t) ==
    /\ at[t] \in Handlers /\ called[t]
    /\ at' = [at EXCEPT ![t] = IF at[t] = "cfw" THEN None ELSE previous[at[t]]]
    /\ called' = [called EXCEPT ![t] = FALSE]
    /\ UNCHANGED <<chainVars, bootVars, helper, module, effects, dirty, ran, chain, stored>>

\* Every handler has returned: the module starts.
EndStart(t) ==
    /\ at[t] = None
    /\ at' = [at EXCEPT ![t] = "idle"]
    /\ UNCHANGED <<chainVars, bootVars, helper, called, module, effects, dirty, ran,
                   chain, stored>>

Start(t) == \/ BeginStart(t)
            \/ KernelOnModuleStart(t) \/ UserOnModuleStart(t) \/ CfwOnModuleStart(t)
            \/ Chain(t) \/ EndStart(t)

Next == Boot \/ StartLibrary \/ Helper \/ \E t \in Starters : Start(t)

Spec == Init /\ [][Next]_vars

\* Every thread runs on, and the firmware does start its library; that it goes
\* on starting modules is not assumed.
FairSpec ==
    /\ Spec
    /\ WF_vars(Boot) /\ WF_vars(StartLibrary) /\ WF_vars(Helper)
    /\ \A t \in Starters : WF_vars(at[t] # "idle" /\ Start(t))

-----------------------------------------------------------------------------
(* Properties.                                                              *)

\* The handlers have all returned for the start of t.
Returned(t) == at[t] = None

\* A start that began outside an installation runs every handler installed
\* then, once, from the newest to the oldest, even if others are installed
\* while it runs (kernel/main.c:1511, 1855, 1861; user/main.c:191, 198).
WholeChainRuns == \A t \in Starters : Returned(t) /\ stored[t] => ran[t] = chain[t]

\* No handler runs twice for one start, at whatever moment of an installation
\* it begins: a second zeroCtrlRedir2Stub would make the stub jump to itself
\* (kernel/main.c:1511, user/main.c:98-106, 191).
NoHandlerTwice ==
    \A t \in Starters : \A i, j \in DOMAIN ran[t] : ran[t][i] = ran[t][j] => i = j

\* No handler of an unloaded user module can be reached (kernel/main.c:1556-1558).
NoDanglingHandler ==
    "user" \in {head, previous["kernel"]} \/ (\E t \in Starters : at[t] = "user") =>
        userModule \in {"loaded", "started"} /\ hpc # "unload"

\* With both handlers in place, the clock's changes to slide_plugin are made
\* all, and for the armed experiment none of them (kernel/main.c:1488-1508,
\* user/main.c:186-189).
SlidePluginAllOrNone ==
    \A t \in Starters :
        LET clock == effects[t] \cap {"hookImports", "localTime", "initEntry"}
            handlers == {chain[t][i] : i \in DOMAIN chain[t]}
        IN  Returned(t) /\ stored[t] /\ {"kernel", "user"} \subseteq handlers
            /\ module[t] = "slide_plugin_module"
            => IF Armed THEN clock = {} /\ "captureStart" \in effects[t]
               ELSE clock = {"hookImports", "localTime", "initEntry"}

\* When the user handler is the newer of the two, the kernel handler's
\* ClearCaches covers what the user handler wrote (kernel/main.c:1510,
\* user/main.c:98-106, 191).
PatchesFlushed ==
    \A t \in Starters :
        Returned(t) /\ stored[t] /\ Len(chain[t]) > 1 /\ chain[t][1] = "user"
        /\ chain[t][2] = "kernel" => ~dirty[t]

\* The plugin comes up: the boot and the helper thread both end, with the user
\* module started, unloaded again, or never loaded (kernel/main.c:1522-1563).
ComesUp ==
    <>[](bpc = "done" /\ hpc = "ended" /\ userModule # "loaded")

\* The start of a module always comes out of the handlers (kernel/main.c:1511,
\* user/main.c:191).
StartsReturn == \A t \in Starters : at[t] # "idle" ~> at[t] = "idle"

\* The prior handler is chained at every start.
PriorAlwaysRuns ==
    \A t \in Starters : Returned(t) /\ config.prior = "cfw" =>
        \E i \in DOMAIN ran[t] : ran[t][i] = "cfw"
=============================================================================
