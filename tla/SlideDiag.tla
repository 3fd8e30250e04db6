------------------------------ MODULE SlideDiag ------------------------------
(***************************************************************************)
(* The PSP-1000 SlidePlugin diagnostics of ZeroVSH Patcher                 *)
(* (kernel/main.c): two threads that share the fixed structure slide_diag  *)
(* without a lock.                                                         *)
(*                                                                         *)
(* The loader is the thread that, for VSH, opens, probes and starts        *)
(* modules; in its context run the hooked IoOpen, zeroCtrlModuleProbe, the *)
(* kernel OnModuleStart and, for vsh_module, the user OnModuleStart, which *)
(* calls zeroCtrlRecordVshSlideTarget.  It only mutates slide_diag.  It    *)
(* may stop for ever at any step: the console under diagnosis freezes.     *)
(*                                                                         *)
(* The writer is zeroctrl_slide_diag: it polls the flags, persists a line  *)
(* for each new one, and then a report.  Every flag it reads is read in a  *)
(* step of its own, in the order of the code, but for the two whose events *)
(* open the report.                                                        *)
(*                                                                         *)
(* A snapshot and the VSH record are written in parts, and each part holds *)
(* the number of the load (or of the start of vsh_module) that wrote it,   *)
(* which is what the properties tell apart.  The five module_start_*       *)
(* milestones are left out: no code sets them.                             *)
(***************************************************************************)
EXTENDS Integers, Sequences

CONSTANTS
    MaxLoads,       \* bound: how often slide_plugin is loaded
    MaxVshStarts,   \* bound: how often vsh_module is started
    ProbePolls,     \* the 3000000 us of the first wait, in polls
    StartPolls,     \* the 2000000 us of the second wait, in polls
    Results,        \* results of sceKernelProbeExecutableObject
    Selective       \* selective_58d4_enabled

ASSUME DiagAssumption ==
    /\ MaxLoads \in Nat
    /\ MaxVshStarts \in Nat
    /\ ProbePolls \in Nat
    /\ StartPolls \in Nat
    /\ Results \subseteq Int
    /\ Selective \in BOOLEAN

VARIABLES
    flags,          \* the volatile flags of slide_diag
    at_probe,       \* the two parts of a partition snapshot
    pre_start,
    module,         \* the copy of the SceModule2
    probe_result,
    vsh,            \* the vsh_* and selective_58d4_* fields
    lpc,            \* where the loader is
    loads,          \* loads begun
    vshStarts,      \* starts of vsh_module begun
    probeResults,   \* history: the results probes have returned
    wpc,            \* where the writer is
    step,           \* the step of the writer's current scan or evidence
    waited,         \* polls of the current wait
    written,        \* checkpoints already persisted
    log,            \* the lines persisted
    delayed,        \* in which branch delayed_or_timeout was captured
    evidence,       \* what the writer persisted of the VSH record
    snapshots       \* what it persisted of at_probe, pre_start and module

flagged    == <<flags>>
captured   == <<at_probe, pre_start, module, probe_result, vsh>>
loader     == <<lpc, loads, vshStarts, probeResults>>
writer     == <<wpc, step, waited, written, log, delayed, evidence, snapshots>>
vars       == <<flagged, captured, loader, writer>>

-----------------------------------------------------------------------------

\* The order in which zeroCtrlWriteSlideCheckpoints tests the flags.
Checkpoints == <<"vsh", "request", "rco", "probeEntered", "probeReturning",
                 "startEntered", "previousReturned", "startReturning">>

CheckpointNames == {Checkpoints[i] : i \in DOMAIN Checkpoints}

Flags == CheckpointNames \cup {"sawProbe", "sawStart"}

Events == {"alive", "state", "probeNotSeen", "requestSeen", "rcoSeen", "probeSeen",
           "probeResult", "startSeen", "startNotSeen", "delayedSnapshot", "timeoutSnapshot"}

Snapshot == (0..MaxLoads) \X (0..MaxLoads)

\* identity: the start that wrote the addresses; code: the one that wrote the
\* captured windows and references, 0 when vsh_code_capture_result is -1.
VshRecord == [identity : 0..MaxVshStarts, code : 0..MaxVshStarts,
              patch : {"none", "applied", "synced"}]

LoaderSteps == {"idle", "probe", "probeEntered", "probeHalf", "probeCaptured", "probing",
                "probeResult", "probed", "start", "startHalf", "startCaptured", "startCopied",
                "startPrevious", "startReturning", "loaded",
                "vshIdentity", "vshCode", "vshPatch", "vshSync", "vshSeen"}

Scans == {"probeScan", "probeLast", "startScan", "startLast"}

Evidences == {"timeoutEvidence", "reportEvidence"}

WriterSteps == Scans \cup Evidences \cup
               {"none", "begin", "probeWait", "probeSleep", "testProbe", "state", "notSeen",
                "startWait", "startSleep", "testStart", "delay", "timeoutCapture", "events",
                "result", "probeSnapshot", "probeSnapshotEnd", "testLabel", "startSnapshot",
                "startSnapshotEnd", "startModule", "label", "exited"}

Line(what, value) == [what |-> what, value |-> value]

Logged(what) == \E i \in DOMAIN log : log[i].what = what

LoaderTypeOK ==
    /\ flags \in [Flags -> BOOLEAN]
    /\ at_probe \in Snapshot
    /\ pre_start \in Snapshot
    /\ module \in 0..MaxLoads
    /\ probe_result \in Int
    /\ vsh \in VshRecord
    /\ lpc \in LoaderSteps
    /\ loads \in 0..MaxLoads
    /\ vshStarts \in 0..MaxVshStarts
    /\ probeResults \subseteq Results

WriterTypeOK ==
    /\ wpc \in WriterSteps
    /\ step \in 1..(Len(Checkpoints) + 1)
    /\ waited \in Nat
    /\ written \subseteq CheckpointNames
    /\ delayed \in {"none", "delayed", "timeout"}
    /\ evidence \in VshRecord
    /\ snapshots \in [at_probe : Snapshot, pre_start : Snapshot, module : 0..MaxLoads]

Lines == [what : CheckpointNames \cup Events, value : Int]

TypeOK == LoaderTypeOK /\ WriterTypeOK /\ log \in Seq(Lines)

Init ==
    /\ flags = [f \in Flags |-> FALSE]
    /\ at_probe = <<0, 0>> /\ pre_start = <<0, 0>> /\ module = 0
    /\ probe_result = 0
    /\ vsh = [identity |-> 0, code |-> 0, patch |-> "none"]
    /\ lpc = "idle" /\ loads = 0 /\ vshStarts = 0 /\ probeResults = {}
    /\ wpc = "none" /\ step = 1 /\ waited = 0 /\ written = {} /\ log = <<>>
    /\ delayed = "none"
    /\ evidence = vsh
    /\ snapshots = [at_probe |-> <<0, 0>>, pre_start |-> <<0, 0>>, module |-> 0]

Raise(f) == flags' = [flags EXCEPT ![f] = TRUE]

LGoto(from, to) == lpc = from /\ lpc' = to

-----------------------------------------------------------------------------
(* The hooked IoOpen of the flash driver.                                   *)

\* Opening slide_plugin.prx begins a load.
OpenPrx ==
    /\ loads < MaxLoads
    /\ lpc \in {"idle", "probed", "loaded"}
    /\ lpc' = "probe"
    /\ loads' = loads + 1
    /\ Raise("request")
    /\ UNCHANGED <<captured, vshStarts, probeResults, writer>>

\* Opening slide_plugin.rco, between any two other operations of the loader.
OpenRco ==
    /\ lpc \in {"idle", "probe", "probed", "loaded"}
    /\ ~flags["rco"]
    /\ Raise("rco")
    /\ UNCHANGED <<captured, loader, writer>>

-----------------------------------------------------------------------------
(* zeroCtrlModuleProbe, for slide_plugin_module.                            *)

\* Mutant: every probe is captured.
ProbeEnterAlways ==
    /\ LGoto("probe", "probeEntered")
    /\ Raise("probeEntered")
    /\ UNCHANGED <<captured, loads, vshStarts, probeResults, writer>>

\* Only the first probe is captured.
ProbeEnter ==
    \/ /\ ~flags["sawProbe"]
       /\ LGoto("probe", "probeEntered")
       /\ Raise("probeEntered")
       /\ UNCHANGED <<captured, loads, vshStarts, probeResults, writer>>
    \/ /\ flags["sawProbe"]
       /\ LGoto("probe", "probing")
       /\ UNCHANGED <<flagged, captured, loads, vshStarts, probeResults, writer>>

\* zeroCtrlDiagnosticsCapturePartitions(&slide_diag.at_probe), in two parts.
ProbeCapture ==
    /\ \/ LGoto("probeEntered", "probeHalf") /\ at_probe' = <<loads, at_probe[2]>>
       \/ LGoto("probeHalf", "probeCaptured") /\ at_probe' = <<at_probe[1], loads>>
    /\ UNCHANGED <<flagged, pre_start, module, probe_result, vsh,
                   loads, vshStarts, probeResults, writer>>

\* Mutant: the milestone of the return is published before the call.
SawProbeReturning ==
    /\ LGoto("probeCaptured", "probing")
    /\ flags' = [flags EXCEPT !["sawProbe"] = TRUE, !["probeReturning"] = TRUE]
    /\ UNCHANGED <<captured, loads, vshStarts, probeResults, writer>>

SawProbe ==
    /\ LGoto("probeCaptured", "probing")
    /\ Raise("sawProbe")
    /\ UNCHANGED <<captured, loads, vshStarts, probeResults, writer>>

\* sceKernelProbeExecutableObject returns, and its result is retained.
ProbeResult(r) ==
    /\ LGoto("probing", "probeResult")
    /\ probe_result' = r
    /\ probeResults' = probeResults \cup {r}
    /\ UNCHANGED <<flagged, at_probe, pre_start, module, vsh, loads, vshStarts, writer>>

ProbeReturning ==
    /\ LGoto("probeResult", "probed")
    /\ Raise("probeReturning")
    /\ UNCHANGED <<captured, loads, vshStarts, probeResults, writer>>

Probe ==
    \/ ProbeEnter \/ ProbeCapture \/ SawProbe \/ ProbeReturning
    \/ \E r \in Results : ProbeResult(r)

-----------------------------------------------------------------------------
(* The kernel OnModuleStart, for slide_plugin_module.                       *)

\* Mutant: saw_start is published on entry.
StartEnterSeen ==
    /\ LGoto("probed", "start")
    /\ flags' = [flags EXCEPT !["startEntered"] = TRUE, !["sawStart"] = TRUE]
    /\ UNCHANGED <<captured, loads, vshStarts, probeResults, writer>>

StartEnter ==
    /\ LGoto("probed", "start")
    /\ Raise("startEntered")
    /\ UNCHANGED <<captured, loads, vshStarts, probeResults, writer>>

StartCapture ==
    /\ \/ LGoto("start", "startHalf") /\ pre_start' = <<loads, pre_start[2]>>
       \/ LGoto("startHalf", "startCaptured") /\ pre_start' = <<pre_start[1], loads>>
    /\ UNCHANGED <<flagged, at_probe, module, probe_result, vsh,
                   loads, vshStarts, probeResults, writer>>

StartCopy ==
    /\ LGoto("startCaptured", "startCopied")
    /\ module' = loads
    /\ UNCHANGED <<flagged, at_probe, pre_start, probe_result, vsh,
                   loads, vshStarts, probeResults, writer>>

\* The prior handler runs and returns.
PreviousReturned ==
    /\ LGoto("startCopied", "startPrevious")
    /\ Raise("previousReturned")
    /\ UNCHANGED <<captured, loads, vshStarts, probeResults, writer>>

StartReturning ==
    /\ LGoto("startPrevious", "startReturning")
    /\ Raise("startReturning")
    /\ UNCHANGED <<captured, loads, vshStarts, probeResults, writer>>

SawStart ==
    /\ LGoto("startReturning", "loaded")
    /\ Raise("sawStart")
    /\ UNCHANGED <<captured, loads, vshStarts, probeResults, writer>>

Start == StartEnter \/ StartCapture \/ StartCopy \/ PreviousReturned \/ StartReturning \/ SawStart

-----------------------------------------------------------------------------
(* zeroCtrlRecordVshSlideTarget, for vsh_module.                            *)

\* Mutant: every start of vsh_module is recorded.
VshStartAlways ==
    /\ lpc = "idle" /\ loads = 0
    /\ vshStarts < MaxVshStarts
    /\ vshStarts' = vshStarts + 1
    /\ lpc' = "vshIdentity"
    /\ UNCHANGED <<flagged, captured, loads, probeResults, writer>>

VshStart ==
    /\ lpc = "idle" /\ loads = 0
    /\ vshStarts < MaxVshStarts
    /\ vshStarts' = vshStarts + 1
    /\ lpc' = IF flags["vsh"] THEN "idle" ELSE "vshIdentity"
    /\ UNCHANGED <<flagged, captured, loads, probeResults, writer>>

\* The addresses, and a capture result of -1.
RecordIdentity ==
    /\ LGoto("vshIdentity", "vshCode")
    /\ vsh' = [identity |-> vshStarts, code |-> 0, patch |-> vsh.patch]
    /\ UNCHANGED <<flagged, at_probe, pre_start, module, probe_result,
                   loads, vshStarts, probeResults, writer>>

\* The windows and the scans, when the target lies in the text.
RecordCode ==
    /\ \/ LGoto("vshCode", "vshSeen") /\ UNCHANGED vsh
       \/ /\ LGoto("vshCode", "vshPatch")
          /\ vsh' = [vsh EXCEPT !.code = vshStarts]
    /\ UNCHANGED <<flagged, at_probe, pre_start, module, probe_result,
                   loads, vshStarts, probeResults, writer>>

\* The one selective call site, when it decodes to the expected call.
PatchCallsite ==
    /\ \/ LGoto("vshPatch", "vshSeen") /\ UNCHANGED vsh
       \/ /\ Selective
          /\ LGoto("vshPatch", "vshSync")
          /\ vsh' = [vsh EXCEPT !.patch = "applied"]
    /\ UNCHANGED <<flagged, at_probe, pre_start, module, probe_result,
                   loads, vshStarts, probeResults, writer>>

SyncCallsite ==
    /\ LGoto("vshSync", "vshSeen")
    /\ vsh' = [vsh EXCEPT !.patch = "synced"]
    /\ UNCHANGED <<flagged, at_probe, pre_start, module, probe_result,
                   loads, vshStarts, probeResults, writer>>

VshSeen ==
    /\ LGoto("vshSeen", "idle")
    /\ Raise("vsh")
    /\ UNCHANGED <<captured, loads, vshStarts, probeResults, writer>>

RecordVsh == VshStart \/ RecordIdentity \/ RecordCode \/ PatchCallsite \/ SyncCallsite \/ VshSeen

Loader == OpenPrx \/ OpenRco \/ Probe \/ Start \/ RecordVsh

-----------------------------------------------------------------------------
(* zeroctrl_slide_diag: zeroCtrlWriteSlideDiagnostics.                      *)

WGoto(from, to) == wpc = from /\ wpc' = to

Persist(line) == log' = Append(log, line)

\* zeroCtrlCreateSlideDiagnosticsThread; the thread may not come into being.
CreateThread ==
    /\ \/ WGoto("none", "begin") \/ WGoto("none", "exited")
    /\ UNCHANGED <<flagged, captured, loader, step, waited, written, log, delayed,
                   evidence, snapshots>>

Begin ==
    /\ WGoto("begin", "probeWait")
    /\ Persist(Line("alive", 0))
    /\ UNCHANGED <<flagged, captured, loader, step, waited, written, delayed,
                   evidence, snapshots>>

\* What follows each of the four scans.
AfterScan == [probeScan |-> "probeSleep", probeLast |-> "testProbe",
              startScan |-> "startSleep", startLast |-> "testStart"]

\* Mutant: no scan follows the end of a wait.
TestWaitNoLastScan(wait, flag, polls, scan, last) ==
    /\ \/ ~flags[flag] /\ waited < polls /\ WGoto(wait, scan)
       \/ (flags[flag] \/ waited >= polls) /\ WGoto(wait, AfterScan[last])
    /\ UNCHANGED <<flagged, captured, loader, step, waited, written, log, delayed,
                   evidence, snapshots>>

\* The conditions of the two waiting loops.
TestWait(wait, flag, polls, scan, last) ==
    /\ \/ ~flags[flag] /\ waited < polls /\ WGoto(wait, scan)
       \/ (flags[flag] \/ waited >= polls) /\ WGoto(wait, last)
    /\ UNCHANGED <<flagged, captured, loader, step, waited, written, log, delayed,
                   evidence, snapshots>>

\* Mutant: the poll is not counted.
PollUncounted(sleep, wait) ==
    /\ WGoto(sleep, wait)
    /\ UNCHANGED <<flagged, captured, loader, step, waited, written, log, delayed,
                   evidence, snapshots>>

\* The body of a loop ends: sceKernelDelayThread(10000), one poll has passed.
Poll(sleep, wait) ==
    /\ WGoto(sleep, wait)
    /\ waited' = waited + 1
    /\ UNCHANGED <<flagged, captured, loader, step, written, log, delayed,
                   evidence, snapshots>>

\* One WRITE_CHECKPOINT of zeroCtrlWriteSlideCheckpoints.
WriteCheckpoint ==
    /\ wpc \in Scans /\ step <= Len(Checkpoints)
    /\ LET c == Checkpoints[step] IN
         \/ /\ flags[c] /\ c \notin written
            /\ Persist(Line(c, IF c = "probeReturning" THEN probe_result ELSE 0))
            /\ written' = written \cup {c}
         \/ /\ ~flags[c] \/ c \in written
            /\ UNCHANGED <<log, written>>
    /\ step' = step + 1
    /\ UNCHANGED <<flagged, captured, loader, wpc, waited, delayed, evidence, snapshots>>

\* Mutant: the next scan starts one checkpoint too early.
ScanDoneAtZero ==
    /\ wpc \in Scans /\ step > Len(Checkpoints)
    /\ wpc' = AfterScan[wpc]
    /\ step' = 0
    /\ UNCHANGED <<flagged, captured, loader, waited, written, log, delayed,
                   evidence, snapshots>>

ScanDone ==
    /\ wpc \in Scans /\ step > Len(Checkpoints)
    /\ wpc' = AfterScan[wpc]
    /\ step' = 1
    /\ UNCHANGED <<flagged, captured, loader, waited, written, log, delayed,
                   evidence, snapshots>>

TestProbe ==
    /\ \/ flags["sawProbe"] /\ WGoto("testProbe", "startWait")
       \/ ~flags["sawProbe"] /\ WGoto("testProbe", "state")
    /\ waited' = 0
    /\ UNCHANGED <<flagged, captured, loader, step, written, log, delayed,
                   evidence, snapshots>>

StateLine ==
    /\ WGoto("state", "timeoutEvidence")
    /\ Persist(Line("state", IF flags["sawProbe"] THEN 1 ELSE 0))
    /\ UNCHANGED <<flagged, captured, loader, step, waited, written, delayed,
                   evidence, snapshots>>

NotSeen ==
    /\ WGoto("notSeen", "exited")
    /\ Persist(Line("probeNotSeen", 0))
    /\ UNCHANGED <<flagged, captured, loader, step, waited, written, delayed,
                   evidence, snapshots>>

\* saw_start is true: the 750 ms delay begins.
TestStart ==
    /\ \/ flags["sawStart"] /\ WGoto("testStart", "delay")
       \/ ~flags["sawStart"] /\ WGoto("testStart", "timeoutCapture")
    /\ UNCHANGED <<flagged, captured, loader, step, waited, written, log, delayed,
                   evidence, snapshots>>

\* delayed_or_timeout is captured, after the delay or at once.
CaptureDelayed ==
    /\ \/ WGoto("delay", "reportEvidence") /\ delayed' = "delayed"
       \/ WGoto("timeoutCapture", "reportEvidence") /\ delayed' = "timeout"
    /\ UNCHANGED <<flagged, captured, loader, step, waited, written, log, evidence, snapshots>>

-----------------------------------------------------------------------------
(* zeroCtrlWriteVshSlideEvidence, at either of its two calls: the guard,    *)
(* the addresses, the selective patch, and the windows unless their capture *)
(* failed.  The shared word of VSH that the writer samples on the way goes  *)
(* into fields of its own, which nothing else reads, and is left out.       *)

AfterEvidence == [timeoutEvidence |-> "notSeen", reportEvidence |-> "events"]

EvidenceEnds == wpc' = AfterEvidence[wpc] /\ step' = 1

EvidenceContinues == UNCHANGED wpc /\ step' = step + 1

WriteEvidence ==
    /\ wpc \in Evidences
    /\ \/ step = 1 /\ ~flags["vsh"] /\ EvidenceEnds /\ UNCHANGED evidence
       \/ step = 1 /\ flags["vsh"] /\ EvidenceContinues /\ UNCHANGED evidence
       \/ /\ step = 2
          /\ evidence' = [evidence EXCEPT !.identity = vsh.identity]
          /\ EvidenceContinues
       \/ /\ step = 3
          /\ evidence' = IF Selective THEN [evidence EXCEPT !.patch = vsh.patch] ELSE evidence
          /\ EvidenceContinues
       \/ /\ step = 4
          /\ evidence' = [evidence EXCEPT !.code = vsh.code]
          /\ EvidenceEnds
    /\ UNCHANGED <<flagged, captured, loader, waited, written, log, delayed, snapshots>>

-----------------------------------------------------------------------------
(* The report.                                                              *)

\* The request and RCO events are written for the flags seen at this moment.
WriteEvents ==
    /\ WGoto("events", "result")
    /\ log' = log \o (IF flags["request"] THEN <<Line("requestSeen", 0)>> ELSE <<>>)
                  \o (IF flags["rco"] THEN <<Line("rcoSeen", 0)>> ELSE <<>>)
                  \o <<Line("probeSeen", 0)>>
    /\ UNCHANGED <<flagged, captured, loader, step, waited, written, delayed,
                   evidence, snapshots>>

WriteProbeResult ==
    /\ WGoto("result", "probeSnapshot")
    /\ Persist(Line("probeResult", probe_result))
    /\ UNCHANGED <<flagged, captured, loader, step, waited, written, delayed,
                   evidence, snapshots>>

WriteProbeSnapshot ==
    /\ \/ /\ WGoto("probeSnapshot", "probeSnapshotEnd")
          /\ snapshots' = [snapshots EXCEPT !.at_probe = <<at_probe[1], @[2]>>]
       \/ /\ WGoto("probeSnapshotEnd", "testLabel")
          /\ snapshots' = [snapshots EXCEPT !.at_probe = <<@[1], at_probe[2]>>]
    /\ UNCHANGED <<flagged, captured, loader, step, waited, written, log, delayed, evidence>>

\* saw_start is read again, and decides how the rest is labelled.
TestLabel ==
    /\ \/ /\ flags["sawStart"]
          /\ WGoto("testLabel", "startSnapshot")
          /\ Persist(Line("startSeen", 0))
       \/ /\ ~flags["sawStart"]
          /\ WGoto("testLabel", "label")
          /\ Persist(Line("startNotSeen", 0))
    /\ UNCHANGED <<flagged, captured, loader, step, waited, written, delayed,
                   evidence, snapshots>>

WriteStartSnapshot ==
    /\ \/ /\ WGoto("startSnapshot", "startSnapshotEnd")
          /\ snapshots' = [snapshots EXCEPT !.pre_start = <<pre_start[1], @[2]>>]
       \/ /\ WGoto("startSnapshotEnd", "startModule")
          /\ snapshots' = [snapshots EXCEPT !.pre_start = <<@[1], pre_start[2]>>]
       \/ /\ WGoto("startModule", "label")
          /\ snapshots' = [snapshots EXCEPT !.module = module]
    /\ UNCHANGED <<flagged, captured, loader, step, waited, written, log, delayed, evidence>>

\* delayed_or_timeout is written under the label of the branch taken, and the
\* thread deletes itself.
WriteDelayed ==
    /\ WGoto("label", "exited")
    /\ Persist(Line(IF Logged("startSeen") THEN "delayedSnapshot" ELSE "timeoutSnapshot", 0))
    /\ UNCHANGED <<flagged, captured, loader, step, waited, written, delayed,
                   evidence, snapshots>>

Writer ==
    \/ CreateThread \/ Begin
    \/ TestWait("probeWait", "sawProbe", ProbePolls, "probeScan", "probeLast")
    \/ TestWait("startWait", "sawStart", StartPolls, "startScan", "startLast")
    \/ Poll("probeSleep", "probeWait") \/ Poll("startSleep", "startWait")
    \/ WriteCheckpoint \/ ScanDone
    \/ TestProbe \/ StateLine \/ NotSeen \/ TestStart \/ CaptureDelayed
    \/ WriteEvidence \/ WriteEvents \/ WriteProbeResult \/ WriteProbeSnapshot
    \/ TestLabel \/ WriteStartSnapshot \/ WriteDelayed

Next == Loader \/ Writer

Spec == Init /\ [][Next]_vars

\* The writer is a thread of its own that only sleeps for fixed times; of the
\* loader nothing is assumed.
FairSpec == Spec /\ WF_vars(Writer)

-----------------------------------------------------------------------------
(* Properties.                                                              *)

\* The snapshot that the report labels at_slide_plugin_probe was captured whole
\* by one probe before the writer read it, although the plugin may be probed
\* again while the report is written (main.c:983-987, 1446).
ProbeSnapshotWhole ==
    wpc \in {"testLabel", "startSnapshot", "startSnapshotEnd", "startModule",
            "label"} =>
        /\ snapshots.at_probe[1] # 0
        /\ snapshots.at_probe[1] = snapshots.at_probe[2]

\* With one load of the plugin, the pre-start snapshot and the module that the
\* report describes were captured whole before the writer read them: saw_start
\* is published after both (main.c:1492-1502, 1447-1451).
StartSnapshotWhole ==
    MaxLoads = 1 /\ Logged("startSeen") /\ wpc \in {"label", "exited"} =>
        snapshots.pre_start = <<1, 1>> /\ snapshots.module = 1

\* The report never speaks of a probe whose entry the persisted checkpoints do
\* not show: a scan follows every read of saw_probe that ends the first wait or
\* the report would follow (main.c:1405-1432).
ProbeSeenCheckpointed == Logged("probeSeen") => Logged("probeEntered")

\* A checkpoint that carries the result of a probe carries one that a probe
\* returned (main.c:1010-1012, 1140-1146).
CheckpointResultReturned ==
    \A i \in DOMAIN log : log[i].what = "probeReturning" => log[i].value \in probeResults

\* What is persisted of vsh_module comes from one start of it, is complete, and
\* shows a patched call site only with its caches synchronised: a second start
\* does not touch the record, and vsh_module_seen is set last (main.c:604, 678,
\* 1245-1275).
EvidenceWhole ==
    /\ evidence.identity = 0 => evidence.code = 0
    /\ evidence.code # 0 => evidence.code = evidence.identity
    /\ evidence.patch # "applied"

\* Whatever the loader does, and if it freezes at any step, the writer ends
\* (main.c:1406-1410, 1427-1431).
WriterEnds == <>(wpc = "exited")

\* The snapshot labelled slide_plugin_delayed was captured after the delay.
DelayedAfterDelay == Logged("delayedSnapshot") => delayed = "delayed"
=============================================================================
