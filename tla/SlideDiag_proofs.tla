-------------------------- MODULE SlideDiag_proofs --------------------------
(* Theorems of SlideDiag, for every value of its constants: however often   *)
(* the plugin is loaded and however long the writer waits.                  *)
EXTENDS SlideDiag, TLAPS

\* Where the loader is between the first probe's entry and its publication.
Capturing == {"probeEntered", "probeHalf", "probeCaptured"}

\* Where the loader is while it writes the VSH record.
Recording == {"vshCode", "vshPatch", "vshSync", "vshSeen"}

\* Where the writer is once it has found saw_probe set.
AfterProbe == {"startWait", "startScan", "startSleep", "startLast", "testStart", "delay",
               "timeoutCapture", "reportEvidence", "events", "result", "probeSnapshot",
               "probeSnapshotEnd", "testLabel", "startSnapshot", "startSnapshotEnd",
               "startModule", "label"}

\* The probe's snapshot is whole from the moment saw_probe is published, and no
\* later probe writes it.
ProbePublished ==
    /\ lpc \in Capturing \cup {"probe"} => loads # 0
    /\ lpc \in Capturing => ~flags["sawProbe"]
    /\ lpc = "probeHalf" => at_probe[1] = loads
    /\ lpc = "probeCaptured" => at_probe[1] = loads /\ at_probe[2] = loads
    /\ flags["sawProbe"] => at_probe[1] # 0 /\ at_probe[1] = at_probe[2]

\* The writer copies it only after that moment.
ProbeCopied ==
    /\ wpc \in AfterProbe => flags["sawProbe"]
    /\ wpc = "probeSnapshotEnd" => snapshots.at_probe[1] = at_probe[1]
    /\ wpc \in {"testLabel", "startSnapshot", "startSnapshotEnd", "startModule",
                "label"} =>
         snapshots.at_probe = at_probe

\* The retained result is a probe's from the moment its milestone is published.
ResultPublished ==
    flags["probeReturning"] \/ lpc = "probeResult" => probe_result \in probeResults

\* The VSH record is whole from the moment vsh_module_seen is published, and no
\* later start of vsh_module writes it.
VshPublished ==
    /\ lpc \in Recording \cup {"vshIdentity"} => ~flags["vsh"] /\ vshStarts # 0
    /\ lpc \in Recording => vsh.identity = vshStarts
    /\ lpc \in Recording \/ flags["vsh"] => vsh.code = 0 \/ vsh.code = vsh.identity
    /\ vsh.patch = "applied" => lpc = "vshSync"
    /\ flags["vsh"] => vsh.identity # 0

\* The writer copies it only after that moment.
VshCopied ==
    /\ wpc \notin Scans \cup Evidences => step = 1
    /\ wpc \in Evidences /\ step # 1 => flags["vsh"]
    /\ wpc \in Evidences /\ step > 2 => evidence.identity = vsh.identity
    /\ evidence.identity # 0 => flags["vsh"] /\ evidence.identity = vsh.identity
    /\ evidence.code # 0 => flags["vsh"] /\ evidence.identity = vsh.identity
                                        /\ evidence.code = vsh.code
    /\ evidence.patch # "applied"

-----------------------------------------------------------------------------
(* Type correctness.                                                        *)

\* The checkpoints are eight flags.
LEMMA CheckpointFacts ==
  /\ Len(Checkpoints) = 8
  /\ \A i \in 1..8 : Checkpoints[i] \in CheckpointNames
  /\ CheckpointNames \subseteq Flags
  <1>1. Len(Checkpoints) = 8 /\ DOMAIN Checkpoints = 1..8
    BY DEF Checkpoints
  <1> QED
    BY <1>1 DEF CheckpointNames, Flags

\* Neither thread writes what is the other's.
LEMMA LoaderFrame == Loader => UNCHANGED writer
  BY DEF Loader, OpenPrx, OpenRco, Probe, ProbeEnter, ProbeCapture, SawProbe, ProbeResult,
         ProbeReturning, Start, StartEnter, StartCapture, StartCopy, PreviousReturned,
         StartReturning, SawStart, RecordVsh, VshStart, RecordIdentity, RecordCode,
         PatchCallsite, SyncCallsite, VshSeen

LEMMA WriterFrame == Writer => UNCHANGED <<flagged, captured, loader>>
  BY DEF Writer, CreateThread, Begin, TestWait, Poll, WriteCheckpoint, ScanDone, TestProbe,
         StateLine, NotSeen, TestStart, CaptureDelayed, WriteEvidence, WriteEvents,
         WriteProbeResult, WriteProbeSnapshot, TestLabel, WriteStartSnapshot, WriteDelayed

LEMMA LoaderTypeStep ==
  ASSUME LoaderTypeOK, Loader
  PROVE  LoaderTypeOK'
  <1> USE DiagAssumption
      DEF LoaderTypeOK, LoaderSteps, Snapshot, VshRecord, Raise, LGoto,
          flagged, captured, loader
  <1>1. CASE OpenPrx
    <2>1. loads' \in 0..MaxLoads /\ lpc' \in LoaderSteps
      BY <1>1 DEF OpenPrx
    <2>2. flags' \in [Flags -> BOOLEAN]
      BY <1>1 DEF OpenPrx
    <2> QED
      BY <1>1, <2>1, <2>2 DEF OpenPrx
  <1>2. CASE OpenRco
    BY <1>2 DEF OpenRco
  <1>3. CASE ProbeEnter
    BY <1>3 DEF ProbeEnter
  <1>4. CASE ProbeCapture
    BY <1>4 DEF ProbeCapture
  <1>5. CASE SawProbe
    BY <1>5 DEF SawProbe
  <1>6. CASE ProbeReturning
    BY <1>6 DEF ProbeReturning
  <1>7. CASE StartEnter
    BY <1>7 DEF StartEnter
  <1>8. CASE StartCapture
    BY <1>8 DEF StartCapture
  <1>9. CASE StartCopy
    BY <1>9 DEF StartCopy
  <1>10. CASE PreviousReturned
    BY <1>10 DEF PreviousReturned
  <1>11. CASE StartReturning
    BY <1>11 DEF StartReturning
  <1>12. CASE SawStart
    BY <1>12 DEF SawStart
  <1>13. CASE VshStart
    BY <1>13 DEF VshStart
  <1>14. CASE RecordIdentity
    <2>1. vsh' \in VshRecord
      BY <1>14 DEF RecordIdentity
    <2> QED
      BY <1>14, <2>1 DEF RecordIdentity
  <1>15. CASE RecordCode
    BY <1>15 DEF RecordCode
  <1>16. CASE PatchCallsite
    BY <1>16 DEF PatchCallsite
  <1>17. CASE SyncCallsite
    BY <1>17 DEF SyncCallsite
  <1>18. CASE VshSeen
    BY <1>18 DEF VshSeen
  <1>19. ASSUME NEW r \in Results, ProbeResult(r)
        PROVE LoaderTypeOK'
    BY <1>19, DiagAssumption DEF ProbeResult
  <1> QED
    BY <1>1, <1>2, <1>3, <1>4, <1>5, <1>6, <1>7, <1>8, <1>9, <1>10, <1>11,
       <1>12, <1>13, <1>14, <1>15, <1>16, <1>17, <1>18, <1>19
    DEF Loader, Probe, Start, RecordVsh

LEMMA WriterTypeStep ==
  ASSUME LoaderTypeOK, WriterTypeOK, Writer
  PROVE  WriterTypeOK'
  <1> USE CheckpointFacts DEF WriterTypeOK, WriterSteps, Scans, Evidences, WGoto
  <1>1. CASE \/ TestWait("probeWait", "sawProbe", ProbePolls, "probeScan", "probeLast")
           \/ TestWait("startWait", "sawStart", StartPolls, "startScan", "startLast")
    BY <1>1 DEF TestWait
  <1>2. CASE Poll("probeSleep", "probeWait") \/ Poll("startSleep", "startWait")
    BY <1>2 DEF Poll
  <1>3. CASE CreateThread
    BY <1>3 DEF CreateThread
  <1>4. CASE Begin
    BY <1>4 DEF Begin
  <1>5. CASE WriteCheckpoint
    BY <1>5 DEF WriteCheckpoint, Scans
  <1>6. CASE ScanDone
    BY <1>6 DEF ScanDone, Scans, AfterScan
  <1>7. CASE TestProbe
    BY <1>7 DEF TestProbe
  <1>8. CASE StateLine
    BY <1>8 DEF StateLine
  <1>9. CASE NotSeen
    BY <1>9 DEF NotSeen
  <1>10. CASE TestStart
    BY <1>10 DEF TestStart
  <1>11. CASE CaptureDelayed
    BY <1>11 DEF CaptureDelayed
  <1>12. CASE WriteEvidence
    <2>1. vsh.identity \in 0..MaxVshStarts /\ vsh.code \in 0..MaxVshStarts
          /\ vsh.patch \in {"none", "applied", "synced"}
      BY DEF LoaderTypeOK, VshRecord
    <2>2. evidence' \in VshRecord
      BY <1>12, <2>1 DEF WriteEvidence, VshRecord
    <2>3. wpc' \in WriterSteps /\ step' \in 1..(Len(Checkpoints) + 1)
      BY <1>12 DEF WriteEvidence, AfterEvidence, EvidenceEnds, EvidenceContinues
    <2> QED
      BY <1>12, <2>2, <2>3 DEF WriteEvidence
  <1>13. CASE WriteEvents
    BY <1>13 DEF WriteEvents
  <1>14. CASE WriteProbeResult
    BY <1>14 DEF WriteProbeResult
  <1>15. CASE WriteProbeSnapshot
    <2>1. at_probe \in Snapshot /\ pre_start \in Snapshot /\ module \in 0..MaxLoads
      BY DEF LoaderTypeOK
    <2>2. \A a, b \in 0..MaxLoads : <<a, b>> \in Snapshot
      BY DEF Snapshot
    <2>3. \A s \in Snapshot : s[1] \in 0..MaxLoads /\ s[2] \in 0..MaxLoads
      BY DEF Snapshot
    <2>4. snapshots' \in [at_probe : Snapshot, pre_start : Snapshot, module : 0..MaxLoads]
      BY <1>15, <2>1, <2>2, <2>3 DEF WriteProbeSnapshot
    <2> QED
      BY <1>15, <2>4 DEF WriteProbeSnapshot
  <1>16. CASE TestLabel
    BY <1>16 DEF TestLabel
  <1>17. CASE WriteStartSnapshot
    <2>1. at_probe \in Snapshot /\ pre_start \in Snapshot /\ module \in 0..MaxLoads
      BY DEF LoaderTypeOK
    <2>2. \A a, b \in 0..MaxLoads : <<a, b>> \in Snapshot
      BY DEF Snapshot
    <2>3. \A s \in Snapshot : s[1] \in 0..MaxLoads /\ s[2] \in 0..MaxLoads
      BY DEF Snapshot
    <2>4. snapshots' \in [at_probe : Snapshot, pre_start : Snapshot, module : 0..MaxLoads]
      BY <1>17, <2>1, <2>2, <2>3 DEF WriteStartSnapshot
    <2> QED
      BY <1>17, <2>4 DEF WriteStartSnapshot
  <1>18. CASE WriteDelayed
    BY <1>18 DEF WriteDelayed
  <1> QED
    BY <1>1, <1>2, <1>3, <1>4, <1>5, <1>6, <1>7, <1>8, <1>9, <1>10, <1>11,
       <1>12, <1>13, <1>14, <1>15, <1>16, <1>17, <1>18
    DEF Writer

\* The line of a checkpoint.
CheckpointLine(c) == Line(c, IF c = "probeReturning" THEN probe_result ELSE 0)

\* If the event lines and the lines of the raised checkpoints lie in a set, the
\* log stays a sequence over it.
LEMMA LogStep ==
  ASSUME TypeOK, Writer, NEW S, log \in Seq(S),
         \A what \in Events, value \in Int : Line(what, value) \in S,
         \A c \in CheckpointNames : flags[c] => CheckpointLine(c) \in S
  PROVE  log' \in Seq(S)
  <1> USE DEF TypeOK
  <1>0. \A line \in S : Persist(line) => log' \in Seq(S)
    BY DEF Persist
  <1>1. CASE \/ TestWait("probeWait", "sawProbe", ProbePolls, "probeScan", "probeLast")
           \/ TestWait("startWait", "sawStart", StartPolls, "startScan", "startLast")
    BY <1>1 DEF TestWait
  <1>2. CASE Poll("probeSleep", "probeWait") \/ Poll("startSleep", "startWait")
    BY <1>2 DEF Poll
  <1>3. CASE CreateThread
    BY <1>3 DEF CreateThread
  <1>4. CASE Begin
    <2>1. Line("alive", 0) \in S
      BY DEF Events
    <2> QED
      BY <1>4, <2>1, <1>0 DEF Begin
  <1>5. CASE WriteCheckpoint
    <2>1. step \in 1..8 /\ Checkpoints[step] \in CheckpointNames
      BY <1>5, CheckpointFacts DEF WriteCheckpoint, WriterTypeOK
    <2>2. \/ UNCHANGED log
          \/ flags[Checkpoints[step]] /\ Persist(CheckpointLine(Checkpoints[step]))
      BY <1>5 DEF WriteCheckpoint, CheckpointLine
    <2> QED
      BY <2>1, <2>2, <1>0
  <1>6. CASE ScanDone
    BY <1>6 DEF ScanDone, Scans, AfterScan
  <1>7. CASE TestProbe
    BY <1>7 DEF TestProbe
  <1>8. CASE StateLine
    <2>1. Line("state", 0) \in S /\ Line("state", 1) \in S
      BY DEF Events
    <2> QED
      BY <1>8, <2>1, <1>0 DEF StateLine
  <1>9. CASE NotSeen
    <2>1. Line("probeNotSeen", 0) \in S
      BY DEF Events
    <2> QED
      BY <1>9, <2>1, <1>0 DEF NotSeen
  <1>10. CASE TestStart
    BY <1>10 DEF TestStart
  <1>11. CASE CaptureDelayed
    BY <1>11 DEF CaptureDelayed
  <1>12. CASE WriteEvidence
    BY <1>12 DEF WriteEvidence, Evidences, AfterEvidence, EvidenceEnds, EvidenceContinues
  <1>13. CASE WriteEvents
    <2>0. Line("requestSeen", 0) \in S /\ Line("rcoSeen", 0) \in S
          /\ Line("probeSeen", 0) \in S
      BY DEF Events
    <2>1. <<Line("requestSeen", 0)>> \in Seq(S) /\ <<Line("rcoSeen", 0)>> \in Seq(S)
          /\ <<Line("probeSeen", 0)>> \in Seq(S)
      BY <2>0
    <2>2. <<>> \in Seq(S)
      OBVIOUS
    <2> QED
      BY <1>13, <2>1, <2>2 DEF WriteEvents
  <1>14. CASE WriteProbeResult
    BY <1>14, <1>0 DEF WriteProbeResult, LoaderTypeOK, Events
  <1>15. CASE WriteProbeSnapshot
    BY <1>15 DEF WriteProbeSnapshot
  <1>16. CASE TestLabel
    <2>1. Line("startSeen", 0) \in S /\ Line("startNotSeen", 0) \in S
      BY DEF Events
    <2> QED
      BY <1>16, <2>1, <1>0 DEF TestLabel
  <1>17. CASE WriteStartSnapshot
    BY <1>17 DEF WriteStartSnapshot
  <1>18. CASE WriteDelayed
    <2>1. Line("delayedSnapshot", 0) \in S /\ Line("timeoutSnapshot", 0) \in S
      BY DEF Events
    <2> QED
      BY <1>18, <2>1, <1>0 DEF WriteDelayed
  <1> QED
    BY <1>1, <1>2, <1>3, <1>4, <1>5, <1>6, <1>7, <1>8, <1>9, <1>10, <1>11,
       <1>12, <1>13, <1>14, <1>15, <1>16, <1>17, <1>18
    DEF Writer

LEMMA LogTypeStep ==
  ASSUME TypeOK, Writer
  PROVE  (log \in Seq(Lines))'
  <1>1. \A what \in CheckpointNames \cup Events, value \in Int : Line(what, value) \in Lines
    BY DEF Line, Lines
  <1>2. \A c \in CheckpointNames : CheckpointLine(c) \in Lines
    BY <1>1 DEF CheckpointLine, TypeOK, LoaderTypeOK
  <1>3. log \in Seq(Lines)
    BY DEF TypeOK
  <1> QED
    BY <1>1, <1>2, <1>3, LogStep

\* Every variable keeps its type.
THEOREM TypeCorrect == Spec => []TypeOK
  <1>1. Init => TypeOK
    <2> SUFFICES ASSUME Init
                 PROVE TypeOK
      OBVIOUS
    <2>1. LoaderTypeOK
      BY DiagAssumption DEF Init, LoaderTypeOK, Snapshot, VshRecord, LoaderSteps
    <2>2. WriterTypeOK
      BY DiagAssumption, CheckpointFacts DEF Init, WriterTypeOK, Snapshot, VshRecord, WriterSteps
    <2>3. log \in Seq(Lines)
      BY DEF Init
    <2> QED
      BY <2>1, <2>2, <2>3 DEF TypeOK
  <1>2. TypeOK /\ [Next]_vars => TypeOK'
    <2> SUFFICES ASSUME TypeOK, [Next]_vars
                 PROVE TypeOK'
      OBVIOUS
    <2>1. CASE Loader
      <3>1. UNCHANGED writer
        BY <2>1, LoaderFrame
      <3> QED
        BY <2>1, <3>1, LoaderTypeStep DEF TypeOK, WriterTypeOK, writer
    <2>2. CASE Writer
      <3>1. LoaderTypeOK'
        BY <2>2, WriterFrame DEF TypeOK, LoaderTypeOK, flagged, captured, loader
      <3> QED
        BY <2>2, <3>1, WriterTypeStep, LogTypeStep DEF TypeOK
    <2>3. CASE UNCHANGED vars
      BY <2>3 DEF TypeOK, LoaderTypeOK, WriterTypeOK, vars, flagged, captured, loader, writer
    <2> QED
      BY <2>1, <2>2, <2>3 DEF Next
  <1> QED
    BY <1>1, <1>2, PTL DEF Spec

-----------------------------------------------------------------------------
(* The probe's snapshot.                                                    *)

LEMMA ProbePublishedLoader ==
  ASSUME LoaderTypeOK, ProbePublished, Loader
  PROVE  ProbePublished'
  <1> USE DEF LoaderTypeOK, Snapshot, Flags, ProbePublished, Capturing,
              Raise, LGoto, flagged, captured, loader, writer
  <1>1. CASE OpenPrx
    BY <1>1 DEF OpenPrx
  <1>2. CASE OpenRco
    BY <1>2 DEF OpenRco
  <1>3. CASE ProbeEnter
    BY <1>3 DEF ProbeEnter
  <1>4. CASE ProbeCapture
    BY <1>4 DEF ProbeCapture
  <1>5. CASE SawProbe
    BY <1>5 DEF SawProbe
  <1>6. CASE ProbeReturning
    BY <1>6 DEF ProbeReturning
  <1>7. CASE StartEnter
    BY <1>7 DEF StartEnter
  <1>8. CASE StartCapture
    BY <1>8 DEF StartCapture
  <1>9. CASE StartCopy
    BY <1>9 DEF StartCopy
  <1>10. CASE PreviousReturned
    BY <1>10 DEF PreviousReturned
  <1>11. CASE StartReturning
    BY <1>11 DEF StartReturning
  <1>12. CASE SawStart
    BY <1>12 DEF SawStart
  <1>13. CASE VshStart
    BY <1>13 DEF VshStart
  <1>14. CASE RecordIdentity
    BY <1>14 DEF RecordIdentity
  <1>15. CASE RecordCode
    BY <1>15 DEF RecordCode
  <1>16. CASE PatchCallsite
    BY <1>16 DEF PatchCallsite
  <1>17. CASE SyncCallsite
    BY <1>17 DEF SyncCallsite
  <1>18. CASE VshSeen
    BY <1>18 DEF VshSeen
  <1>19. ASSUME NEW r \in Results, ProbeResult(r)
        PROVE ProbePublished'
    BY <1>19, DiagAssumption DEF ProbeResult
  <1> QED
    BY <1>1, <1>2, <1>3, <1>4, <1>5, <1>6, <1>7, <1>8, <1>9, <1>10, <1>11,
       <1>12, <1>13, <1>14, <1>15, <1>16, <1>17, <1>18, <1>19
    DEF Loader, Probe, Start, RecordVsh

\* A loader's step after the publication leaves the snapshot alone.
LEMMA ProbeSnapshotStable ==
  ASSUME ProbePublished, Loader, flags["sawProbe"]
  PROVE  at_probe' = at_probe
  <1> USE DEF ProbePublished, Capturing, LGoto, captured
  <1>1. CASE OpenPrx
    BY <1>1 DEF OpenPrx
  <1>2. CASE OpenRco
    BY <1>2 DEF OpenRco
  <1>3. CASE ProbeEnter
    BY <1>3 DEF ProbeEnter
  <1>4. CASE ProbeCapture
    BY <1>4 DEF ProbeCapture
  <1>5. CASE SawProbe
    BY <1>5 DEF SawProbe
  <1>6. CASE ProbeReturning
    BY <1>6 DEF ProbeReturning
  <1>7. CASE StartEnter
    BY <1>7 DEF StartEnter
  <1>8. CASE StartCapture
    BY <1>8 DEF StartCapture
  <1>9. CASE StartCopy
    BY <1>9 DEF StartCopy
  <1>10. CASE PreviousReturned
    BY <1>10 DEF PreviousReturned
  <1>11. CASE StartReturning
    BY <1>11 DEF StartReturning
  <1>12. CASE SawStart
    BY <1>12 DEF SawStart
  <1>13. CASE VshStart
    BY <1>13 DEF VshStart
  <1>14. CASE RecordIdentity
    BY <1>14 DEF RecordIdentity
  <1>15. CASE RecordCode
    BY <1>15 DEF RecordCode
  <1>16. CASE PatchCallsite
    BY <1>16 DEF PatchCallsite
  <1>17. CASE SyncCallsite
    BY <1>17 DEF SyncCallsite
  <1>18. CASE VshSeen
    BY <1>18 DEF VshSeen
  <1>19. ASSUME NEW r \in Results, ProbeResult(r)
        PROVE at_probe' = at_probe
    BY <1>19, DiagAssumption DEF ProbeResult
  <1> QED
    BY <1>1, <1>2, <1>3, <1>4, <1>5, <1>6, <1>7, <1>8, <1>9, <1>10, <1>11,
       <1>12, <1>13, <1>14, <1>15, <1>16, <1>17, <1>18, <1>19
    DEF Loader, Probe, Start, RecordVsh

\* A flag that is raised stays raised.
LEMMA FlagsStable ==
  ASSUME LoaderTypeOK, Loader, NEW f \in Flags, flags[f]
  PROVE  flags'[f]
  <1>1. \A g : Raise(g) => flags'[f]
    BY DEF LoaderTypeOK, Raise
  <1>2. UNCHANGED flags \/ \E g : Raise(g)
    BY DEF Loader, OpenPrx, OpenRco, Probe, ProbeEnter, ProbeCapture, SawProbe, ProbeResult,
           ProbeReturning, Start, StartEnter, StartCapture, StartCopy, PreviousReturned,
           StartReturning, SawStart, RecordVsh, VshStart, RecordIdentity, RecordCode,
           PatchCallsite, SyncCallsite, VshSeen, flagged
  <1> QED
    BY <1>1, <1>2

\* Where a step of the evidence leads.
LEMMA EvidenceGoto ==
  ASSUME WriteEvidence
  PROVE  /\ wpc \in Evidences
         /\ wpc' = wpc \/ wpc' = "notSeen" \/ (wpc = "reportEvidence" /\ wpc' = "events")
  <1>1. wpc \in Evidences /\ (wpc' = wpc \/ wpc' = AfterEvidence[wpc])
    BY DEF WriteEvidence, EvidenceEnds, EvidenceContinues
  <1>2. CASE wpc = "timeoutEvidence"
    BY <1>1, <1>2 DEF AfterEvidence
  <1>3. CASE wpc = "reportEvidence"
    BY <1>1, <1>3 DEF AfterEvidence
  <1> QED
    BY <1>1, <1>2, <1>3 DEF Evidences

LEMMA ProbeCopiedWriter ==
  ASSUME TypeOK, ProbePublished, ProbeCopied, Writer
  PROVE  ProbeCopied'
  <1> USE DEF TypeOK, LoaderTypeOK, WriterTypeOK, Snapshot, ProbeCopied, AfterProbe,
              WGoto, flagged, captured
  <1>1. CASE \/ TestWait("probeWait", "sawProbe", ProbePolls, "probeScan", "probeLast")
           \/ TestWait("startWait", "sawStart", StartPolls, "startScan", "startLast")
    BY <1>1 DEF TestWait
  <1>2. CASE Poll("probeSleep", "probeWait") \/ Poll("startSleep", "startWait")
    BY <1>2 DEF Poll
  <1>3. CASE CreateThread
    BY <1>3 DEF CreateThread
  <1>4. CASE Begin
    BY <1>4 DEF Begin
  <1>5. CASE WriteCheckpoint
    BY <1>5 DEF WriteCheckpoint, Scans
  <1>6. CASE ScanDone
    BY <1>6, SMTT(30) DEF ScanDone, Scans, AfterScan
  <1>7. CASE TestProbe
    BY <1>7 DEF TestProbe
  <1>8. CASE StateLine
    BY <1>8 DEF StateLine
  <1>9. CASE NotSeen
    BY <1>9 DEF NotSeen
  <1>10. CASE TestStart
    BY <1>10 DEF TestStart
  <1>11. CASE CaptureDelayed
    BY <1>11 DEF CaptureDelayed
  <1>12. CASE WriteEvidence
    <2>1. snapshots' = snapshots /\ flags' = flags /\ at_probe' = at_probe
      BY <1>12 DEF WriteEvidence, captured, flagged
    <2>3. /\ wpc' \in AfterProbe => wpc \in AfterProbe
          /\ wpc' \notin {"probeSnapshotEnd", "testLabel", "startSnapshot",
                          "startSnapshotEnd", "startModule", "label"}
      BY <1>12, EvidenceGoto DEF Evidences
    <2>4. (wpc \in AfterProbe => flags["sawProbe"])'
      BY <2>1, <2>3
    <2> QED
      BY <2>3, <2>4
  <1>13. CASE WriteEvents
    BY <1>13 DEF WriteEvents
  <1>14. CASE WriteProbeResult
    BY <1>14 DEF WriteProbeResult
  <1>15. CASE WriteProbeSnapshot
    <2>1. \A a, b : <<a, b>>[1] = a /\ <<a, b>>[2] = b
      OBVIOUS
    <2>2. CASE wpc = "probeSnapshot"
      <3>1. snapshots'.at_probe = <<at_probe[1], snapshots.at_probe[2]>>
        BY <1>15, <2>2 DEF WriteProbeSnapshot
      <3>2. wpc' = "probeSnapshotEnd" /\ flags' = flags /\ at_probe' = at_probe
        BY <1>15, <2>2 DEF WriteProbeSnapshot
      <3> QED
        BY <3>1, <3>2, <2>1, <2>2
    <2>3. CASE wpc = "probeSnapshotEnd"
      <3>1. snapshots'.at_probe = <<snapshots.at_probe[1], at_probe[2]>>
        BY <1>15, <2>3 DEF WriteProbeSnapshot
      <3>2. at_probe = <<at_probe[1], at_probe[2]>>
        BY DEF LoaderTypeOK, Snapshot
      <3>3. snapshots'.at_probe = at_probe
        BY <3>1, <3>2, <2>3
      <3>4. wpc' = "testLabel" /\ flags' = flags /\ at_probe' = at_probe
        BY <1>15, <2>3 DEF WriteProbeSnapshot
      <3> QED
        BY <3>3, <3>4, <2>3
    <2> QED
      BY <1>15, <2>2, <2>3 DEF WriteProbeSnapshot
  <1>16. CASE TestLabel
    BY <1>16 DEF TestLabel
  <1>17. CASE WriteStartSnapshot
    <2>1. snapshots'.at_probe = snapshots.at_probe /\ flags' = flags /\ at_probe' = at_probe
      BY <1>17 DEF WriteStartSnapshot
    <2>2. wpc \in {"startSnapshot", "startSnapshotEnd", "startModule"}
          /\ wpc' \in {"startSnapshotEnd", "startModule", "label"}
      BY <1>17 DEF WriteStartSnapshot
    <2> QED
      BY <2>1, <2>2
  <1>18. CASE WriteDelayed
    BY <1>18 DEF WriteDelayed
  <1> QED
    BY <1>1, <1>2, <1>3, <1>4, <1>5, <1>6, <1>7, <1>8, <1>9, <1>10, <1>11,
       <1>12, <1>13, <1>14, <1>15, <1>16, <1>17, <1>18
    DEF Writer

LEMMA ProbeInvariant == Spec => [](TypeOK /\ ProbePublished /\ ProbeCopied)
  <1>1. Init => ProbePublished /\ ProbeCopied
    BY DEF Init, ProbePublished, ProbeCopied, Capturing, AfterProbe, Flags
  <1>2. TypeOK /\ ProbePublished /\ ProbeCopied /\ [Next]_vars
          => (ProbePublished /\ ProbeCopied)'
    <2> SUFFICES ASSUME TypeOK, ProbePublished, ProbeCopied, [Next]_vars
                 PROVE (ProbePublished /\ ProbeCopied)'
      OBVIOUS
    <2>1. CASE Loader
      <3>1. ProbePublished'
        BY <2>1, ProbePublishedLoader DEF TypeOK
      <3>2. UNCHANGED <<wpc, snapshots>>
        BY <2>1, LoaderFrame DEF writer
      <3>3. wpc \in AfterProbe => flags'["sawProbe"] /\ at_probe' = at_probe
        BY <2>1, ProbeSnapshotStable, FlagsStable DEF TypeOK, ProbeCopied, Flags
      <3> QED
        BY <3>1, <3>2, <3>3 DEF ProbeCopied, AfterProbe
    <2>2. CASE Writer
      BY <2>2, WriterFrame, ProbeCopiedWriter DEF ProbePublished, flagged, captured, loader
    <2>3. CASE UNCHANGED vars
      BY <2>3 DEF vars, flagged, captured, loader, writer, ProbePublished, ProbeCopied
    <2> QED
      BY <2>1, <2>2, <2>3 DEF Next
  <1> QED
    BY <1>1, <1>2, TypeCorrect, PTL DEF Spec

\* ProbeSnapshotWhole: the report's at_slide_plugin_probe is one probe's whole
\* snapshot, however many probes follow while the writer reads it.
THEOREM ProbeSnapshotKept == Spec => []ProbeSnapshotWhole
  <1>1. ProbePublished /\ ProbeCopied => ProbeSnapshotWhole
    BY DEF ProbePublished, ProbeCopied, ProbeSnapshotWhole, AfterProbe
  <1> QED
    BY <1>1, ProbeInvariant, PTL


-----------------------------------------------------------------------------
(* The result of a probe, from its return to the checkpoint that carries it. *)

LEMMA ResultPublishedLoader ==
  ASSUME LoaderTypeOK, ResultPublished, Loader
  PROVE  ResultPublished'
  <1> USE DEF LoaderTypeOK, ResultPublished, Raise, LGoto, flagged, captured, loader, Flags,
            CheckpointNames, Checkpoints
  <1>1. CASE OpenPrx
    BY <1>1 DEF OpenPrx
  <1>2. CASE OpenRco
    BY <1>2 DEF OpenRco
  <1>3. CASE ProbeEnter
    BY <1>3 DEF ProbeEnter
  <1>4. CASE ProbeCapture
    BY <1>4 DEF ProbeCapture
  <1>5. CASE SawProbe
    BY <1>5 DEF SawProbe
  <1>6. CASE ProbeReturning
    BY <1>6 DEF ProbeReturning
  <1>7. CASE StartEnter
    BY <1>7 DEF StartEnter
  <1>8. CASE StartCapture
    BY <1>8 DEF StartCapture
  <1>9. CASE StartCopy
    BY <1>9 DEF StartCopy
  <1>10. CASE PreviousReturned
    BY <1>10 DEF PreviousReturned
  <1>11. CASE StartReturning
    BY <1>11 DEF StartReturning
  <1>12. CASE SawStart
    BY <1>12 DEF SawStart
  <1>13. CASE VshStart
    BY <1>13 DEF VshStart
  <1>14. CASE RecordIdentity
    BY <1>14 DEF RecordIdentity
  <1>15. CASE RecordCode
    BY <1>15 DEF RecordCode
  <1>16. CASE PatchCallsite
    BY <1>16 DEF PatchCallsite
  <1>17. CASE SyncCallsite
    BY <1>17 DEF SyncCallsite
  <1>18. CASE VshSeen
    BY <1>18 DEF VshSeen
  <1>19. ASSUME NEW r \in Results, ProbeResult(r)
        PROVE ResultPublished'
    BY <1>19 DEF ProbeResult
  <1> QED
    BY <1>1, <1>2, <1>3, <1>4, <1>5, <1>6, <1>7, <1>8, <1>9, <1>10, <1>11,
       <1>12, <1>13, <1>14, <1>15, <1>16, <1>17, <1>18, <1>19
    DEF Loader, Probe, Start, RecordVsh

\* The results that probes have returned are only added to.
LEMMA ResultsGrow == Loader => probeResults \subseteq probeResults'
  BY DEF Loader, OpenPrx, OpenRco, Probe, ProbeEnter, ProbeCapture, SawProbe, ProbeResult,
         ProbeReturning, Start, StartEnter, StartCapture, StartCopy, PreviousReturned,
         StartReturning, SawStart, RecordVsh, VshStart, RecordIdentity, RecordCode,
         PatchCallsite, SyncCallsite, VshSeen, loader

\* The lines a log may hold when the given results have been returned.
ResultLines(returned) ==
  {line \in Lines : line.what = "probeReturning" => line.value \in returned}

LEMMA ResultLogged ==
  ASSUME TypeOK, ResultPublished, Writer, log \in Seq(ResultLines(probeResults))
  PROVE  log' \in Seq(ResultLines(probeResults))
  <1> DEFINE S == ResultLines(probeResults)
  <1>1. \A what \in Events, value \in Int : Line(what, value) \in S
    BY DEF ResultLines, Line, Lines, Events
  <1>2. \A c \in CheckpointNames : flags[c] => CheckpointLine(c) \in S
    BY DEF ResultLines, CheckpointLine, Line, Lines, ResultPublished, TypeOK, LoaderTypeOK
  <1> HIDE DEF S
  <1>3. log \in Seq(S) => log' \in Seq(S)
    BY <1>1, <1>2, LogStep
  <1> QED
    BY <1>3 DEF S

\* CheckpointResultReturned: a checkpoint that carries the result of a probe
\* carries one that a probe returned.
THEOREM CheckpointResultKept == Spec => []CheckpointResultReturned
  <1> DEFINE Inv == ResultPublished /\ log \in Seq(ResultLines(probeResults))
  <1>1. Init => Inv
    BY DEF Init, ResultPublished, Flags, CheckpointNames, Checkpoints
  <1>2. TypeOK /\ Inv /\ [Next]_vars => Inv'
    <2> SUFFICES ASSUME TypeOK, Inv, [Next]_vars
                 PROVE Inv'
      OBVIOUS
    <2>1. CASE Loader
      <3>1. ResultPublished'
        BY <2>1, ResultPublishedLoader DEF TypeOK
      <3>2. ResultLines(probeResults) \subseteq ResultLines(probeResults')
        BY <2>1, ResultsGrow DEF ResultLines
      <3>3. log' = log
        BY <2>1, LoaderFrame DEF writer
      <3> QED
        BY <3>1, <3>2, <3>3
    <2>2. CASE Writer
      BY <2>2, WriterFrame, ResultLogged DEF ResultPublished, flagged, captured, loader
    <2>3. CASE UNCHANGED vars
      BY <2>3 DEF vars, flagged, captured, loader, writer, ResultPublished
    <2> QED
      BY <2>1, <2>2, <2>3 DEF Next
  <1>3. Inv => CheckpointResultReturned
    BY DEF CheckpointResultReturned, ResultLines
  <1> QED
    BY <1>1, <1>2, <1>3, TypeCorrect, PTL DEF Spec

-----------------------------------------------------------------------------
(* The record of vsh_module.                                                *)

LEMMA VshPublishedLoader ==
  ASSUME LoaderTypeOK, VshPublished, Loader
  PROVE  VshPublished'
  <1> USE DEF LoaderTypeOK, VshPublished, Recording, VshRecord, Raise, LGoto, flagged, captured,
            loader, Flags, CheckpointNames, Checkpoints
  <1>1. CASE OpenPrx
    BY <1>1 DEF OpenPrx
  <1>2. CASE OpenRco
    BY <1>2 DEF OpenRco
  <1>3. CASE ProbeEnter
    BY <1>3 DEF ProbeEnter
  <1>4. CASE ProbeCapture
    BY <1>4 DEF ProbeCapture
  <1>5. CASE SawProbe
    BY <1>5 DEF SawProbe
  <1>6. CASE ProbeReturning
    BY <1>6 DEF ProbeReturning
  <1>7. CASE StartEnter
    BY <1>7 DEF StartEnter
  <1>8. CASE StartCapture
    BY <1>8 DEF StartCapture
  <1>9. CASE StartCopy
    BY <1>9 DEF StartCopy
  <1>10. CASE PreviousReturned
    BY <1>10 DEF PreviousReturned
  <1>11. CASE StartReturning
    BY <1>11 DEF StartReturning
  <1>12. CASE SawStart
    BY <1>12 DEF SawStart
  <1>13. CASE VshStart
    BY <1>13 DEF VshStart
  <1>14. CASE RecordIdentity
    BY <1>14 DEF RecordIdentity
  <1>15. CASE RecordCode
    BY <1>15 DEF RecordCode
  <1>16. CASE PatchCallsite
    BY <1>16 DEF PatchCallsite
  <1>17. CASE SyncCallsite
    BY <1>17 DEF SyncCallsite
  <1>18. CASE VshSeen
    BY <1>18 DEF VshSeen
  <1>19. ASSUME NEW r \in Results, ProbeResult(r)
        PROVE VshPublished'
    BY <1>19 DEF ProbeResult
  <1> QED
    BY <1>1, <1>2, <1>3, <1>4, <1>5, <1>6, <1>7, <1>8, <1>9, <1>10, <1>11,
       <1>12, <1>13, <1>14, <1>15, <1>16, <1>17, <1>18, <1>19
    DEF Loader, Probe, Start, RecordVsh

\* Once published, the record is no longer written.
LEMMA VshStable ==
  ASSUME LoaderTypeOK, VshPublished, Loader, flags["vsh"]
  PROVE  vsh' = vsh
  <1> USE DEF VshPublished, Recording, Raise, LGoto, captured
  <1>1. CASE OpenPrx
    BY <1>1 DEF OpenPrx
  <1>2. CASE OpenRco
    BY <1>2 DEF OpenRco
  <1>3. CASE ProbeEnter
    BY <1>3 DEF ProbeEnter
  <1>4. CASE ProbeCapture
    BY <1>4 DEF ProbeCapture
  <1>5. CASE SawProbe
    BY <1>5 DEF SawProbe
  <1>6. CASE ProbeReturning
    BY <1>6 DEF ProbeReturning
  <1>7. CASE StartEnter
    BY <1>7 DEF StartEnter
  <1>8. CASE StartCapture
    BY <1>8 DEF StartCapture
  <1>9. CASE StartCopy
    BY <1>9 DEF StartCopy
  <1>10. CASE PreviousReturned
    BY <1>10 DEF PreviousReturned
  <1>11. CASE StartReturning
    BY <1>11 DEF StartReturning
  <1>12. CASE SawStart
    BY <1>12 DEF SawStart
  <1>13. CASE VshStart
    BY <1>13 DEF VshStart
  <1>14. CASE RecordIdentity
    BY <1>14 DEF RecordIdentity
  <1>15. CASE RecordCode
    BY <1>15 DEF RecordCode
  <1>16. CASE PatchCallsite
    BY <1>16 DEF PatchCallsite
  <1>17. CASE SyncCallsite
    BY <1>17 DEF SyncCallsite
  <1>18. CASE VshSeen
    BY <1>18 DEF VshSeen
  <1>19. ASSUME NEW r \in Results, ProbeResult(r)
        PROVE vsh' = vsh
    BY <1>19 DEF ProbeResult
  <1> QED
    BY <1>1, <1>2, <1>3, <1>4, <1>5, <1>6, <1>7, <1>8, <1>9, <1>10, <1>11,
       <1>12, <1>13, <1>14, <1>15, <1>16, <1>17, <1>18, <1>19
    DEF Loader, Probe, Start, RecordVsh

LEMMA VshCopiedWriter ==
  ASSUME TypeOK, VshPublished, VshCopied, Writer
  PROVE  VshCopied'
  <1> USE DEF TypeOK, LoaderTypeOK, WriterTypeOK, VshRecord, VshPublished, VshCopied, Scans,
            Evidences, WGoto, flagged, captured
  <1>1. CASE \/ TestWait("probeWait", "sawProbe", ProbePolls, "probeScan", "probeLast")
           \/ TestWait("startWait", "sawStart", StartPolls, "startScan", "startLast")
    BY <1>1 DEF TestWait
  <1>2. CASE Poll("probeSleep", "probeWait") \/ Poll("startSleep", "startWait")
    BY <1>2 DEF Poll
  <1>3. CASE CreateThread
    BY <1>3 DEF CreateThread
  <1>4. CASE Begin
    BY <1>4 DEF Begin
  <1>5. CASE WriteCheckpoint
    BY <1>5 DEF WriteCheckpoint
  <1>6. CASE ScanDone
    BY <1>6 DEF ScanDone
  <1>7. CASE TestProbe
    BY <1>7 DEF TestProbe
  <1>8. CASE StateLine
    BY <1>8 DEF StateLine
  <1>9. CASE NotSeen
    BY <1>9 DEF NotSeen
  <1>10. CASE TestStart
    BY <1>10 DEF TestStart
  <1>11. CASE CaptureDelayed
    BY <1>11 DEF CaptureDelayed
  <1>12. CASE WriteEvidence
    <2>1. CASE step = 1
      <3>1. UNCHANGED <<flags, vsh, evidence>>
        BY <1>12, <2>1 DEF WriteEvidence
      <3>2. step' = 1 \/ (step' = 2 /\ wpc' \in Evidences /\ flags["vsh"])
        BY <1>12, <2>1 DEF WriteEvidence, EvidenceEnds, EvidenceContinues
      <3>3. step' = 1 => VshCopied'
        BY <3>1
      <3>4. step' = 2 /\ wpc' \in Evidences /\ flags["vsh"] => VshCopied'
        BY <3>1
      <3> QED
        BY <3>2, <3>3, <3>4
    <2>2. CASE step = 2
      BY <1>12, <2>2, EvidenceGoto DEF WriteEvidence, EvidenceEnds, EvidenceContinues
    <2>3. CASE step = 3
      <3>1. UNCHANGED <<wpc, flags, vsh>> /\ step' = 4 /\ wpc \in Evidences
        BY <1>12, <2>3 DEF WriteEvidence, EvidenceContinues
      <3>2. evidence' = IF Selective THEN [evidence EXCEPT !.patch = vsh.patch] ELSE evidence
        BY <1>12, <2>3 DEF WriteEvidence
      <3>3. /\ evidence'.identity = evidence.identity /\ evidence'.code = evidence.code
            /\ evidence'.patch \in {evidence.patch, vsh.patch}
        BY <3>2
      <3>4. flags["vsh"] /\ evidence.identity = vsh.identity /\ vsh.patch # "applied"
        BY <3>1, <2>3 DEF Recording
      <3> QED
        BY <3>1, <3>3, <3>4
    <2>4. CASE step = 4
      BY <1>12, <2>4, EvidenceGoto DEF WriteEvidence, EvidenceEnds, EvidenceContinues
    <2> QED
      BY <1>12, <2>1, <2>2, <2>3, <2>4 DEF WriteEvidence
  <1>13. CASE WriteEvents
    BY <1>13 DEF WriteEvents
  <1>14. CASE WriteProbeResult
    BY <1>14 DEF WriteProbeResult
  <1>15. CASE WriteProbeSnapshot
    BY <1>15 DEF WriteProbeSnapshot
  <1>16. CASE TestLabel
    BY <1>16 DEF TestLabel
  <1>17. CASE WriteStartSnapshot
    BY <1>17 DEF WriteStartSnapshot
  <1>18. CASE WriteDelayed
    BY <1>18 DEF WriteDelayed
  <1> QED
    BY <1>1, <1>2, <1>3, <1>4, <1>5, <1>6, <1>7, <1>8, <1>9, <1>10, <1>11,
       <1>12, <1>13, <1>14, <1>15, <1>16, <1>17, <1>18
    DEF Writer

\* EvidenceWhole: what is persisted of vsh_module comes from one start of it, is
\* complete, and shows a patched call site only when it is synchronised.
THEOREM EvidenceKept == Spec => []EvidenceWhole
  <1>1. Init => VshPublished /\ VshCopied
    BY DEF Init, VshPublished, VshCopied, Recording, Evidences, Scans, Flags,
           CheckpointNames, Checkpoints
  <1>2. TypeOK /\ VshPublished /\ VshCopied /\ [Next]_vars => (VshPublished /\ VshCopied)'
    <2> SUFFICES ASSUME TypeOK, VshPublished, VshCopied, [Next]_vars
                 PROVE (VshPublished /\ VshCopied)'
      OBVIOUS
    <2>1. CASE Loader
      <3>1. VshPublished'
        BY <2>1, VshPublishedLoader DEF TypeOK
      <3>2. UNCHANGED <<wpc, step, evidence>>
        BY <2>1, LoaderFrame DEF writer
      <3>3. flags["vsh"] => flags'["vsh"] /\ vsh' = vsh
        BY <2>1, VshStable, FlagsStable DEF TypeOK, Flags, CheckpointNames, Checkpoints
      <3> QED
        BY <3>1, <3>2, <3>3 DEF VshCopied
    <2>2. CASE Writer
      BY <2>2, WriterFrame, VshCopiedWriter DEF VshPublished, flagged, captured, loader
    <2>3. CASE UNCHANGED vars
      BY <2>3 DEF vars, flagged, captured, loader, writer, VshPublished, VshCopied
    <2> QED
      BY <2>1, <2>2, <2>3 DEF Next
  <1>3. VshPublished /\ VshCopied => EvidenceWhole
    BY DEF VshPublished, VshCopied, EvidenceWhole
  <1> QED
    BY <1>1, <1>2, <1>3, TypeCorrect, PTL DEF Spec

-----------------------------------------------------------------------------
(* What the log says, and when it may say it.                               *)

\* A line more is a line more: what was logged stays so.
LEMMA PersistLogs ==
  ASSUME TypeOK, NEW what, NEW value, Persist(Line(what, value)), NEW w
  PROVE  Logged(w)' <=> (Logged(w) \/ w = what)
  <1> DEFINE n == Len(log) + 1
  <1>1. /\ DOMAIN log' = DOMAIN log \cup {n}
        /\ log'[n] = Line(what, value)
        /\ \A i \in DOMAIN log : log'[i] = log[i]
    BY DEF Persist, TypeOK
  <1> HIDE DEF n
  <1>2. log'[n].what = what
    BY <1>1 DEF Line
  <1> QED
    BY <1>1, <1>2 DEF Logged

\* The three lines the report begins with.
LEMMA EventsLogged ==
  ASSUME TypeOK, WriteEvents, NEW w
  PROVE  /\ Logged(w) => Logged(w)'
         /\ Logged("startSeen")' => Logged("startSeen")
  <1> DEFINE e == (IF flags["request"] THEN <<Line("requestSeen", 0)>> ELSE <<>>)
                  \o (IF flags["rco"] THEN <<Line("rcoSeen", 0)>> ELSE <<>>)
                  \o <<Line("probeSeen", 0)>>
             S == {line \in Lines : line.what # "startSeen"}
  <1>1. e \in Seq(S)
    <2>1. Line("requestSeen", 0) \in S /\ Line("rcoSeen", 0) \in S /\ Line("probeSeen", 0) \in S
      BY DEF Line, Lines, Events
    <2> HIDE DEF S
    <2>2. <<Line("requestSeen", 0)>> \in Seq(S) /\ <<Line("rcoSeen", 0)>> \in Seq(S)
          /\ <<Line("probeSeen", 0)>> \in Seq(S) /\ <<>> \in Seq(S)
      BY <2>1
    <2> QED
      BY <2>2
  <1>2. log' = log \o e
    <2> DEFINE a == IF flags["request"] THEN <<Line("requestSeen", 0)>> ELSE <<>>
               b == IF flags["rco"] THEN <<Line("rcoSeen", 0)>> ELSE <<>>
               c == <<Line("probeSeen", 0)>>
    <2>1. log \in Seq(Lines) /\ a \in Seq(Lines) /\ b \in Seq(Lines) /\ c \in Seq(Lines)
      <3>1. Line("requestSeen", 0) \in Lines /\ Line("rcoSeen", 0) \in Lines
            /\ Line("probeSeen", 0) \in Lines
        BY DEF Line, Lines, Events
      <3> QED
        BY <3>1 DEF TypeOK
    <2>2. log' = ((log \o a) \o b) \o c /\ e = (a \o b) \o c
      BY DEF WriteEvents
    <2> HIDE DEF a, b, c
    <2>3. ((log \o a) \o b) \o c = log \o ((a \o b) \o c)
      BY <2>1
    <2> HIDE DEF e
    <2> QED
      BY <2>2, <2>3
  <1>3. \A i \in DOMAIN e : e[i] \in S
    BY <1>1
  <1> HIDE DEF e
  <1>4. log \in Seq(Lines) /\ e \in Seq(Lines)
    <2>1. S \subseteq Lines
      OBVIOUS
    <2> HIDE DEF S
    <2> QED
      BY <1>1, <2>1 DEF TypeOK
  <1>5. /\ \A i \in DOMAIN log : i \in DOMAIN log' /\ log'[i] = log[i]
        /\ \A i \in DOMAIN log' : i \in DOMAIN log \/ \E j \in DOMAIN e : log'[i] = e[j]
    <2>1. Len(log') = Len(log) + Len(e)
          /\ \A i \in 1..Len(log') : log'[i] = IF i <= Len(log) THEN log[i] ELSE e[i - Len(log)]
      BY <1>2, <1>4
    <2>2. DOMAIN log' = 1..Len(log') /\ DOMAIN log = 1..Len(log) /\ DOMAIN e = 1..Len(e)
          /\ Len(log) \in Nat /\ Len(e) \in Nat
      BY <1>2, <1>4
    <2>3. \A i \in DOMAIN log' : i \notin DOMAIN log =>
              i - Len(log) \in DOMAIN e /\ log'[i] = e[i - Len(log)]
      BY <2>1, <2>2
    <2> QED
      BY <2>1, <2>2, <2>3
  <1> QED
    BY <1>3, <1>5 DEF Logged

LEMMA LoggedStep ==
  ASSUME TypeOK, Writer
  PROVE  /\ \A w : Logged(w) => Logged(w)'
         /\ Logged("startSeen")' =>
                Logged("startSeen") \/ (wpc = "testLabel" /\ flags["sawStart"] /\ wpc' = "startSnapshot")
         /\ Logged("probeSeen")' => Logged("probeSeen") \/ wpc = "events"
  <1>1. CASE log' = log
    BY <1>1 DEF Logged
  <1>2. CASE \E what \in Events \ {"startSeen", "probeSeen"}, value \in Int : Persist(Line(what, value))
    BY <1>2, PersistLogs
  <1>3. CASE WriteCheckpoint
    <2>1. CASE Persist(CheckpointLine(Checkpoints[step]))
      <3>1. Checkpoints[step] \in CheckpointNames
        BY <1>3, CheckpointFacts DEF WriteCheckpoint, TypeOK, WriterTypeOK
      <3>2. Checkpoints[step] \notin {"startSeen", "probeSeen"}
        BY <3>1 DEF CheckpointNames, Checkpoints
      <3>3. \A w : Logged(w)' <=> (Logged(w) \/ w = Checkpoints[step])
        BY <2>1, PersistLogs DEF CheckpointLine
      <3> QED
        BY <3>2, <3>3
    <2> QED
      BY <1>1, <1>3, <2>1 DEF WriteCheckpoint, CheckpointLine
  <1>4. CASE WriteEvents
    BY <1>4, EventsLogged DEF WriteEvents, WGoto
  <1>5. CASE TestLabel
    <2>1. CASE flags["sawStart"]
      <3>1. wpc = "testLabel" /\ wpc' = "startSnapshot" /\ Persist(Line("startSeen", 0))
        BY <1>5, <2>1 DEF TestLabel, WGoto
      <3>2. \A w : Logged(w)' <=> (Logged(w) \/ w = "startSeen")
        BY <3>1, PersistLogs
      <3> QED
        BY <2>1, <3>1, <3>2
    <2>2. CASE ~flags["sawStart"]
      <3>1. Persist(Line("startNotSeen", 0))
        BY <1>5, <2>2 DEF TestLabel
      <3> QED
        BY <1>2, <3>1 DEF Events
    <2> QED
      BY <2>1, <2>2
  <1>6. CASE Begin
    BY <1>2, <1>6 DEF Begin, Events
  <1>7. CASE StateLine
    BY <1>2, <1>7 DEF StateLine, Events
  <1>8. CASE NotSeen
    BY <1>2, <1>8 DEF NotSeen, Events
  <1>9. CASE WriteProbeResult
    BY <1>2, <1>9 DEF WriteProbeResult, Events, TypeOK, LoaderTypeOK
  <1>10. CASE WriteDelayed
    BY <1>2, <1>10 DEF WriteDelayed, Events
  <1>11. CASE \/ CreateThread \/ ScanDone \/ TestProbe \/ TestStart \/ CaptureDelayed
              \/ WriteEvidence \/ WriteProbeSnapshot \/ WriteStartSnapshot
              \/ TestWait("probeWait", "sawProbe", ProbePolls, "probeScan", "probeLast")
              \/ TestWait("startWait", "sawStart", StartPolls, "startScan", "startLast")
              \/ Poll("probeSleep", "probeWait") \/ Poll("startSleep", "startWait")
    BY <1>1, <1>11 DEF CreateThread, ScanDone, TestProbe, TestStart, CaptureDelayed,
         WriteEvidence, WriteProbeSnapshot, WriteStartSnapshot, TestWait, Poll
  <1> QED
    BY <1>3, <1>4, <1>5, <1>6, <1>7, <1>8, <1>9, <1>10, <1>11 DEF Writer

-----------------------------------------------------------------------------
(* The report and the checkpoints.                                          *)

\* The entry of a probe is flagged before its capture is published.
EntryFlagged ==
    /\ lpc \in Capturing => flags["probeEntered"]
    /\ flags["sawProbe"] => flags["probeEntered"]

\* The scan before a report has tested that flag when it is past its checkpoint.
EntryLogged ==
    /\ wpc \in {"none", "begin", "probeWait", "probeSleep", "testProbe", "startWait", "startSleep"} =>
           step = 1
    /\ "probeEntered" \in written => Logged("probeEntered")
    /\ wpc = "startLast" /\ step > 4 => Logged("probeEntered")
    /\ wpc \in {"testStart", "delay", "timeoutCapture", "reportEvidence", "events"} =>
           Logged("probeEntered")

LEMMA EntryFlaggedLoader ==
  ASSUME LoaderTypeOK, EntryFlagged, Loader
  PROVE  EntryFlagged'
  <1> USE DEF LoaderTypeOK, EntryFlagged, Capturing, Raise, LGoto, flagged, loader, Flags,
              CheckpointNames, Checkpoints
  <1>1. CASE OpenPrx \/ OpenRco
    BY <1>1 DEF OpenPrx, OpenRco
  <1>2. CASE ProbeEnter
    BY <1>2 DEF ProbeEnter
  <1>3. CASE ProbeCapture
    BY <1>3 DEF ProbeCapture
  <1>4. CASE SawProbe
    BY <1>4 DEF SawProbe
  <1>5. CASE ProbeReturning
    BY <1>5 DEF ProbeReturning
  <1>6. CASE Start
    BY <1>6 DEF Start, StartEnter, StartCapture, StartCopy, PreviousReturned, StartReturning, SawStart
  <1>7. CASE RecordVsh
    BY <1>7 DEF RecordVsh, VshStart, RecordIdentity, RecordCode, PatchCallsite, SyncCallsite, VshSeen
  <1>8. ASSUME NEW r \in Results, ProbeResult(r)
        PROVE EntryFlagged'
    BY <1>8 DEF ProbeResult
  <1> QED
    BY <1>1, <1>2, <1>3, <1>4, <1>5, <1>6, <1>7, <1>8 DEF Loader, Probe

LEMMA EntryLoggedWriter ==
  ASSUME TypeOK, EntryFlagged, ProbeCopied, EntryLogged, Writer
  PROVE  EntryLogged'
  <1>0. Logged("probeEntered") => Logged("probeEntered")'
    BY LoggedStep
  <1> USE <1>0 DEF EntryLogged, WGoto
  <1>1. CASE \/ TestWait("probeWait", "sawProbe", ProbePolls, "probeScan", "probeLast")
           \/ TestWait("startWait", "sawStart", StartPolls, "startScan", "startLast")
    BY <1>1 DEF TestWait
  <1>2. CASE Poll("probeSleep", "probeWait") \/ Poll("startSleep", "startWait")
    BY <1>2 DEF Poll
  <1>3. CASE CreateThread \/ Begin
    BY <1>3 DEF CreateThread, Begin
  <1>4. CASE WriteCheckpoint
    <2>1. step \in 1..8 /\ step' = step + 1 /\ wpc' = wpc /\ wpc \in Scans
      BY <1>4, CheckpointFacts DEF WriteCheckpoint, TypeOK, WriterTypeOK
    <2>2. Checkpoints[4] = "probeEntered" /\ \A i \in 1..8 : Checkpoints[i] = "probeEntered" => i = 4
      BY DEF Checkpoints
    <2>3. ASSUME "probeEntered" \in written'
          PROVE  Logged("probeEntered")'
      <3>1. CASE "probeEntered" \in written
        BY <3>1
      <3>2. CASE "probeEntered" \notin written
        <4>1. Checkpoints[step] = "probeEntered" /\ Persist(CheckpointLine(Checkpoints[step]))
          BY <1>4, <2>3, <3>2 DEF WriteCheckpoint, CheckpointLine
        <4> QED
          BY <4>1, PersistLogs DEF CheckpointLine
      <3> QED
        BY <3>1, <3>2
    <2>4. ASSUME wpc = "startLast", step = 4
          PROVE  "probeEntered" \in written'
      <3>1. flags["probeEntered"]
        BY <2>4 DEF ProbeCopied, AfterProbe, EntryFlagged
      <3> QED
        BY <1>4, <2>2, <2>4, <3>1 DEF WriteCheckpoint
    <2>5. wpc = "startLast" /\ step' > 4 => Logged("probeEntered")'
      <3>1. step' > 4 => step > 4 \/ step = 4
        BY <2>1
      <3> QED
        BY <2>3, <2>4, <3>1
    <2>6. wpc \notin {"none", "begin", "probeWait", "probeSleep", "testProbe", "startWait", "startSleep",
                      "testStart", "delay", "timeoutCapture", "reportEvidence", "events"}
      BY <2>1 DEF Scans
    <2> QED
      BY <2>1, <2>3, <2>5, <2>6
  <1>5. CASE ScanDone
    <2>1. step = 9 /\ step' = 1 /\ wpc \in Scans /\ wpc' = AfterScan[wpc] /\ written' = written
      BY <1>5, CheckpointFacts DEF ScanDone, TypeOK, WriterTypeOK
    <2>2. wpc' \in {"probeSleep", "testProbe", "startSleep", "testStart"}
          /\ (wpc' = "testStart" => wpc = "startLast")
      BY <2>1 DEF Scans, AfterScan
    <2> QED
      BY <2>1, <2>2
  <1>6. CASE TestProbe \/ StateLine \/ NotSeen \/ TestStart \/ CaptureDelayed
    BY <1>6 DEF TestProbe, StateLine, NotSeen, TestStart, CaptureDelayed
  <1>7. CASE WriteEvidence
    <2>1. wpc' \in {"timeoutEvidence", "notSeen"}
          \/ (wpc = "reportEvidence" /\ wpc' \in {"reportEvidence", "events", "notSeen"})
      BY <1>7, EvidenceGoto DEF Evidences
    <2>2. written' = written
      BY <1>7 DEF WriteEvidence
    <2> QED
      BY <2>1, <2>2
  <1>8. CASE WriteEvents \/ WriteProbeResult \/ WriteProbeSnapshot \/ TestLabel
             \/ WriteStartSnapshot \/ WriteDelayed
    BY <1>8 DEF WriteEvents, WriteProbeResult, WriteProbeSnapshot, TestLabel,
                WriteStartSnapshot, WriteDelayed
  <1> QED
    BY <1>1, <1>2, <1>3, <1>4, <1>5, <1>6, <1>7, <1>8 DEF Writer

\* ProbeSeenCheckpointed: the report never speaks of a probe whose entry the
\* persisted checkpoints do not show (kernel/main.c:1405-1432).
THEOREM ProbeSeenCheckpointedKept == Spec => []ProbeSeenCheckpointed
  <1> DEFINE Inv == EntryFlagged /\ EntryLogged /\ ProbeSeenCheckpointed
  <1>1. Init => Inv
    BY DEF Init, EntryFlagged, EntryLogged, ProbeSeenCheckpointed, Logged, Capturing, Flags
  <1>2. TypeOK /\ ProbeCopied /\ Inv /\ [Next]_vars => Inv'
    <2> SUFFICES ASSUME TypeOK, ProbeCopied, Inv, [Next]_vars
                 PROVE Inv'
      OBVIOUS
    <2>1. CASE Loader
      <3>1. EntryFlagged'
        BY <2>1, EntryFlaggedLoader DEF TypeOK
      <3>2. UNCHANGED writer
        BY <2>1, LoaderFrame
      <3> QED
        BY <3>1, <3>2 DEF writer, EntryLogged, ProbeSeenCheckpointed, Logged
    <2>2. CASE Writer
      <3>1. EntryFlagged'
        BY <2>2, WriterFrame DEF EntryFlagged, flagged, loader
      <3>2. EntryLogged'
        BY <2>2, EntryLoggedWriter
      <3>3. ProbeSeenCheckpointed'
        BY <2>2, LoggedStep DEF ProbeSeenCheckpointed, EntryLogged
      <3> QED
        BY <3>1, <3>2, <3>3
    <2>3. CASE UNCHANGED vars
      BY <2>3 DEF vars, flagged, captured, loader, writer, EntryFlagged, EntryLogged,
                  ProbeSeenCheckpointed, Logged
    <2> QED
      BY <2>1, <2>2, <2>3 DEF Next
  <1> QED
    BY <1>1, <1>2, ProbeInvariant, PTL DEF Spec

-----------------------------------------------------------------------------
(* The one load of a console that loads the plugin once.                    *)

\* Where the loader is once a load has begun.
Loading == LoaderSteps \ {"idle", "vshIdentity", "vshCode", "vshPatch", "vshSync", "vshSeen"}

\* The pre-start snapshot and the copy of the module are whole before saw_start
\* is published, and the loader does nothing after that but open resources.
StartPublished ==
    /\ lpc \in Loading => loads = 1
    /\ lpc = "startHalf" => pre_start[1] = 1
    /\ lpc \in {"startCaptured", "startCopied", "startPrevious", "startReturning", "loaded"} =>
           pre_start = <<1, 1>>
    /\ lpc \in {"startCopied", "startPrevious", "startReturning", "loaded"} => module = 1
    /\ flags["sawStart"] => lpc = "loaded"

\* The writer copies them only when it has found saw_start set.
StartCopied ==
    /\ wpc \in {"startSnapshot", "startSnapshotEnd", "startModule"} => flags["sawStart"]
    /\ wpc = "startSnapshotEnd" => snapshots.pre_start[1] = 1
    /\ wpc = "startModule" => snapshots.pre_start = <<1, 1>>
    /\ Logged("startSeen") =>
           wpc \in {"startSnapshot", "startSnapshotEnd", "startModule", "label", "exited"}
    /\ Logged("startSeen") /\ wpc \in {"label", "exited"} =>
           snapshots.pre_start = <<1, 1>> /\ snapshots.module = 1

LEMMA StartPublishedLoader ==
  ASSUME MaxLoads = 1, LoaderTypeOK, StartPublished, Loader
  PROVE  StartPublished'
  <1> USE DEF LoaderTypeOK, LoaderSteps, Snapshot, StartPublished, Loading, Raise, LGoto,
              flagged, captured, loader, Flags, CheckpointNames, Checkpoints
  <1>1. CASE OpenPrx
    BY <1>1 DEF OpenPrx
  <1>2. CASE OpenRco
    BY <1>2 DEF OpenRco
  <1>3. CASE ProbeEnter
    BY <1>3 DEF ProbeEnter
  <1>4. CASE ProbeCapture
    BY <1>4 DEF ProbeCapture
  <1>5. CASE SawProbe
    BY <1>5 DEF SawProbe
  <1>6. CASE ProbeReturning
    BY <1>6 DEF ProbeReturning
  <1>7. CASE StartEnter
    BY <1>7 DEF StartEnter
  <1>8. CASE StartCapture
    BY <1>8 DEF StartCapture
  <1>9. CASE StartCopy
    BY <1>9 DEF StartCopy
  <1>10. CASE PreviousReturned
    BY <1>10 DEF PreviousReturned
  <1>11. CASE StartReturning
    BY <1>11 DEF StartReturning
  <1>12. CASE SawStart
    BY <1>12 DEF SawStart
  <1>13. CASE RecordVsh
    BY <1>13 DEF RecordVsh, VshStart, RecordIdentity, RecordCode, PatchCallsite, SyncCallsite, VshSeen
  <1>14. ASSUME NEW r \in Results, ProbeResult(r)
        PROVE StartPublished'
    BY <1>14 DEF ProbeResult
  <1> QED
    BY <1>1, <1>2, <1>3, <1>4, <1>5, <1>6, <1>7, <1>8, <1>9, <1>10, <1>11,
       <1>12, <1>13, <1>14 DEF Loader, Probe, Start

LEMMA StartCopiedWriter ==
  ASSUME TypeOK, StartPublished, StartCopied, Writer
  PROVE  StartCopied'
  <1>0. /\ Logged("startSeen") => Logged("startSeen")'
        /\ Logged("startSeen")' =>
               Logged("startSeen") \/ (wpc = "testLabel" /\ flags["sawStart"] /\ wpc' = "startSnapshot")
        /\ flags' = flags
    BY LoggedStep, WriterFrame DEF flagged
  <1> USE <1>0 DEF StartCopied, WGoto
  <1>1. CASE \/ TestWait("probeWait", "sawProbe", ProbePolls, "probeScan", "probeLast")
           \/ TestWait("startWait", "sawStart", StartPolls, "startScan", "startLast")
    BY <1>1 DEF TestWait
  <1>2. CASE Poll("probeSleep", "probeWait") \/ Poll("startSleep", "startWait")
    BY <1>2 DEF Poll
  <1>3. CASE CreateThread \/ Begin
    BY <1>3 DEF CreateThread, Begin
  <1>4. CASE WriteCheckpoint \/ ScanDone
    BY <1>4 DEF WriteCheckpoint, ScanDone, Scans, AfterScan
  <1>5. CASE TestProbe \/ StateLine \/ NotSeen \/ TestStart \/ CaptureDelayed
    BY <1>5 DEF TestProbe, StateLine, NotSeen, TestStart, CaptureDelayed
  <1>6. CASE WriteEvidence
    <2>1. /\ wpc \in Evidences /\ wpc' \in {"timeoutEvidence", "reportEvidence", "notSeen", "events"}
          /\ snapshots' = snapshots
      BY <1>6, EvidenceGoto DEF Evidences, WriteEvidence
    <2> QED
      BY <2>1 DEF Evidences
  <1>7. CASE WriteEvents \/ WriteProbeResult \/ TestLabel \/ WriteDelayed
    BY <1>7 DEF WriteEvents, WriteProbeResult, TestLabel, WriteDelayed
  <1>8. CASE WriteProbeSnapshot
    BY <1>8 DEF WriteProbeSnapshot
  <1>9. CASE WriteStartSnapshot
    <2>1. flags["sawStart"] /\ pre_start = <<1, 1>> /\ module = 1
      BY <1>9 DEF WriteStartSnapshot, StartPublished
    <2>2. snapshots \in [at_probe : Snapshot, pre_start : Snapshot, module : 0..MaxLoads]
      BY DEF TypeOK, WriterTypeOK
    <2>3. \A a, b : <<a, b>>[1] = a /\ <<a, b>>[2] = b
      OBVIOUS
    <2>4. CASE wpc = "startSnapshot"
      <3>1. snapshots'.pre_start = <<1, snapshots.pre_start[2]>> /\ wpc' = "startSnapshotEnd"
        BY <1>9, <2>1, <2>2, <2>3, <2>4 DEF WriteStartSnapshot
      <3>2. snapshots'.pre_start[1] = 1
        BY <3>1, <2>3
      <3> QED
        BY <2>1, <3>1, <3>2
    <2>5. CASE wpc = "startSnapshotEnd"
      <3>1. snapshots'.pre_start = <<1, 1>> /\ wpc' = "startModule"
        BY <1>9, <2>1, <2>2, <2>3, <2>5 DEF WriteStartSnapshot
      <3> QED
        BY <2>1, <3>1
    <2>6. CASE wpc = "startModule"
      <3>1. snapshots'.pre_start = <<1, 1>> /\ snapshots'.module = 1 /\ wpc' = "label"
        BY <1>9, <2>1, <2>2, <2>6 DEF WriteStartSnapshot
      <3> QED
        BY <3>1
    <2> QED
      BY <1>9, <2>4, <2>5, <2>6 DEF WriteStartSnapshot
  <1> QED
    BY <1>1, <1>2, <1>3, <1>4, <1>5, <1>6, <1>7, <1>8, <1>9 DEF Writer

\* StartSnapshotWhole: of the one load of the plugin, the pre-start snapshot and
\* the module that the report describes were captured whole before the writer
\* read them (kernel/main.c:1492-1502, 1447-1451).
THEOREM StartSnapshotKept == Spec => []StartSnapshotWhole
  <1> DEFINE Inv == MaxLoads = 1 => StartPublished /\ StartCopied
  <1>1. Init => Inv
    BY DEF Init, StartPublished, StartCopied, Loading, Logged, Flags
  <1>2. TypeOK /\ Inv /\ [Next]_vars => Inv'
    <2> SUFFICES ASSUME TypeOK, StartPublished, StartCopied, MaxLoads = 1, [Next]_vars
                 PROVE StartPublished' /\ StartCopied'
      OBVIOUS
    <2>1. CASE Loader
      <3>1. StartPublished'
        BY <2>1, StartPublishedLoader DEF TypeOK
      <3>2. UNCHANGED writer /\ (flags["sawStart"] => flags'["sawStart"])
        BY <2>1, LoaderFrame, FlagsStable DEF TypeOK, Flags
      <3> QED
        BY <3>1, <3>2 DEF writer, StartCopied, Logged
    <2>2. CASE Writer
      <3>1. StartPublished'
        BY <2>2, WriterFrame DEF StartPublished, flagged, captured, loader
      <3> QED
        BY <2>2, <3>1, StartCopiedWriter
    <2>3. CASE UNCHANGED vars
      BY <2>3 DEF vars, flagged, captured, loader, writer, StartPublished, StartCopied, Logged
    <2> QED
      BY <2>1, <2>2, <2>3 DEF Next
  <1>3. Inv => StartSnapshotWhole
    BY DEF StartSnapshotWhole, StartCopied
  <1> QED
    BY <1>1, <1>2, <1>3, TypeCorrect, PTL DEF Spec
=============================================================================
