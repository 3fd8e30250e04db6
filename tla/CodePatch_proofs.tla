-------------------------- MODULE CodePatch_proofs --------------------------
(* Theorems of CodePatch, for every value of its constants.                 *)
EXTENDS CodePatch, TLAPS

\* The index in libs, less one, of the library of the n-th stub.
LibOf(n) == IF n <= 3 THEN 0 ELSE IF n = 4 THEN 1 ELSE IF n <= 6 THEN 2 ELSE 3

\* The resolver keeps pace with libs, and what it has passed is resolved.
ResolverInv ==
    /\ count = LibOf(i)
    /\ firmware # "other" =>
         \A n \in 1..8 :
            (/\ bpc # "resolve" \/ n <= i
             /\ nids[n] \in exported /\ Nid(nids[n], firmware) # NoNid) => nids[n] \in own

\* The import of the module manager, at each step of the hooking.  The hook is
\* only ever written when this module's own stub leads to the probe.
ImportInv ==
    /\ moduleprobe_nid = FirmwareNid(Probe, firmware) => Probe \in own
    /\ (bpc \in {"write", "writeback", "invalidate"} \/ hooked) => Probe \in own
    /\ hooked => bpc = "done"
    /\ (~hooked /\ bpc \notin {"writeback", "invalidate"}) =>
         mem["import"] = Direct /\ dcache["import"] = None
         /\ icache["import"] \in {None, Direct}
    /\ bpc = "writeback" =>
         /\ mem["import"] \in {Direct, Hook} /\ dcache["import"] \in {None, Hook}
         /\ dcache["import"] = None => mem["import"] = Hook
    /\ bpc = "invalidate" => mem["import"] = Hook /\ dcache["import"] = None
    /\ hooked => mem["import"] = Hook /\ dcache["import"] = None
                 /\ icache["import"] \in {None, Hook}

\* A probe is in the hook only when that stub leads on.
ProbeInv ==
    /\ ppc \in {"hook", "own"} => Probe \in own
    /\ ppc = "own" => passed
    /\ ProbesArrive

PatchedEntry ==
    <<Jump("InjectionEntryFuncInit", 0), Nop, Call("zeroCtrlGetCurrentClockLocalTime")>>

StubWords ==
    <<Original("first", version), Original("second", version), Jump(address, 8)>>

\* The two lines of the slide plugin's init, at each step from its load to its
\* run: after the patch a data access finds the new words, after ClearCaches a
\* fetch does.
SlideInv ==
    /\ lpc = "loaded" => mem[address] = Image(version) /\ dcache[address] = None
    /\ lpc \in {"patched", "cleared"} =>
         Data(address) = PatchedEntry /\ Data("stub") = StubWords
    /\ lpc = "cleared" => icache[address] = None
    /\ lpc \in {"started", "hook", "jump"} =>
         /\ mem[address] = PatchedEntry /\ dcache[address] = None
         /\ icache[address] \in {None, PatchedEntry}
    /\ lpc \in {"started", "hook"} => mem["stub"] = StubWords /\ dcache["stub"] = None
    /\ (lpc \in {"cleared", "started", "hook"} /\ ~refilled) =>
         icache["stub"] \in {None, StubWords}
    /\ lpc \in {"hook", "jump"} => ran.entry = Jump("InjectionEntryFuncInit", 0)
    /\ (lpc = "jump" /\ ~refilled) => ran.stub = StubWords
    /\ InitPatched

\* What the steps below need of the types.
LinesTyped ==
    /\ mem \in [Lines -> Line]
    /\ dcache \in [Lines -> Line \cup {None}] /\ icache \in [Lines -> Line \cup {None}]
    /\ address \in Addresses /\ version \in 0..MaxLoads
    /\ ran \in [entry : Word, stub : Line, call : Word]

-----------------------------------------------------------------------------
(* The slide plugin.                                                        *)

LEMMA SlideStep ==
  ASSUME LinesTyped, SlideInv, [Next]_vars
  PROVE  SlideInv'
  <1> USE PatchAssumption DEF LinesTyped, SlideInv, Lines, Data, Code, None, InitPatched,
          StubWords, PatchedEntry, Image, Jump, Original, Call, Nop
  <1>1. CASE Boot
    <2>1. UNCHANGED plugin
      BY <1>1 DEF Boot, Resolve, Resolved, FindManager, FindImport, WriteImport,
                  WritebackImport, InvalidateImport, BGoto
    <2>2. \A l \in Addresses \cup {"stub"} :
            mem'[l] = mem[l] /\ dcache'[l] = dcache[l] /\ icache'[l] = icache[l]
      BY <1>1 DEF Boot, Resolve, Resolved, FindManager, FindImport, WriteImport,
                  WritebackImport, InvalidateImport, BGoto, Store, WritebackInvalidate,
                  Invalidate, lines
    <2> QED
      BY <2>1, <2>2 DEF plugin
  <1>2. CASE ProbeModule
    <2>1. UNCHANGED plugin
      BY <1>2 DEF ProbeModule, CallImport, ReplaceImage, CallOwn, EndProbe
    <2>2. CASE ReplaceImage
      <3>1. CASE UNCHANGED lines
        BY <2>1, <3>1 DEF plugin, lines
      <3>2. CASE mem' = WrittenBack /\ dcache' = NoLines /\ icache' = NoLines
        <4>1. \A l \in Lines : mem'[l] = Data(l) /\ dcache'[l] = None /\ icache'[l] = None
          BY <3>2 DEF WrittenBack, NoLines
        <4>2. address \in Lines /\ "stub" \in Lines
          OBVIOUS
        <4> HIDE DEF Lines
        <4> QED
          BY <2>1, <4>1, <4>2 DEF plugin
      <3> QED
        BY <2>2, <3>1, <3>2 DEF ReplaceImage
    <2>3. CASE CallImport
      <3>1. /\ UNCHANGED <<mem, dcache>>
            /\ icache'[address] = icache[address] /\ icache'["stub"] = icache["stub"]
        BY <2>3 DEF CallImport, Fetch
      <3> QED
        BY <2>1, <3>1 DEF plugin
    <2>4. CASE CallOwn \/ EndProbe
      BY <2>1, <2>4 DEF CallOwn, EndProbe, plugin, lines
    <2> QED
      BY <1>2, <2>2, <2>3, <2>4 DEF ProbeModule
  <1>3. CASE Load
    BY <1>3 DEF Load, LGoto
  <1>4. CASE PatchPlugin
    <2>1. Data(address) = Image(version)
      BY <1>4 DEF PatchPlugin, LGoto
    <2>2. /\ Image(version)[1] = Original("first", version)
          /\ Image(version)[2] = Original("second", version)
      BY DEF Image
    <2>3. StubOf(Data(address)) = StubWords
      BY <2>1, <2>2 DEF StubOf, StubWords
    <2>4. /\ dcache' = [dcache EXCEPT !["stub"] = StubWords, ![address] = PatchedEntry]
          /\ lpc' = "patched" /\ UNCHANGED <<address, version>>
      BY <1>4, <2>3 DEF PatchPlugin, LGoto
    <2>5. dcache'["stub"] = StubWords /\ dcache'[address] = PatchedEntry
      BY <2>4
    <2> QED
      BY <2>4, <2>5
  <1>5. CASE ClearInstructions
    BY <1>5 DEF ClearInstructions, LGoto, IcacheClearAll, NoLines
  <1>6. CASE WriteBackData
    BY <1>6 DEF WriteBackData, LGoto, DcacheWritebackAll, WrittenBack, NoLines
  <1>7. CASE RunEntry
    <2>1. /\ Code(address) = PatchedEntry /\ PatchedEntry[1] = Jump("InjectionEntryFuncInit", 0)
          /\ PatchedEntry[1][1] = "j"
      BY <1>7 DEF RunEntry
    <2>2. /\ lpc' = "hook" /\ ran' = [ran EXCEPT !.entry = Jump("InjectionEntryFuncInit", 0)]
          /\ icache' = [icache EXCEPT ![address] = PatchedEntry]
          /\ UNCHANGED <<mem, dcache, address, version, refilled>>
      BY <1>7, <2>1 DEF RunEntry, Fetch
    <2>3. ran'.entry = Jump("InjectionEntryFuncInit", 0)
      BY <2>2
    <2>4. icache'[address] = PatchedEntry /\ icache'["stub"] = icache["stub"]
      BY <2>2
    <2>5. StubWords' = StubWords /\ lpc = "started"
      BY <1>7, <2>2 DEF RunEntry
    <2> HIDE DEF StubWords, PatchedEntry, Jump, Call, Nop, Image, LinesTyped, Lines
    <2> QED
      BY <2>2, <2>3, <2>4, <2>5
  <1>8. CASE RunStub
    BY <1>8 DEF RunStub, LGoto, Fetch
  <1>9. CASE RunRest
    <2>1. CASE refilled
      BY <1>9, <2>1 DEF RunRest, LGoto
    <2>2. CASE ~refilled
      <3>1. ran.stub[3][2] = address /\ PatchedEntry[3] = Call("zeroCtrlGetCurrentClockLocalTime")
        <4>1. ran.stub = StubWords /\ StubWords[3] = Jump(address, 8)
              /\ PatchedEntry[3] = Call("zeroCtrlGetCurrentClockLocalTime")
          BY <1>9, <2>2 DEF RunRest, LGoto
        <4>2. Jump(address, 8)[2] = address
          BY DEF Jump
        <4> HIDE DEF Jump, Call
        <4> QED
          BY <4>1, <4>2
      <3>2. Code(address) = PatchedEntry
        BY <1>9 DEF RunRest, LGoto
      <3>3. ran' = [ran EXCEPT !.call = Call("zeroCtrlGetCurrentClockLocalTime")]
        BY <1>9, <3>1, <3>2 DEF RunRest
      <3> QED
        BY <1>9, <2>2, <3>3 DEF RunRest, LGoto
    <2> QED
      BY <2>1, <2>2
  <1>10. CASE Unload
    BY <1>10 DEF Unload, LGoto, lines
  <1>11. CASE CallNeighbour
    BY <1>11 DEF CallNeighbour, Fetch
  <1>12. ASSUME NEW l \in Lines, Evict(l)
         PROVE  SlideInv'
    BY ZenonT(60), <1>12 DEF Evict, WritebackInvalidate, Invalidate, plugin
  <1>13. CASE UNCHANGED vars
    BY <1>13 DEF vars, lines, plugin
  <1> QED
    BY <1>1, <1>2, <1>3, <1>4, <1>5, <1>6, <1>7, <1>8, <1>9, <1>10, <1>11, <1>12, <1>13
    DEF Next, SlidePlugin

-----------------------------------------------------------------------------
(* The boot.                                                                *)

\* The library that libs gives for a stub is the one that exports its function.
LEMMA LibExports ==
  ASSUME NEW n \in 1..8
  PROVE  nids[n] \in Exports(libs[LibOf(n) + 1].name) /\ nids[n] \in Functions
  <1>1. nids[n] \in Functions
    BY DEF Functions, nids
  <1>2. CASE n <= 3
    BY <1>1, <1>2 DEF LibOf, libs, Exports, nids
  <1>3. CASE n = 4
    BY <1>1, <1>3 DEF LibOf, libs, Exports, nids
  <1>4. CASE n = 5 \/ n = 6
    BY <1>1, <1>4 DEF LibOf, libs, Exports, nids, Probe, FindModule
  <1>5. CASE n = 7 \/ n = 8
    BY <1>1, <1>5 DEF LibOf, libs, Exports, nids
  <1> QED
    BY <1>2, <1>3, <1>4, <1>5

\* One turn of the loop looks the next stub up in its own library.
LEMMA ResolveTurn ==
  ASSUME ResolverInv, i \in 0..8, Resolve
  PROVE  /\ i' = i + 1 /\ i + 1 \in 1..8 /\ count' = LibOf(i + 1)
         /\ own \subseteq own'
         /\ nids[i + 1] \in exported /\ Nid(nids[i + 1], firmware) # NoNid => nids[i + 1] \in own'
         /\ \/ moduleprobe_nid' = moduleprobe_nid
            \/ (Probe \in own' /\ moduleprobe_nid' = FirmwareNid(Probe, firmware))
  <1>1. i' = i + 1 /\ i + 1 \in 1..8 /\ i \in 0..7
    BY DEF Resolve, nids
  <1>2. count' = LibOf(i + 1)
    BY <1>1 DEF Resolve, ResolverInv, LibOf, libs
  <1> DEFINE found == FindFunction(libs[count' + 1].name, Nid(nids[i + 1], firmware))
  <1>3. /\ own' = own \cup found
        /\ moduleprobe_nid' = IF Probe \in found THEN Nid(nids[i + 1], firmware)
                              ELSE moduleprobe_nid
    BY DEF Resolve
  <1>4. nids[i + 1] \in exported /\ Nid(nids[i + 1], firmware) # NoNid => nids[i + 1] \in found
    <2>1. Nid(nids[i + 1], firmware) # NoNid
            => Nid(nids[i + 1], firmware) = FirmwareNid(nids[i + 1], firmware)
      BY DEF Nid
    <2> QED
      BY <1>1, <1>2, <2>1, LibExports DEF FindFunction
  <1>5. Probe \in found => Nid(nids[i + 1], firmware) = FirmwareNid(Probe, firmware)
    BY DEF FindFunction
  <1> HIDE DEF found
  <1> QED
    BY <1>1, <1>2, <1>3, <1>4, <1>5

LEMMA ResolverStep ==
  ASSUME ResolverInv, i \in 0..8, [Next]_vars
  PROVE  ResolverInv'
  <1>1. CASE Resolve
    <2>1. bpc' = "resolve" /\ bpc = "resolve" /\ UNCHANGED <<firmware, exported>>
      BY <1>1 DEF Resolve
    <2>2. /\ i' = i + 1 /\ i + 1 \in 1..8 /\ count' = LibOf(i')
          /\ own \subseteq own'
          /\ nids[i + 1] \in exported /\ Nid(nids[i + 1], firmware) # NoNid => nids[i + 1] \in own'
      BY <1>1, ResolveTurn
    <2>3. ASSUME NEW n \in 1..8, firmware # "other", n <= i + 1,
                 nids[n] \in exported, Nid(nids[n], firmware) # NoNid
          PROVE  nids[n] \in own'
      <3>1. CASE n = i + 1
        BY <2>2, <2>3, <3>1
      <3>2. CASE n <= i
        BY <2>1, <2>2, <2>3, <3>2 DEF ResolverInv
      <3> QED
        BY <2>2, <2>3, <3>1, <3>2
    <2> QED
      BY <2>1, <2>2, <2>3 DEF ResolverInv
  <1>2. CASE Resolved
    <2>1. /\ i = 8 \/ firmware = "other"
          /\ bpc = "resolve" /\ bpc' = "find" /\ UNCHANGED <<firmware, exported, own, i, count>>
      BY <1>2 DEF Resolved, nids
    <2> QED
      BY <2>1 DEF ResolverInv
  <1>3. CASE Boot /\ ~Resolve /\ ~Resolved
    <2>1. bpc # "resolve" /\ UNCHANGED <<firmware, exported, own, i, count>>
      BY <1>3 DEF Boot, FindManager, FindImport, WriteImport, WritebackImport,
                  InvalidateImport, BGoto
    <2> QED
      BY <2>1 DEF ResolverInv
  <1>4. CASE UNCHANGED boot
    BY <1>4 DEF boot, ResolverInv
  <1>5. UNCHANGED boot \/ Boot
    BY DEF Next, ProbeModule, CallImport, ReplaceImage, CallOwn, EndProbe, SlidePlugin, Load,
           PatchPlugin, ClearInstructions, WriteBackData, RunEntry, RunStub, RunRest, Unload,
           CallNeighbour, LGoto, Evict, vars
  <1> QED
    BY <1>1, <1>2, <1>3, <1>4, <1>5

\* Each step of the hooking leaves the import as ImportInv says, and what
\* another thread does leaves it so.
LEMMA ImportStep ==
  ASSUME TypeOK, ResolverInv, ImportInv, [Next]_vars
  PROVE  ImportInv'
  <1> USE PatchAssumption DEF TypeOK, ImportInv, Lines, Data, Code, None
  <1>1. Direct # Hook /\ Direct # None /\ Hook # None
    BY DEF Direct, Hook, Jump, Nop, Probe
  <1> HIDE DEF None
  <1>2. CASE Resolve
    <2>1. UNCHANGED <<lines, firmware, bpc, hooked>> /\ bpc = "resolve"
      BY <1>2 DEF Resolve
    <2>2. /\ own \subseteq own'
          /\ \/ moduleprobe_nid' = moduleprobe_nid
             \/ (Probe \in own' /\ moduleprobe_nid' = FirmwareNid(Probe, firmware))
      BY <1>2, ResolveTurn DEF nids
    <2> QED
      BY <2>1, <2>2 DEF lines
  <1>3. CASE Resolved \/ FindManager \/ FindImport
    BY <1>3 DEF Resolved, FindManager, FindImport, BGoto, lines
  <1>4. CASE WriteImport
    BY <1>1, <1>4 DEF WriteImport, BGoto, Store
  <1>5. CASE WritebackImport
    BY <1>1, <1>5 DEF WritebackImport, BGoto, WritebackInvalidate
  <1>6. CASE InvalidateImport
    BY <1>1, <1>6 DEF InvalidateImport, BGoto, Invalidate
  <1>7. CASE CallImport
    BY <1>1, <1>7 DEF CallImport, Fetch, boot
  <1>8. ASSUME UNCHANGED boot,
               \/ UNCHANGED <<mem, dcache, icache>>
               \/ (UNCHANGED <<mem, dcache>> /\ icache' = NoLines)
               \/ (mem' = WrittenBack /\ dcache' = NoLines /\ icache' \in {icache, NoLines})
               \/ /\ mem'["import"] = mem["import"] /\ dcache'["import"] = dcache["import"]
                  /\ icache'["import"] = icache["import"]
        PROVE  ImportInv'
    BY <1>1, <1>8 DEF boot, WrittenBack, NoLines
  <1>9. CASE ProbeModule /\ ~CallImport
    BY <1>8, <1>9 DEF ProbeModule, ReplaceImage, CallOwn, EndProbe, lines
  <1>10. CASE SlidePlugin
    BY <1>8, <1>10 DEF SlidePlugin, Load, PatchPlugin, ClearInstructions, WriteBackData,
         RunEntry, RunStub, RunRest, Unload, CallNeighbour, LGoto, Fetch, IcacheClearAll,
         DcacheWritebackAll, lines
  <1>11. ASSUME NEW l \in Lines, Evict(l)
         PROVE  ImportInv'
    BY <1>1, <1>11 DEF Evict, WritebackInvalidate, Invalidate, boot
  <1>12. CASE UNCHANGED vars
    BY <1>8, <1>12 DEF vars, lines
  <1> QED
    BY <1>2, <1>3, <1>4, <1>5, <1>6, <1>7, <1>9, <1>10, <1>11, <1>12 DEF Next, Boot

\* A probe enters the hook only while this module's stub leads on, and one that
\* begins after the hook was reported finds it.
LEMMA ProbeStep ==
  ASSUME TypeOK, ImportInv, ProbeInv, ImportInv', [Next]_vars
  PROVE  ProbeInv'
  <1> USE DEF ProbeInv, ProbesArrive
  <1>1. own \subseteq own' /\ (UNCHANGED own \/ UNCHANGED probe)
    BY DEF Next, Boot, Resolve, Resolved, FindManager, FindImport, WriteImport, WritebackImport,
           InvalidateImport, BGoto, ProbeModule, CallImport, ReplaceImage, CallOwn, EndProbe,
           SlidePlugin, Load, PatchPlugin, ClearInstructions, WriteBackData, RunEntry, RunStub,
           RunRest, Unload, CallNeighbour, LGoto, Evict, vars, boot
  <1>2. CASE CallImport
    <2>1. Direct # Hook /\ Direct # None /\ Hook # None
      BY DEF Direct, Hook, Jump, Nop, Probe, None
    <2>2. Code("import") # Direct => Probe \in own
      BY DEF TypeOK, ImportInv, Code
    <2>3. hooked => Code("import") = Hook
      BY DEF ImportInv, Code
    <2> QED
      BY <1>2, <2>1, <2>2, <2>3 DEF CallImport, boot
  <1>3. CASE ReplaceImage
    BY <1>3 DEF ReplaceImage, boot
  <1>4. CASE CallOwn \/ EndProbe
    BY <1>4 DEF CallOwn, EndProbe, boot
  <1>5. CASE UNCHANGED probe
    BY <1>1, <1>5 DEF probe
  <1>6. UNCHANGED probe \/ ProbeModule
    BY DEF Next, Boot, Resolve, Resolved, FindManager, FindImport, WriteImport, WritebackImport,
           InvalidateImport, BGoto, SlidePlugin, Load, PatchPlugin, ClearInstructions,
           WriteBackData, RunEntry, RunStub, RunRest, Unload, CallNeighbour, LGoto, Evict, vars
  <1> QED
    BY <1>2, <1>3, <1>4, <1>5, <1>6 DEF ProbeModule

-----------------------------------------------------------------------------
(* Types.                                                                   *)

LEMMA WordsTyped ==
  /\ None = <<>> /\ Direct \in Line /\ Hook \in Line
  /\ \A a \in Addresses : Jump(a, 8) \in Word
  /\ \A v \in 1..MaxLoads : Image(v) \in Line
  /\ \A w \in Line : w # None /\ w[1] \in Word /\ w[2] \in Word /\ w[3] \in Word
  /\ PatchedEntry \in Line /\ NotRun \in [entry : Word, stub : Line, call : Word]
  /\ Jump("0", 0) \in Word /\ Nop \in Word
  <1>1. /\ Jump(Probe, 0) \in Word /\ Jump("zeroCtrlModuleProbe", 0) \in Word
        /\ Jump("InjectionEntryFuncInit", 0) \in Word /\ Jump("0", 0) \in Word
        /\ Nop \in Word /\ Call("zeroCtrlGetCurrentClockLocalTime") \in Word
        /\ \A a \in Addresses : Jump(a, 8) \in Word
    BY DEF Word
  <1>2. \A v \in 1..MaxLoads : /\ Original("first", v) \in Word
                              /\ Original("second", v) \in Word /\ Original("call", v) \in Word
    BY DEF Word
  <1> HIDE DEF Word, Jump, Nop, Call, Original
  <1> QED
    BY <1>1, <1>2 DEF Line, None, Direct, Hook, Image, PatchedEntry, NotRun

\* What the caches and the memory hold stays a line.
LEMMA LinesStep ==
  ASSUME TypeOK, [Next]_vars
  PROVE  LinesTyped'
  <1> USE PatchAssumption, WordsTyped DEF LinesTyped
  <1> HIDE DEF Word, Line
  <1>1. LinesTyped /\ \A l \in Lines : Data(l) \in Line /\ Code(l) \in Line
    BY DEF TypeOK, Data, Code
  <1>2. /\ WrittenBack \in [Lines -> Line] /\ NoLines \in [Lines -> Line \cup {None}]
        /\ {"import", "stub", address} \subseteq Lines /\ Addresses \subseteq Lines
    BY <1>1 DEF WrittenBack, NoLines, Lines
  <1>3. ASSUME UNCHANGED plugin, UNCHANGED lines
        PROVE  LinesTyped'
    BY <1>1, <1>3 DEF plugin, lines
  <1>4. ASSUME UNCHANGED plugin, NEW l \in Lines,
               Fetch(l) \/ WritebackInvalidate(l) \/ Invalidate(l)
        PROVE  LinesTyped'
    BY <1>1, <1>4 DEF plugin, Fetch, WritebackInvalidate, Invalidate
  <1>5. CASE Boot
    <2>1. UNCHANGED plugin
      BY <1>5 DEF Boot, Resolve, Resolved, FindManager, FindImport, WriteImport,
                  WritebackImport, InvalidateImport, BGoto
    <2>2. CASE WriteImport
      BY <1>1, <1>2, <2>1, <2>2 DEF WriteImport, Store, plugin
    <2> QED
      BY <1>2, <1>3, <1>4, <1>5, <2>1, <2>2 DEF Boot, Resolve, Resolved, FindManager, FindImport,
         WritebackImport, InvalidateImport
  <1>6. CASE ProbeModule
    <2>1. UNCHANGED plugin
      BY <1>6 DEF ProbeModule, CallImport, ReplaceImage, CallOwn, EndProbe
    <2>2. CASE mem' = WrittenBack /\ dcache' = NoLines /\ icache' = NoLines
      BY <1>1, <1>2, <2>1, <2>2 DEF plugin
    <2> QED
      BY <1>2, <1>3, <1>4, <1>6, <2>1, <2>2 DEF ProbeModule, CallImport, ReplaceImage, CallOwn,
         EndProbe
  <1>7. CASE Load
    <2>1. address' \in Addresses /\ version' \in 1..MaxLoads /\ Image(version') \in Line
      BY <1>1, <1>7 DEF Load, TypeOK
    <2> QED
      BY <1>1, <1>2, <1>7, <2>1 DEF Load
  <1>8. CASE PatchPlugin
    <2>1. StubOf(Data(address)) \in Line
      BY <1>1, <1>2 DEF StubOf, Line
    <2> QED
      BY <1>1, <1>2, <1>8, <2>1 DEF PatchPlugin, PatchedEntry
  <1>9. CASE ClearInstructions \/ WriteBackData
    BY <1>1, <1>2, <1>9 DEF ClearInstructions, WriteBackData, IcacheClearAll, DcacheWritebackAll
  <1>10. CASE RunEntry
    BY <1>1, <1>2, <1>10 DEF RunEntry, Fetch
  <1>11. CASE RunStub
    BY <1>1, <1>2, <1>11 DEF RunStub, Fetch
  <1>12. CASE RunRest
    <2>1. UNCHANGED <<address, version>>
      BY <1>12 DEF RunRest
    <2>2. CASE UNCHANGED <<lines, ran>>
      BY <1>1, <2>1, <2>2 DEF lines
    <2>3. ASSUME NEW to \in Addresses, Fetch(to), ran' = [ran EXCEPT !.call = Code(to)[3]]
          PROVE  LinesTyped'
      BY <1>1, <1>2, <2>1, <2>3 DEF Fetch
    <2> QED
      BY <1>12, <2>2, <2>3 DEF RunRest
  <1>13. CASE Unload
    BY <1>1, <1>13 DEF Unload, lines
  <1>14. CASE CallNeighbour
    BY <1>1, <1>2, <1>14 DEF CallNeighbour, Fetch
  <1>15. ASSUME NEW l \in Lines, Evict(l)
         PROVE  LinesTyped'
    BY <1>4, <1>15 DEF Evict
  <1>16. CASE UNCHANGED vars
    BY <1>3, <1>16 DEF vars
  <1> QED
    BY <1>5, <1>6, <1>7, <1>8, <1>9, <1>10, <1>11, <1>12, <1>13, <1>14, <1>15, <1>16
    DEF Next, SlidePlugin

\* The parts of TypeOK by the thread that they belong to.
BootTyped ==
    /\ firmware \in Firmwares /\ exported \subseteq Functions /\ own \subseteq Functions
    /\ bpc \in {"resolve", "find", "import", "write", "writeback", "invalidate",
                "done", "stuck"}
    /\ i \in 0..8 /\ count \in 0..3
    /\ moduleprobe_nid \in {Unset, FirmwareNid(Probe, firmware)} /\ hooked \in BOOLEAN

ProbeTyped ==
    /\ ppc \in {"idle", "hook", "own", "firmware", "lost"}
    /\ expected \in BOOLEAN /\ passed \in BOOLEAN /\ image \in {"flash", "card", "mixed"}

PluginTyped ==
    /\ lpc \in {"unloaded", "loaded", "patched", "cleared", "started", "hook", "jump", "running"}
    /\ origFuncInit \in {None, <<"stub">>} /\ refilled \in BOOLEAN

LEMMA TypeParts ==
  TypeOK <=> LinesTyped /\ BootTyped /\ ProbeTyped /\ PluginTyped
  <1>1. Len(nids) = 8 /\ Len(libs) - 1 = 3
    BY DEF nids, libs
  <1> HIDE DEF nids, libs
  <1> QED
    BY <1>1 DEF TypeOK, LinesTyped, BootTyped, ProbeTyped, PluginTyped

LEMMA TypeStep ==
  ASSUME TypeOK, ResolverInv, [Next]_vars
  PROVE  TypeOK'
  <1>1. SUFFICES BootTyped' /\ ProbeTyped' /\ PluginTyped'
    <2>1. LinesTyped'
      BY LinesStep
    <2> QED
      BY <2>1, TypeParts, PTL
  <1>2. LinesTyped /\ BootTyped /\ ProbeTyped /\ PluginTyped
    BY TypeParts
  <1>3. CASE Resolve
    <2>1. own' \subseteq Functions /\ UNCHANGED <<firmware, exported, bpc, hooked, probe, plugin>>
      BY <1>2, <1>3 DEF Resolve, FindFunction, BootTyped
    <2>2. i' \in 0..8 /\ count' \in 0..3 /\ moduleprobe_nid' \in {Unset, FirmwareNid(Probe, firmware)}
      BY <1>2, <1>3, ResolveTurn DEF BootTyped, LibOf
    <2> QED
      BY <1>2, <2>1, <2>2 DEF BootTyped, ProbeTyped, PluginTyped, probe, plugin
  <1>4. CASE Boot /\ ~Resolve
    <2>1. /\ UNCHANGED <<firmware, exported, own, i, count, moduleprobe_nid, probe, plugin>>
          /\ hooked' = hooked \/ hooked' = TRUE
      BY <1>4 DEF Boot, Resolved, FindManager, FindImport, WriteImport, WritebackImport,
         InvalidateImport, BGoto
    <2>2. bpc' \in {"resolve", "find", "import", "write", "writeback", "invalidate",
                   "done", "stuck"}
      BY <1>4 DEF Boot, Resolved, FindManager, FindImport, WriteImport, WritebackImport,
         InvalidateImport, BGoto
    <2>3. hooked' \in BOOLEAN
      BY <1>2, <2>1 DEF BootTyped
    <2>4. BootTyped'
      BY <1>2, <2>1, <2>2, <2>3 DEF BootTyped
    <2> QED
      BY <1>2, <2>1, <2>4 DEF ProbeTyped, PluginTyped, probe, plugin
  <1>5. CASE ProbeModule
    <2>1. UNCHANGED <<boot, plugin>>
      BY <1>5 DEF ProbeModule, CallImport, ReplaceImage, CallOwn, EndProbe
    <2>2. ASSUME CallImport
          PROVE  ProbeTyped'
      BY <1>2, <2>2 DEF CallImport, ProbeTyped, BootTyped
    <2>3. ASSUME ReplaceImage
          PROVE  ProbeTyped'
      BY <1>2, <2>3 DEF ReplaceImage, ProbeTyped
    <2>4. ASSUME CallOwn \/ EndProbe
          PROVE  ProbeTyped'
      BY <1>2, <2>4 DEF CallOwn, EndProbe, ProbeTyped
    <2>5. ProbeTyped'
      BY <1>5, <2>2, <2>3, <2>4 DEF ProbeModule
    <2> QED
      BY <1>2, <2>1, <2>5 DEF BootTyped, PluginTyped, boot, plugin
  <1>6. CASE SlidePlugin
    <2>1. UNCHANGED <<boot, probe>>
      BY <1>6 DEF SlidePlugin, Load, PatchPlugin, ClearInstructions, WriteBackData, RunEntry,
         RunStub, RunRest, Unload, CallNeighbour, LGoto
    <2>2. PluginTyped'
      BY <1>2, <1>6 DEF SlidePlugin, Load, PatchPlugin, ClearInstructions, WriteBackData,
         RunEntry, RunStub, RunRest, Unload, CallNeighbour, LGoto, PluginTyped
    <2> QED
      BY <1>2, <2>1, <2>2 DEF BootTyped, ProbeTyped, boot, probe
  <1>7. CASE UNCHANGED <<boot, probe, plugin>>
    BY <1>2, <1>7 DEF BootTyped, ProbeTyped, PluginTyped, boot, probe, plugin
  <1> QED
    BY <1>3, <1>4, <1>5, <1>6, <1>7 DEF Next, Evict, vars

-----------------------------------------------------------------------------
(* The theorems.                                                            *)

IInv == TypeOK /\ ResolverInv /\ ImportInv /\ ProbeInv /\ SlideInv

LEMMA InitIInv ==
  ASSUME Init
  PROVE  IInv
  <1> USE PatchAssumption
  <1>1. \A l \in Lines : mem[l] \in Line /\ dcache[l] = None /\ icache[l] = None
    <2>1. /\ \A l \in Lines : /\ dcache[l] = None /\ icache[l] = None
                             /\ mem[l] \in {Direct, <<Nop, Nop, Jump("0", 0)>>, <<Nop, Nop, Nop>>}
      BY DEF Init, NoLines
    <2>2. <<Nop, Nop, Jump("0", 0)>> \in Line /\ <<Nop, Nop, Nop>> \in Line /\ Direct \in Line
      BY WordsTyped DEF Line
    <2> QED
      BY <2>1, <2>2
  <1>2. LinesTyped
    BY <1>1, WordsTyped DEF Init, LinesTyped, NoLines
  <1>3. BootTyped /\ ProbeTyped /\ PluginTyped
    <2>1. /\ own \subseteq Functions /\ exported \subseteq Functions /\ firmware \in Firmwares
          /\ bpc = "resolve" /\ i = 0 /\ count = 0 /\ moduleprobe_nid = Unset /\ hooked = FALSE
      BY DEF Init
    <2>2. i \in 0..8 /\ count \in 0..3
      BY <2>1
    <2>3. BootTyped
      BY <2>1, <2>2, Zenon DEF BootTyped
    <2>4. ProbeTyped
      BY DEF Init, ProbeTyped
    <2>5. PluginTyped
      BY DEF Init, PluginTyped
    <2> QED
      BY <2>3, <2>4, <2>5
  <1>4. ResolverInv
    BY DEF Init, ResolverInv, LibOf
  <1>5. ImportInv
    <2>1. mem["import"] = Direct /\ dcache["import"] = None /\ icache["import"] = None
      BY DEF Init, Lines, NoLines
    <2>2. Unset # FirmwareNid(Probe, firmware)
      BY DEF Unset, FirmwareNid, Probe
    <2> QED
      BY <2>1, <2>2 DEF Init, ImportInv
  <1>6. ProbeInv /\ SlideInv
    BY DEF Init, ProbeInv, ProbesArrive, SlideInv, InitPatched
  <1> QED
    BY <1>2, <1>3, <1>4, <1>5, <1>6, TypeParts DEF IInv

LEMMA StepIInv ==
  ASSUME IInv, [Next]_vars
  PROVE  IInv'
  <1>1. TypeOK /\ i \in 0..8 /\ LinesTyped
    BY TypeParts DEF IInv, BootTyped
  <1>2. TypeOK' /\ ResolverInv'
    BY <1>1, TypeStep, ResolverStep DEF IInv
  <1>3. ImportInv'
    BY <1>1, ImportStep DEF IInv
  <1>4. ProbeInv'
    BY <1>1, <1>3, ProbeStep DEF IInv
  <1>5. SlideInv'
    BY <1>1, SlideStep DEF IInv
  <1> QED
    BY <1>2, <1>3, <1>4, <1>5 DEF IInv

LEMMA Inductive == Spec => []IInv
  <1> QED
    BY InitIInv, StepIInv, PTL DEF Spec

\* Every variable keeps its type: no word is written that nobody meant to
\* write, and the loop never indexes nids or libs outside (resolver.c:126-130).
THEOREM TypeCorrect == Spec => []TypeOK
  <1>1. IInv => TypeOK
    BY DEF IInv
  <1> QED
    BY <1>1, Inductive, PTL

\* Wherever, and however often, the slide plugin is loaded, what its init runs
\* is the patched code of that load, unless the stub's line was fetched between
\* the two calls of ClearCaches, when it may be that of an earlier load
\* (user/main.c:98-106, 187-188; main.c:740-743).
THEOREM InitPatchedHolds == Spec => []InitPatched
  <1>1. IInv => InitPatched
    BY DEF IInv, SlideInv
  <1> QED
    BY <1>1, Inductive, PTL

\* Whatever functions the firmware lacks, the stubs of those that it has, and
\* whose NID nids knows, lead to them; and a probe comes to the firmware's
\* function, through the hook once the hook is reported (resolver.c:119-163;
\* main.c:989-1027).
THEOREM CallsArriveHolds == Spec => []CallsArrive
  <1>1. IInv => StubsResolved
    <2> SUFFICES ASSUME IInv, bpc # "resolve", firmware # "other",
                        NEW f \in exported, Nid(f, firmware) # NoNid
                 PROVE  f \in own
      BY DEF StubsResolved
    <2>1. PICK n \in DOMAIN nids : f = nids[n]
      BY DEF IInv, TypeOK, Functions
    <2>2. n \in 1..8
      BY DEF nids
    <2> QED
      BY <2>1, <2>2 DEF IInv, ResolverInv
  <1>2. IInv => CallsArrive
    BY <1>1 DEF IInv, ProbeInv, CallsArrive
  <1> QED
    BY <1>2, Inductive, PTL
=============================================================================
