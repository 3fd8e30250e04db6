------------------------- MODULE HandlerChain_proofs -------------------------
(***************************************************************************)
(* Theorems of HandlerChain, for any starters and configurations.          *)
(*                                                                         *)
(* `old` never changes for a handler once it is installed, so `installed`  *)
(* and every chain a start began with are spelled out by `old`; `previous` *)
(* is `old` or, inside the window, still NULL.  A start walks its chain    *)
(* from the front and stops at its end or at such a NULL.                  *)
(***************************************************************************)
EXTENDS HandlerChain, TLAPS

In(h) == \E i \in DOMAIN installed : installed[i] = h

\* The handler that was the head when h was installed, and the one h chains to.
Below(h) == IF h = "cfw" THEN None ELSE old[h]
Calls(h) == IF h = "cfw" THEN None ELSE previous[h]

Distinct(s) == \A i, j \in DOMAIN s : s[i] = s[j] => i = j

Linked(s) == \A i \in DOMAIN s : Below(s[i]) = IF i < Len(s) THEN s[i + 1] ELSE None

\* The chain, and how far the two installations are.
ChainInv ==
    /\ Distinct(installed) /\ Linked(installed)
    /\ head = IF Len(installed) = 0 THEN None ELSE installed[1]
    /\ In("kernel") => bpc \in {"store", "done"}
    /\ In("user") => hpc \in {"store", "ended"}
    /\ bpc \in {"diag", "patch"} => hpc = None
    /\ hpc \in {"start", "swap"} => userModule = "loaded"
    /\ In("user") => userModule = (IF hpc = "store" THEN "loaded" ELSE "started")
    /\ \A h \in {"kernel", "user"} :
          /\ previous[h] \in {None, old[h]}
          /\ ~In(h) => previous[h] = None /\ old[h] = None
    /\ (In("kernel") /\ bpc = "done") => previous["kernel"] = old["kernel"]
    /\ (In("user") /\ hpc = "ended") => previous["user"] = old["user"]

\* The chain the start of t began with.
WalkInv(t) ==
    /\ Distinct(chain[t]) /\ Linked(chain[t])
    /\ \A i \in DOMAIN chain[t] : In(chain[t][i])
    /\ stored[t] => \A i \in DOMAIN chain[t] : Calls(chain[t][i]) = Below(chain[t][i])

\* How far the start of t is in it.
StartInv(t) ==
    /\ Len(ran[t]) <= Len(chain[t])
    /\ \A i \in 1..Len(ran[t]) : ran[t][i] = chain[t][i]
    /\ at[t] \in {"idle", None} => ~called[t]
    /\ (at[t] \in Handlers /\ ~called[t]) =>
          Len(ran[t]) < Len(chain[t]) /\ at[t] = chain[t][Len(ran[t]) + 1]
    /\ called[t] => Len(ran[t]) > 0 /\ at[t] = chain[t][Len(ran[t])]
    /\ (at[t] = None /\ stored[t]) => Len(ran[t]) = Len(chain[t])

IInv == TypeOK /\ ChainInv /\ \A t \in Starters : WalkInv(t) /\ StartInv(t)

-----------------------------------------------------------------------------
(* Types.                                                                   *)

\* What a handler does to the variables of its start, whichever it is.
LEMMA HandlerStep ==
  ASSUME NEW t \in Starters,
         KernelOnModuleStart(t) \/ UserOnModuleStart(t) \/ CfwOnModuleStart(t)
  PROVE  \E h \in Handlers, done \in SUBSET Effects, flushed \in BOOLEAN, wrote \in BOOLEAN :
            Handle(t, h, done, flushed, wrote)
  <1>1. \A m : UserPatches(m) \subseteq Effects
    BY DEF UserPatches, When, Effects
  <1>2. {"kernel", "user", "cfw"} \subseteq Handlers /\ {} \subseteq Effects
    BY DEF Handlers
  <1>3. CASE KernelOnModuleStart(t)
    <2> DEFINE done == IF Armed /\ module[t] = "slide_plugin_module" THEN {"captureStart"}
                       ELSE When(module[t] = "slide_plugin_module", {"hookImports"})
               flushed == ~(Armed /\ module[t] = "slide_plugin_module")
    <2>1. done \subseteq Effects /\ flushed \in BOOLEAN
      BY DEF When, Effects
    <2>2. Handle(t, "kernel", done, flushed, FALSE)
      BY <1>3 DEF KernelOnModuleStart, Handle
    <2> QED
      BY <1>2, <2>1, <2>2
  <1>4. CASE UserOnModuleStart(t)
    <2> DEFINE done == When(Armed /\ module[t] = "vsh_module" /\ config.devkit = "6.61",
                            {"recordVsh"}) \cup UserPatches(module[t])
    <2>1. done \subseteq Effects
      BY <1>1 DEF When, Effects
    <2>2. Handle(t, "user", done, FALSE, UserPatches(module[t]) # {})
      BY <1>4 DEF UserOnModuleStart
    <2>3. (UserPatches(module[t]) # {}) \in BOOLEAN
      OBVIOUS
    <2> HIDE DEF done
    <2> QED
      BY <1>2, <2>1, <2>2, <2>3
  <1>5. CASE CfwOnModuleStart(t)
    BY <1>2, <1>5 DEF CfwOnModuleStart
  <1> QED
    BY <1>3, <1>4, <1>5

LEMMA SwapTyped ==
  ASSUME TypeOK, NEW h \in {"kernel", "user"}, Swap(h)
  PROVE  /\ head' \in Handlers \cup {None} /\ installed' \in Seq(Handlers)
         /\ previous' \in [{"kernel", "user"} -> Handlers \cup {None}]
         /\ old' \in [{"kernel", "user"} -> Handlers \cup {None}]
  <1>1. h \in Handlers /\ <<h>> \in Seq(Handlers)
    BY DEF Handlers
  <1>2. \A a, b \in Seq(Handlers) : a \o b \in Seq(Handlers)
    OBVIOUS
  <1> QED
    BY <1>1, <1>2 DEF TypeOK, Swap

LEMMA TypeStep ==
  ASSUME TypeOK, [Next]_vars
  PROVE  TypeOK'
  <1>1. CASE SetKernelHandler \/ SetUserHandler
    BY <1>1, SwapTyped DEF SetKernelHandler, SetUserHandler, BGoto, HGoto, TypeOK, helper,
       starts, bootVars
  <1>2. CASE Boot /\ ~SetKernelHandler
    BY <1>2, ZenonT(60) DEF Boot, CreateSlideDiagnosticsThread, CreatePatchThread, CreateBtnThread,
       StoreKernelPrevious, Store, BGoto, TypeOK, chainVars, helper, starts
  <1>3. CASE StartLibrary \/ (Helper /\ ~SetUserHandler)
    BY <1>3, ZenonT(60) DEF StartLibrary, Helper, FindLibrary, LoadModule, StartModule, StoreUserPrevious,
       UnloadModule, Store, HGoto, TypeOK, chainVars, bootVars, starts
  <1>4. ASSUME NEW t \in Starters, BeginStart(t)
        PROVE  TypeOK'
    <2>1. <<>> \in Seq(Handlers) /\ (~InWindow) \in BOOLEAN
      OBVIOUS
    <2> QED
      BY <1>4, <2>1 DEF BeginStart, TypeOK, chainVars, bootVars, helper
  <1>5. ASSUME NEW t \in Starters,
               NEW h \in Handlers, NEW done \in SUBSET Effects, NEW flushed \in BOOLEAN,
               NEW wrote \in BOOLEAN, Handle(t, h, done, flushed, wrote)
        PROVE  TypeOK'
    <2>1. /\ called' \in [Starters -> BOOLEAN]
          /\ effects' \in [Starters -> SUBSET Effects]
      BY <1>5 DEF Handle, TypeOK
    <2>2. dirty' \in [Starters -> BOOLEAN]
      <3>1. (wrote \/ (dirty[t] /\ ~flushed)) \in BOOLEAN
        OBVIOUS
      <3> QED
        BY <1>5, <3>1 DEF Handle, TypeOK
    <2>3. ran' \in [Starters -> Seq(Handlers)]
      BY <1>5 DEF Handle, TypeOK
    <2> QED
      BY <1>5, <2>1, <2>2, <2>3 DEF Handle, TypeOK, chainVars, bootVars, helper
  <1>6. ASSUME NEW t \in Starters, Chain(t) \/ EndStart(t)
        PROVE  TypeOK'
    <2>1. at' \in [Starters -> Handlers \cup {"idle", None}]
      <3>1. CASE Chain(t)
        <4>1. at[t] # "cfw" => at[t] \in {"kernel", "user"}
          BY <3>1 DEF Chain, Handlers
        <4>2. (IF at[t] = "cfw" THEN None ELSE previous[at[t]]) \in Handlers \cup {None}
          BY <4>1 DEF TypeOK
        <4> QED
          BY <3>1, <4>2 DEF Chain, TypeOK
      <3>2. CASE EndStart(t)
        BY <3>2 DEF EndStart, TypeOK
      <3> QED
        BY <1>6, <3>1, <3>2
    <2>2. called' \in [Starters -> BOOLEAN]
      BY <1>6 DEF Chain, EndStart, TypeOK
    <2> QED
      BY <1>6, <2>1, <2>2, ZenonT(60) DEF Chain, EndStart, TypeOK, chainVars, bootVars, helper
  <1>7. CASE UNCHANGED vars
    BY <1>7 DEF TypeOK, vars, chainVars, bootVars, helper, starts
  <1>8. ASSUME NEW t \in Starters, Start(t)
        PROVE  TypeOK'
    <2>1. CASE KernelOnModuleStart(t) \/ UserOnModuleStart(t) \/ CfwOnModuleStart(t)
      BY <2>1, <1>5, HandlerStep
    <2> QED
      BY <1>4, <1>6, <1>8, <2>1 DEF Start
  <1> QED
    BY <1>1, <1>2, <1>3, <1>7, <1>8 DEF Next
-----------------------------------------------------------------------------
(* The chain.                                                               *)

\* A handler that is not in the chain yet becomes its head.
LEMMA SwapChain ==
  ASSUME TypeOK, ChainInv, NEW h \in {"kernel", "user"}, ~In(h), Swap(h)
  PROVE  /\ Distinct(installed)' /\ Linked(installed)'
         /\ Len(installed') # 0 /\ head' = installed'[1]
         /\ \A g : In(g)' <=> (In(g) \/ g = h)
         /\ \A g : In(g) => Below(g)' = Below(g)
         /\ previous' = previous /\ previous[h] = None
         /\ \A g \in {"kernel", "user"} \ {h} : old'[g] = old[g]
  <1>1. /\ h \in Handlers /\ installed \in Seq(Handlers)
        /\ installed' = <<h>> \o installed
        /\ old' = [old EXCEPT ![h] = head] /\ head' = h /\ previous' = previous
        /\ old \in [{"kernel", "user"} -> Handlers \cup {None}]
    BY DEF TypeOK, Swap, Handlers
  <1>2. /\ installed' \in Seq(Handlers) /\ Len(installed') = Len(installed) + 1
        /\ installed'[1] = h
        /\ \A i \in 2..Len(installed') : installed'[i] = installed[i - 1]
        /\ \A i \in 1..Len(installed) : installed'[i + 1] = installed[i]
    BY <1>1
  <1>3. \A g : In(g)' <=> (In(g) \/ g = h)
    <2>1. ASSUME NEW g, In(g) \/ g = h
          PROVE  In(g)'
      <3>1. CASE g = h
        BY <1>1, <1>2, <3>1 DEF In
      <3>2. ASSUME NEW i \in DOMAIN installed, installed[i] = g
            PROVE  In(g)'
        <4>1. i + 1 \in DOMAIN installed' /\ installed'[i + 1] = g
          BY <1>1, <1>2, <3>2
        <4> QED
          BY <4>1 DEF In
      <3> QED
        BY <2>1, <3>1, <3>2 DEF In
    <2>2. ASSUME NEW g, In(g)'
          PROVE  In(g) \/ g = h
      <3>1. PICK i \in DOMAIN installed' : installed'[i] = g
        BY <2>2 DEF In
      <3>2. CASE i = 1
        BY <1>2, <3>1, <3>2
      <3>3. CASE i # 1
        <4>1. i - 1 \in DOMAIN installed /\ installed[i - 1] = g
          BY <1>1, <1>2, <3>1, <3>3
        <4> QED
          BY <4>1 DEF In
      <3> QED
        BY <3>2, <3>3
    <2> QED
      BY <2>1, <2>2
  <1>4. Distinct(installed)'
    <2>1. \A i \in 2..Len(installed') : installed'[i] # h
      BY <1>1, <1>2 DEF In
    <2>2. ASSUME NEW i \in 1..Len(installed'), NEW j \in 1..Len(installed'),
                 installed'[i] = installed'[j]
          PROVE  i = j
      <3>1. CASE i = 1 \/ j = 1
        BY <1>2, <2>1, <2>2, <3>1
      <3>2. CASE i # 1 /\ j # 1
        <4>1. i - 1 \in DOMAIN installed /\ j - 1 \in DOMAIN installed
          BY <1>1, <1>2, <2>2, <3>2
        <4>2. installed[i - 1] = installed[j - 1]
          BY <1>1, <1>2, <2>2, <3>2
        <4>3. i - 1 = j - 1
          BY <4>1, <4>2 DEF ChainInv, Distinct
        <4> QED
          BY <2>2, <4>3
      <3> QED
        BY <3>1, <3>2
    <2>3. DOMAIN installed' = 1..Len(installed')
      BY <1>2
    <2> QED
      BY <2>2, <2>3 DEF Distinct
  <1>5. \A g : In(g) => Below(g)' = Below(g)
    <2>1. ASSUME NEW g, In(g)
          PROVE  Below(g)' = Below(g)
      <3>1. g # h /\ g \in Handlers
        BY <1>1, <2>1 DEF In
      <3> QED
        BY <1>1, <3>1 DEF Below, Handlers
    <2> QED
      BY <2>1
  <1>6. Linked(installed)'
    <2> DEFINE after(g) == IF g = "cfw" THEN None ELSE old'[g]
    <2>1. \A g : In(g) => after(g) = Below(g)
      BY <1>5 DEF Below
    <2>2. after(h) = head
      BY <1>1
    <2> HIDE DEF after
    <2>3. ASSUME NEW i \in 1..Len(installed')
          PROVE  after(installed'[i]) = IF i < Len(installed') THEN installed'[i + 1] ELSE None
      <3>1. CASE i = 1
        <4>1. head = IF Len(installed) = 0 THEN None ELSE installed[1]
          BY DEF ChainInv
        <4> QED
          BY <1>1, <1>2, <2>2, <3>1, <4>1
      <3>2. CASE i # 1
        <4>1. /\ i - 1 \in DOMAIN installed /\ installed'[i] = installed[i - 1]
              /\ i < Len(installed') => installed'[i + 1] = installed[i]
          BY <1>1, <1>2, <2>3, <3>2
        <4>2. after(installed'[i]) = Below(installed[i - 1])
          BY <2>1, <4>1 DEF In
        <4>3. Below(installed[i - 1]) =
                 IF i - 1 < Len(installed) THEN installed[(i - 1) + 1] ELSE None
          BY <4>1 DEF ChainInv, Linked
        <4>4. (i - 1 < Len(installed) <=> i < Len(installed')) /\ (i - 1) + 1 = i
          BY <1>1, <1>2, <2>3
        <4> QED
          BY <4>1, <4>2, <4>3, <4>4
      <3> QED
        BY <3>1, <3>2
    <2>4. DOMAIN installed' = 1..Len(installed')
      BY <1>2
    <2> QED
      BY <2>3, <2>4 DEF Linked, Below, after
  <1>7. Len(installed') # 0 /\ head' = installed'[1]
    BY <1>1, <1>2
  <1>8. previous[h] = None
    BY DEF ChainInv
  <1> QED
    BY <1>1, <1>3, <1>4, <1>5, <1>6, <1>7, <1>8

\* A step that leaves the chain alone, `previous` perhaps excepted.
LEMMA ChainKept ==
  ASSUME ChainInv, UNCHANGED <<head, old, installed>>
  PROVE  /\ Distinct(installed)' /\ Linked(installed)'
         /\ (head = IF Len(installed) = 0 THEN None ELSE installed[1])'
         /\ \A g : In(g)' <=> In(g)
         /\ \A g : Below(g)' = Below(g)
  BY DEF ChainInv, Distinct, Linked, Below, In

LEMMA ChainStep ==
  ASSUME TypeOK, ChainInv, [Next]_vars
  PROVE  ChainInv'
  <1>1. CASE SetKernelHandler
    <2>1. bpc = "swap" /\ bpc' = "store" /\ UNCHANGED <<hpc, userModule>> /\ Swap("kernel")
      BY <1>1 DEF SetKernelHandler, BGoto, helper
    <2>2. ~In("kernel")
      BY <2>1 DEF ChainInv
    <2>3. /\ Distinct(installed)' /\ Linked(installed)'
          /\ Len(installed') # 0 /\ head' = installed'[1]
          /\ \A g : In(g)' <=> (In(g) \/ g = "kernel")
          /\ previous' = previous /\ previous["kernel"] = None /\ old'["user"] = old["user"]
      BY <2>1, <2>2, SwapChain
    <2>4. \A h \in {"kernel", "user"} :
             /\ previous'[h] \in {None, old'[h]}
             /\ ~In(h)' => previous'[h] = None /\ old'[h] = None
      BY <2>3 DEF ChainInv
    <2>5. (In("user")' /\ hpc' = "ended") => previous'["user"] = old'["user"]
      BY <2>1, <2>3 DEF ChainInv
    <2> QED
      BY <2>1, <2>3, <2>4, <2>5 DEF ChainInv
  <1>2. CASE SetUserHandler
    <2>1. /\ hpc = "swap" /\ hpc' = "store" /\ UNCHANGED <<bpc, userModule>> /\ Swap("user")
          /\ userModule = "loaded" /\ bpc \notin {"diag", "patch"}
      BY <1>2 DEF SetUserHandler, HGoto, bootVars, ChainInv, None
    <2>2. ~In("user")
      BY <2>1 DEF ChainInv
    <2>3. /\ Distinct(installed)' /\ Linked(installed)'
          /\ Len(installed') # 0 /\ head' = installed'[1]
          /\ \A g : In(g)' <=> (In(g) \/ g = "user")
          /\ previous' = previous /\ previous["user"] = None /\ old'["kernel"] = old["kernel"]
      BY <2>1, <2>2, SwapChain
    <2>4. \A h \in {"kernel", "user"} :
             /\ previous'[h] \in {None, old'[h]}
             /\ ~In(h)' => previous'[h] = None /\ old'[h] = None
      BY <2>3 DEF ChainInv
    <2>5. (In("kernel")' /\ bpc' = "done") => previous'["kernel"] = old'["kernel"]
      BY <2>1, <2>3 DEF ChainInv
    <2> QED
      BY <2>1, <2>3, <2>4, <2>5 DEF ChainInv
  <1>3. CASE StoreKernelPrevious
    <2>1. /\ bpc = "store" /\ bpc' = "done" /\ UNCHANGED <<head, old, installed, hpc, userModule>>
          /\ previous' = [previous EXCEPT !["kernel"] = old["kernel"]]
      BY <1>3 DEF StoreKernelPrevious, Store, BGoto, helper
    <2>2. previous'["kernel"] = old["kernel"] /\ previous'["user"] = previous["user"]
      BY <2>1 DEF TypeOK
    <2>3. \A h \in {"kernel", "user"} :
             /\ previous'[h] \in {None, old'[h]}
             /\ ~In(h)' => previous'[h] = None /\ old'[h] = None
      BY <2>1, <2>2, ChainKept DEF ChainInv
    <2> QED
      BY <2>1, <2>2, <2>3, ChainKept DEF ChainInv
  <1>4. CASE StoreUserPrevious
    <2>1. /\ hpc = "store" /\ hpc' = "ended" /\ userModule' = "started"
          /\ UNCHANGED <<head, old, installed, bpc>> /\ bpc \notin {"diag", "patch"}
          /\ previous' = [previous EXCEPT !["user"] = old["user"]]
      BY <1>4 DEF StoreUserPrevious, Store, HGoto, bootVars, ChainInv, None
    <2>2. previous'["user"] = old["user"] /\ previous'["kernel"] = previous["kernel"]
      BY <2>1 DEF TypeOK
    <2>3. \A h \in {"kernel", "user"} :
             /\ previous'[h] \in {None, old'[h]}
             /\ ~In(h)' => previous'[h] = None /\ old'[h] = None
      BY <2>1, <2>2, ChainKept DEF ChainInv
    <2> QED
      BY <2>1, <2>2, <2>3, ChainKept DEF ChainInv
  <1>5. CASE Boot /\ ~SetKernelHandler /\ ~StoreKernelPrevious
    <2>1. /\ UNCHANGED <<chainVars, userModule>>
          /\ bpc \in {"diag", "patch", "buttons"}
          /\ bpc' \in {"patch", "buttons", "swap", "done"}
          /\ bpc # "patch" => hpc' = hpc
          /\ bpc = "patch" => bpc' # "patch" /\ hpc' \in {"wait", "ended"}
          /\ bpc = "buttons" => bpc' = "swap"
      BY <1>5 DEF Boot, CreateSlideDiagnosticsThread, CreatePatchThread, CreateBtnThread, BGoto,
         helper
    <2>2. ~In("kernel") /\ (In("user") => bpc # "patch")
      BY <2>1 DEF ChainInv, None
    <2> QED
      BY <2>1, <2>2, ChainKept DEF ChainInv, chainVars
  <1>6. CASE Helper /\ ~SetUserHandler /\ ~StoreUserPrevious
    <2>1. /\ UNCHANGED <<chainVars, bpc>>
          /\ hpc \in {"wait", "load", "start", "unload"}
          /\ hpc' \in {"load", "start", "swap", "unload", "ended"}
          /\ hpc' = "start" => userModule' = "loaded"
          /\ hpc' = "swap" => hpc = "start" /\ userModule' = userModule
      BY <1>6 DEF Helper, FindLibrary, LoadModule, StartModule, UnloadModule, HGoto, bootVars
    <2>2. ~In("user") /\ bpc \notin {"diag", "patch"}
      BY <2>1 DEF ChainInv, None
    <2> QED
      BY <2>1, <2>2, ChainKept DEF ChainInv, chainVars
  <1>7. CASE UNCHANGED <<chainVars, bpc, hpc, userModule>>
    BY <1>7, ChainKept DEF ChainInv, chainVars
  <1>8. ASSUME NEW t \in Starters, Start(t)
        PROVE  UNCHANGED <<chainVars, bpc, hpc, userModule>>
    BY <1>8 DEF Start, BeginStart, KernelOnModuleStart, UserOnModuleStart, CfwOnModuleStart,
       Handle, Chain, EndStart, bootVars, helper
  <1>9. StartLibrary \/ UNCHANGED vars => UNCHANGED <<chainVars, bpc, hpc, userModule>>
    BY DEF StartLibrary, vars, bootVars, helper
  <1> QED
    BY <1>1, <1>2, <1>3, <1>4, <1>5, <1>6, <1>7, <1>8, <1>9 DEF Next

\* A handler stays in the chain, above the same one, and once it calls that one
\* it goes on calling it.
LEMMA ChainMoves ==
  ASSUME TypeOK, ChainInv, [Next]_vars, NEW g \in Handlers, In(g)
  PROVE  /\ In(g)' /\ Below(g)' = Below(g)
         /\ Calls(g) = Below(g) => Calls(g)' = Below(g)'
  <1>1. CASE SetKernelHandler
    <2>1. Swap("kernel") /\ ~In("kernel")
      BY <1>1 DEF SetKernelHandler, BGoto, ChainInv
    <2> QED
      BY <2>1, SwapChain DEF Calls
  <1>2. CASE SetUserHandler
    <2>1. Swap("user") /\ ~In("user")
      BY <1>2 DEF SetUserHandler, HGoto, ChainInv
    <2> QED
      BY <2>1, SwapChain DEF Calls
  <1>3. CASE StoreKernelPrevious
    <2>1. /\ UNCHANGED <<head, old, installed>>
          /\ previous' = [previous EXCEPT !["kernel"] = old["kernel"]]
      BY <1>3 DEF StoreKernelPrevious, Store
    <2> QED
      BY <2>1, ChainKept DEF Calls, Below, TypeOK, Handlers
  <1>4. CASE StoreUserPrevious
    <2>1. /\ UNCHANGED <<head, old, installed>>
          /\ previous' = [previous EXCEPT !["user"] = old["user"]]
      BY <1>4 DEF StoreUserPrevious, Store
    <2> QED
      BY <2>1, ChainKept DEF Calls, Below, TypeOK, Handlers
  <1>5. CASE UNCHANGED chainVars
    BY <1>5, ChainKept DEF Calls, chainVars
  <1>6. Boot => SetKernelHandler \/ StoreKernelPrevious \/ UNCHANGED chainVars
    BY DEF Boot, CreateSlideDiagnosticsThread, CreatePatchThread, CreateBtnThread
  <1>7. Helper => SetUserHandler \/ StoreUserPrevious \/ UNCHANGED chainVars
    BY DEF Helper, FindLibrary, LoadModule, StartModule, UnloadModule
  <1>8. ASSUME NEW t \in Starters, Start(t)
        PROVE  UNCHANGED chainVars
    BY <1>8 DEF Start, BeginStart, KernelOnModuleStart, UserOnModuleStart, CfwOnModuleStart,
       Handle, Chain, EndStart
  <1>9. StartLibrary \/ UNCHANGED vars => UNCHANGED chainVars
    BY DEF StartLibrary, vars
  <1> QED
    BY <1>1, <1>2, <1>3, <1>4, <1>5, <1>6, <1>7, <1>8, <1>9 DEF Next

-----------------------------------------------------------------------------
(* The starts.                                                              *)

\* What is said of the chain of a start goes on holding while others install
\* their handlers.
LEMMA WalkKept ==
  ASSUME TypeOK, ChainInv, [Next]_vars, NEW t \in Starters, WalkInv(t),
         chain'[t] = chain[t], stored'[t] = stored[t]
  PROVE  WalkInv(t)'
  <1> DEFINE after(g) == IF g = "cfw" THEN None ELSE old'[g]
             callsNext(g) == IF g = "cfw" THEN None ELSE previous'[g]
             within(g) == \E j \in DOMAIN installed' : installed'[j] = g
  <1>1. PICK s \in Seq(Handlers) : s = chain[t]
    BY DEF TypeOK
  <1>2. \A g \in Handlers : In(g) =>
            /\ within(g) /\ after(g) = Below(g)
            /\ Calls(g) = Below(g) => callsNext(g) = after(g)
    <2>1. ASSUME NEW g \in Handlers, In(g)
          PROVE  /\ within(g) /\ after(g) = Below(g)
                 /\ Calls(g) = Below(g) => callsNext(g) = after(g)
      <3>1. /\ In(g)' /\ Below(g)' = Below(g)
            /\ Calls(g) = Below(g) => Calls(g)' = Below(g)'
        BY <2>1, ChainMoves
      <3>2. Below(g)' = after(g) /\ Calls(g)' = callsNext(g) /\ (In(g)' <=> within(g))
        BY DEF Below, Calls, In
      <3> HIDE DEF after, callsNext, within
      <3> QED
        BY <3>1, <3>2
    <2> QED
      BY <2>1
  <1> HIDE DEF after, callsNext, within
  <1>3. /\ Distinct(s) /\ Linked(s) /\ \A i \in DOMAIN s : s[i] \in Handlers /\ In(s[i])
        /\ stored[t] => \A i \in DOMAIN s : Calls(s[i]) = Below(s[i])
    BY <1>1 DEF WalkInv
  <1>4. \A i \in DOMAIN s : within(s[i]) /\ after(s[i]) = Below(s[i])
    BY <1>2, <1>3
  <1>5. \A i \in DOMAIN s : after(s[i]) = IF i < Len(s) THEN s[i + 1] ELSE None
    BY <1>3, <1>4 DEF Linked
  <1>6. stored[t] => \A i \in DOMAIN s : callsNext(s[i]) = after(s[i])
    BY <1>2, <1>3
  <1>7. Linked(chain[t])' <=>
          \A i \in DOMAIN s : after(s[i]) = IF i < Len(s) THEN s[i + 1] ELSE None
    BY <1>1 DEF Linked, Below, after
  <1>8. Distinct(chain[t])' <=> Distinct(s)
    BY <1>1 DEF Distinct
  <1>9. (\A i \in DOMAIN chain[t] : In(chain[t][i]))' <=> \A i \in DOMAIN s : within(s[i])
    BY <1>1 DEF In, within
  <1>10. (\A i \in DOMAIN chain[t] : Calls(chain[t][i]) = Below(chain[t][i]))' <=>
            \A i \in DOMAIN s : callsNext(s[i]) = after(s[i])
    BY <1>1 DEF Calls, Below, callsNext, after
  <1> QED
    BY <1>3, <1>4, <1>5, <1>6, <1>7, <1>8, <1>9, <1>10 DEF WalkInv

\* A start that begins takes the whole chain, from its head.
LEMMA BeginWalk ==
  ASSUME TypeOK, ChainInv, NEW t \in Starters, StartInv(t), BeginStart(t)
  PROVE  WalkInv(t)' /\ StartInv(t)'
  <1>1. /\ at[t] = "idle" /\ UNCHANGED <<head, previous, old, installed>>
        /\ at'[t] = head /\ chain'[t] = installed /\ ran'[t] = <<>>
        /\ called'[t] = called[t] /\ stored'[t] = ~InWindow
    BY DEF BeginStart, TypeOK, chainVars
  <1>2. ~called[t]
    BY <1>1 DEF StartInv
  <1>3. installed \in Seq(Handlers) /\ \A i \in DOMAIN installed : installed[i] \in Handlers
    BY DEF TypeOK
  <1>4. stored'[t] => \A i \in DOMAIN installed : Calls(installed[i]) = Below(installed[i])
    <2>1. ASSUME ~InWindow, NEW g \in Handlers, In(g)
          PROVE  Calls(g) = Below(g)
      BY <2>1 DEF InWindow, ChainInv, Calls, Below, Handlers
    <2> QED
      BY <1>1, <1>3, <2>1 DEF In
  <1>5. WalkInv(t)'
    <2>1. Distinct(chain[t])' /\ Linked(chain[t])'
      BY <1>1 DEF ChainInv, Distinct, Linked, Below
    <2>2. (\A i \in DOMAIN chain[t] : In(chain[t][i]))'
      BY <1>1 DEF In
    <2>3. (stored[t] => \A i \in DOMAIN chain[t] : Calls(chain[t][i]) = Below(chain[t][i]))'
      BY <1>1, <1>4 DEF Calls, Below
    <2> QED
      BY <2>1, <2>2, <2>3 DEF WalkInv
  <1>6. StartInv(t)'
    <2>1. Len(ran'[t]) = 0 /\ Len(installed) \in Nat
      BY <1>1, <1>3
    <2>2. head \in Handlers => Len(installed) > 0 /\ head = installed[1]
      BY <1>3, <2>1 DEF ChainInv, Handlers, None
    <2>3. head = None => Len(installed) = 0
      BY <1>3, <2>1 DEF ChainInv, Handlers, None
    <2> QED
      BY <1>1, <1>2, <2>1, <2>2, <2>3 DEF StartInv
  <1> QED
    BY <1>5, <1>6

\* A handler does its own work: it is the next of the chain.
LEMMA HandleWalk ==
  ASSUME TypeOK, NEW t \in Starters, StartInv(t),
         NEW h \in Handlers, NEW done, NEW flushed, NEW wrote, Handle(t, h, done, flushed, wrote)
  PROVE  StartInv(t)'
  <1>1. /\ at[t] = h /\ ~called[t] /\ called'[t]
        /\ ran'[t] = Append(ran[t], h)
        /\ at'[t] = h /\ chain'[t] = chain[t] /\ stored'[t] = stored[t]
    BY DEF Handle, TypeOK
  <1>2. ran[t] \in Seq(Handlers) /\ chain[t] \in Seq(Handlers)
    BY DEF TypeOK
  <1>3. Len(ran[t]) < Len(chain[t]) /\ h = chain[t][Len(ran[t]) + 1]
    BY <1>1 DEF StartInv
  <1>4. /\ Len(ran'[t]) = Len(ran[t]) + 1 /\ ran'[t][Len(ran[t]) + 1] = h
        /\ \A i \in 1..Len(ran[t]) : ran'[t][i] = ran[t][i]
    BY <1>1, <1>2
  <1>5. h \notin {"idle", None}
    BY DEF Handlers, None
  <1>6. \A i \in 1..Len(ran'[t]) : ran'[t][i] = chain'[t][i]
    <2>1. \A i \in 1..Len(ran[t]) : ran[t][i] = chain[t][i]
      BY DEF StartInv
    <2> QED
      BY <1>1, <1>2, <1>3, <1>4, <2>1
  <1>7. Len(ran'[t]) <= Len(chain'[t]) /\ Len(ran'[t]) > 0 /\ at'[t] = chain'[t][Len(ran'[t])]
    BY <1>1, <1>2, <1>3, <1>4
  <1> QED
    BY <1>1, <1>5, <1>6, <1>7 DEF StartInv

\* A handler calls the next of the chain, or the NULL that is not stored yet.
LEMMA ChainWalk ==
  ASSUME TypeOK, ChainInv, NEW t \in Starters, WalkInv(t), StartInv(t), Chain(t)
  PROVE  StartInv(t)'
  <1>1. /\ at[t] \in Handlers /\ called[t] /\ ~called'[t] /\ at'[t] = Calls(at[t])
        /\ ran'[t] = ran[t] /\ chain'[t] = chain[t] /\ stored'[t] = stored[t]
    BY DEF Chain, TypeOK, Calls
  <1>2. ran[t] \in Seq(Handlers) /\ chain[t] \in Seq(Handlers)
    BY DEF TypeOK
  <1>3. /\ Len(ran[t]) > 0 /\ Len(ran[t]) <= Len(chain[t]) /\ at[t] = chain[t][Len(ran[t])]
        /\ \A i \in 1..Len(ran[t]) : ran[t][i] = chain[t][i]
    BY <1>1 DEF StartInv
  <1>4. Len(ran[t]) \in DOMAIN chain[t]
    BY <1>2, <1>3
  <1>5. Calls(at[t]) \in {None, Below(at[t])}
    BY <1>1 DEF ChainInv, Calls, Below, Handlers
  <1>6. Below(at[t]) = IF Len(ran[t]) < Len(chain[t]) THEN chain[t][Len(ran[t]) + 1] ELSE None
    BY <1>3, <1>4 DEF WalkInv, Linked
  <1>7. stored[t] => Calls(at[t]) = Below(at[t])
    BY <1>3, <1>4 DEF WalkInv
  <1>8. Len(ran[t]) < Len(chain[t]) => chain[t][Len(ran[t]) + 1] \in Handlers
    BY <1>2, <1>3
  <1>9. None \notin Handlers
    BY DEF None, Handlers
  <1>10. (at'[t] \in Handlers) => Len(ran[t]) < Len(chain[t]) /\ at'[t] = chain[t][Len(ran[t]) + 1]
    BY <1>1, <1>5, <1>6, <1>9
  <1>11. (at'[t] = None /\ stored[t]) => Len(ran[t]) = Len(chain[t])
    <2>1. (at'[t] = None /\ stored[t]) => ~(Len(ran[t]) < Len(chain[t]))
      BY <1>1, <1>6, <1>7, <1>8, <1>9
    <2> QED
      BY <1>2, <1>3, <2>1
  <1> QED
    BY <1>1, <1>3, <1>10, <1>11 DEF StartInv

LEMMA StartStep ==
  ASSUME IInv, [Next]_vars, NEW u \in Starters
  PROVE  WalkInv(u)' /\ StartInv(u)'
  <1>1. TypeOK /\ ChainInv /\ WalkInv(u) /\ StartInv(u)
    BY DEF IInv
  <1>2. CASE /\ at'[u] = at[u] /\ called'[u] = called[u] /\ ran'[u] = ran[u]
             /\ chain'[u] = chain[u] /\ stored'[u] = stored[u]
    <2>1. StartInv(u)'
      BY <1>1, <1>2 DEF StartInv
    <2> QED
      BY <1>1, <1>2, <2>1, WalkKept
  <1>3. CASE UNCHANGED starts
    BY <1>2, <1>3 DEF starts
  <1>4. ASSUME NEW t \in Starters, Start(t)
        PROVE  WalkInv(u)' /\ StartInv(u)'
    <2>1. CASE t # u
      BY <1>1, <1>2, <1>4, <2>1 DEF Start, BeginStart, KernelOnModuleStart, UserOnModuleStart,
         CfwOnModuleStart, Handle, Chain, EndStart, TypeOK
    <2>2. CASE BeginStart(u)
      BY <1>1, <2>2, BeginWalk
    <2>3. CASE KernelOnModuleStart(u) \/ UserOnModuleStart(u) \/ CfwOnModuleStart(u)
      <3>1. PICK h \in Handlers, done \in SUBSET Effects, flushed \in BOOLEAN, wrote \in BOOLEAN :
               Handle(u, h, done, flushed, wrote)
        BY <2>3, HandlerStep
      <3>2. StartInv(u)'
        BY <1>1, <3>1, HandleWalk
      <3>3. chain'[u] = chain[u] /\ stored'[u] = stored[u]
        BY <3>1 DEF Handle
      <3> QED
        BY <1>1, <3>2, <3>3, WalkKept
    <2>4. CASE Chain(u)
      <3>1. chain'[u] = chain[u] /\ stored'[u] = stored[u]
        BY <2>4 DEF Chain
      <3> QED
        BY <1>1, <2>4, <3>1, WalkKept, ChainWalk
    <2>5. CASE EndStart(u)
      <3>1. /\ at[u] = None /\ at'[u] = "idle" /\ called'[u] = called[u] /\ ran'[u] = ran[u]
            /\ chain'[u] = chain[u] /\ stored'[u] = stored[u]
        BY <1>1, <2>5 DEF EndStart, TypeOK
      <3>2. StartInv(u)'
        BY <1>1, <3>1 DEF StartInv, Handlers, None
      <3> QED
        BY <1>1, <3>1, <3>2, WalkKept
    <2> QED
      BY <1>4, <2>1, <2>2, <2>3, <2>4, <2>5 DEF Start
  <1>5. Boot \/ StartLibrary \/ Helper \/ UNCHANGED vars => UNCHANGED starts
    BY DEF Boot, CreateSlideDiagnosticsThread, CreatePatchThread, CreateBtnThread,
       SetKernelHandler, StoreKernelPrevious, StartLibrary, Helper, FindLibrary, LoadModule,
       StartModule, SetUserHandler, StoreUserPrevious, UnloadModule, vars
  <1> QED
    BY <1>3, <1>4, <1>5 DEF Next

-----------------------------------------------------------------------------
(* The invariant, and what follows from it.                                 *)

LEMMA InitInv ==
  ASSUME Init
  PROVE  IInv
  <1>1. head \in {"cfw", None}
    BY ConfigsAssumption DEF Init, Config
  <1>2. ASSUME head = None
        PROVE  /\ installed \in Seq(Handlers)
               /\ Distinct(installed) /\ Linked(installed) /\ ~In("kernel") /\ ~In("user")
               /\ head = IF Len(installed) = 0 THEN None ELSE installed[1]
    <2>1. installed = <<>> /\ Len(installed) = 0 /\ DOMAIN installed = {}
      BY <1>2 DEF Init
    <2>2. installed \in Seq(Handlers)
      BY <2>1
    <2>3. Distinct(installed) /\ Linked(installed) /\ ~In("kernel") /\ ~In("user")
      BY <2>1 DEF Distinct, Linked, In
    <2> QED
      BY <1>2, <2>1, <2>2, <2>3
  <1>3. ASSUME head = "cfw"
        PROVE  /\ installed \in Seq(Handlers)
               /\ Distinct(installed) /\ Linked(installed) /\ ~In("kernel") /\ ~In("user")
               /\ head = IF Len(installed) = 0 THEN None ELSE installed[1]
    <2>1. installed = <<"cfw">>
      BY <1>3 DEF Init, None
    <2>2. DOMAIN installed = {1} /\ Len(installed) = 1 /\ installed[1] = "cfw"
      BY <2>1
    <2>3. installed \in Seq(Handlers)
      BY <2>1 DEF Handlers
    <2>4. Distinct(installed) /\ Linked(installed) /\ ~In("kernel") /\ ~In("user")
      BY <2>2 DEF Distinct, Linked, Below, In
    <2> QED
      BY <1>3, <2>2, <2>3, <2>4
  <1>4. /\ installed \in Seq(Handlers)
        /\ Distinct(installed) /\ Linked(installed) /\ ~In("kernel") /\ ~In("user")
        /\ head = IF Len(installed) = 0 THEN None ELSE installed[1]
    BY <1>1, <1>2, <1>3
  <1>6. TypeOK
    <2>1. /\ config \in Configs /\ head \in Handlers \cup {None}
          /\ previous = [h \in {"kernel", "user"} |-> None] /\ old = previous
          /\ bpc = "diag" /\ threads = {} /\ hpc = None /\ library = FALSE
          /\ userModule = "absent"
      BY <1>1 DEF Init, Handlers
    <2>2. /\ at \in [Starters -> Handlers \cup {"idle", None}]
          /\ called \in [Starters -> BOOLEAN] /\ stored \in [Starters -> BOOLEAN]
          /\ module \in [Starters -> Modules] /\ effects \in [Starters -> SUBSET Effects]
          /\ dirty \in [Starters -> BOOLEAN]
      BY DEF Init, Modules
    <2>3. ran \in [Starters -> Seq(Handlers)] /\ chain \in [Starters -> Seq(Handlers)]
      BY DEF Init
    <2> QED
      BY <1>4, <2>1, <2>2, <2>3 DEF TypeOK
  <1>7. ChainInv
    <2>1. /\ bpc = "diag" /\ hpc = None
          /\ \A h \in {"kernel", "user"} : previous[h] = None /\ old[h] = None
      BY DEF Init
    <2> QED
      BY <1>4, <2>1 DEF ChainInv, None
  <1>5. ASSUME NEW t \in Starters
        PROVE  WalkInv(t) /\ StartInv(t)
    BY DEF Init, WalkInv, StartInv, Distinct, Linked, Handlers
  <1> QED
    BY <1>5, <1>6, <1>7 DEF IInv

LEMMA Inductive ==
  ASSUME IInv, [Next]_vars
  PROVE  IInv'
  <1>1. TypeOK' /\ ChainInv'
    BY TypeStep, ChainStep DEF IInv
  <1> QED
    BY <1>1, StartStep DEF IInv

LEMMA Invariant == Spec => []IInv
  <1>1. IInv /\ [Next]_vars => IInv'
    BY Inductive
  <1> QED
    BY InitInv, <1>1, PTL DEF Spec

\* What a start has run is the front of the chain it began with: no handler
\* twice, and at the end of a start outside an installation, all of them.
LEMMA RanPrefix ==
  ASSUME IInv, NEW t \in Starters
  PROVE  /\ Distinct(ran[t])
         /\ at[t] = None /\ stored[t] => ran[t] = chain[t]
  <1>1. /\ ran[t] \in Seq(Handlers) /\ chain[t] \in Seq(Handlers)
        /\ Len(ran[t]) <= Len(chain[t]) /\ Distinct(chain[t])
        /\ \A i \in 1..Len(ran[t]) : ran[t][i] = chain[t][i]
        /\ (at[t] = None /\ stored[t]) => Len(ran[t]) = Len(chain[t])
    BY DEF IInv, TypeOK, WalkInv, StartInv
  <1>2. Distinct(ran[t])
    <2>1. ASSUME NEW i \in DOMAIN ran[t], NEW j \in DOMAIN ran[t], ran[t][i] = ran[t][j]
          PROVE  i = j
      <3>1. i \in DOMAIN chain[t] /\ j \in DOMAIN chain[t] /\ chain[t][i] = chain[t][j]
        BY <1>1, <2>1
      <3> QED
        BY <1>1, <3>1 DEF Distinct
    <2> QED
      BY <2>1 DEF Distinct
  <1>3. ASSUME at[t] = None, stored[t]
        PROVE  ran[t] = chain[t]
    BY <1>1, <1>3
  <1> QED
    BY <1>2, <1>3

\* Type correctness of the boot, of the chain and of every start
\* (kernel/main.c:1469-1563, 1715-1869; user/main.c:165-204).
THEOREM TypeCorrect == Spec => []TypeOK
  <1>1. IInv => TypeOK
    BY DEF IInv
  <1> QED
    BY Invariant, <1>1, PTL

\* No handler runs twice for one start, however installations and starts are
\* interleaved (kernel/main.c:1511, user/main.c:191).
THEOREM NoHandlerTwiceHolds == Spec => []NoHandlerTwice
  <1>1. IInv => NoHandlerTwice
    BY RanPrefix DEF NoHandlerTwice, Distinct
  <1> QED
    BY Invariant, <1>1, PTL

\* A start that began outside an installation runs the whole chain it began
\* with, in its order, whatever is installed meanwhile (kernel/main.c:1511,
\* 1855, 1861; user/main.c:191, 198).
THEOREM WholeChainRunsHolds == Spec => []WholeChainRuns
  <1>1. IInv => WholeChainRuns
    BY RanPrefix DEF WholeChainRuns, Returned
  <1> QED
    BY Invariant, <1>1, PTL

\* The handler of a user module that was not started, or is being unloaded, is
\* never the head, never chained to, and no start is in it
\* (kernel/main.c:1546-1558).
THEOREM NoDanglingHandlerHolds == Spec => []NoDanglingHandler
  <1>1. ASSUME IInv, head = "user" \/ previous["kernel"] = "user"
        PROVE  In("user")
    <2>1. ChainInv /\ installed \in Seq(Handlers)
      BY <1>1 DEF IInv, TypeOK
    <2>2. CASE head = "user"
      <3>1. Len(installed) # 0 /\ installed[1] = "user"
        BY <2>1, <2>2 DEF ChainInv, None
      <3>2. 1 \in DOMAIN installed
        BY <2>1, <3>1
      <3> QED
        BY <3>1, <3>2 DEF In
    <2>3. CASE previous["kernel"] = "user"
      <3>1. In("kernel") /\ old["kernel"] = "user"
        BY <2>1, <2>3 DEF ChainInv, None
      <3>2. PICK i \in DOMAIN installed : installed[i] = "kernel"
        BY <3>1 DEF In
      <3>3. i < Len(installed) /\ installed[i + 1] = "user"
        BY <2>1, <3>1, <3>2 DEF ChainInv, Linked, Below, None
      <3>4. i + 1 \in DOMAIN installed
        BY <2>1, <3>2, <3>3
      <3> QED
        BY <3>3, <3>4 DEF In
    <2> QED
      BY <1>1, <2>2, <2>3
  <1>2. ASSUME IInv, NEW t \in Starters, at[t] = "user"
        PROVE  In("user")
    <2>1. WalkInv(t) /\ StartInv(t) /\ ran[t] \in Seq(Handlers) /\ chain[t] \in Seq(Handlers)
      BY <1>2 DEF IInv, TypeOK
    <2>2. PICK i \in DOMAIN chain[t] : chain[t][i] = "user"
      <3>1. CASE called[t]
        <4>1. Len(ran[t]) \in DOMAIN chain[t] /\ chain[t][Len(ran[t])] = "user"
          BY <1>2, <2>1, <3>1 DEF StartInv
        <4> QED
          BY <4>1
      <3>2. CASE ~called[t]
        <4>1. /\ Len(ran[t]) + 1 \in DOMAIN chain[t]
              /\ chain[t][Len(ran[t]) + 1] = "user"
          BY <1>2, <2>1, <3>2 DEF StartInv, Handlers
        <4> QED
          BY <4>1
      <3> QED
        BY <3>1, <3>2
    <2> QED
      BY <2>1, <2>2 DEF WalkInv
  <1>3. IInv => NoDanglingHandler
    BY <1>1, <1>2 DEF NoDanglingHandler, IInv, ChainInv
  <1> QED
    BY Invariant, <1>3, PTL

-----------------------------------------------------------------------------
(* What the handlers have done for a start.                                 *)

Ran(t, h) == \E i \in DOMAIN ran[t] : ran[t][i] = h

Clock == {"hookImports", "localTime", "initEntry"}

\* What each handler has run leaves its mark on the start of slide_plugin; an
\* armed experiment writes no code, and the kernel handler's ClearCaches covers
\* the user handler's patches when it runs after it.
WorkInv(t) ==
    /\ module[t] = "slide_plugin_module" =>
          /\ (Ran(t, "kernel") /\ Armed) => "captureStart" \in effects[t]
          /\ (Ran(t, "kernel") /\ ~Armed) => "hookImports" \in effects[t]
          /\ (Ran(t, "user") /\ ~Armed) => {"localTime", "initEntry"} \subseteq effects[t]
          /\ Armed => effects[t] \cap Clock = {}
    /\ Armed \/ Len(ran[t]) = 0 => ~dirty[t]
    /\ (Len(ran[t]) > 1 /\ ran[t][1] = "user" /\ ran[t][2] = "kernel") => ~dirty[t]

\* One more handler h, which has not run yet, and what it does.
LEMMA HandleWork ==
  ASSUME IInv, NEW t \in Starters, WorkInv(t), config' = config,
         NEW h \in Handlers, NEW done \in SUBSET Effects,
         NEW flushed \in BOOLEAN, NEW wrote \in BOOLEAN,
         Handle(t, h, done, flushed, wrote),
         Armed => ~wrote, h # "user" => ~wrote, (h = "kernel" /\ ~Armed) => flushed,
         module[t] = "slide_plugin_module" =>
            /\ (h = "kernel" /\ Armed) => "captureStart" \in done
            /\ (h = "kernel" /\ ~Armed) => "hookImports" \in done
            /\ (h = "user" /\ ~Armed) => {"localTime", "initEntry"} \subseteq done
            /\ Armed => done \cap Clock = {}
  PROVE  WorkInv(t)'
  <1>1. /\ ran'[t] = Append(ran[t], h) /\ effects'[t] = effects[t] \cup done
        /\ module'[t] = module[t]
        /\ dirty'[t] = (wrote \/ (dirty[t] /\ ~flushed))
    BY DEF Handle, IInv, TypeOK
  <1>2. ran[t] \in Seq(Handlers) /\ chain[t] \in Seq(Handlers)
    BY DEF IInv, TypeOK
  <1>3. Armed' = Armed
    BY DEF Armed
  <1>4. /\ Len(ran'[t]) = Len(ran[t]) + 1 /\ ran'[t][Len(ran[t]) + 1] = h
        /\ \A i \in 1..Len(ran[t]) : ran'[t][i] = ran[t][i]
    BY <1>1, <1>2
  <1>5. \A g : Ran(t, g)' => (Ran(t, g) \/ g = h)
    <2>1. ASSUME NEW g, NEW i \in DOMAIN ran'[t], ran'[t][i] = g
          PROVE  Ran(t, g) \/ g = h
      <3>1. i \in 1..Len(ran[t]) \/ i = Len(ran[t]) + 1
        BY <1>1, <1>2, <2>1
      <3>2. DOMAIN ran[t] = 1..Len(ran[t])
        BY <1>2
      <3> QED
        BY <1>4, <2>1, <3>1, <3>2 DEF Ran
    <2> QED
      BY <2>1 DEF Ran
  <1>6. module'[t] = "slide_plugin_module" =>
          /\ (Ran(t, "kernel")' /\ Armed') => "captureStart" \in effects'[t]
          /\ (Ran(t, "kernel")' /\ ~Armed') => "hookImports" \in effects'[t]
          /\ (Ran(t, "user")' /\ ~Armed') => {"localTime", "initEntry"} \subseteq effects'[t]
          /\ Armed' => effects'[t] \cap Clock = {}
    BY <1>1, <1>3, <1>5 DEF WorkInv
  <1>7. ~(Len(ran'[t]) = 0) /\ (Armed' => ~dirty'[t])
    <2>1. Len(ran'[t]) # 0
      BY <1>2, <1>4
    <2>2. Armed => ~dirty[t]
      BY DEF WorkInv
    <2> QED
      BY <1>1, <1>3, <2>1, <2>2
  <1>8. ASSUME Len(ran'[t]) > 1, ran'[t][1] = "user", ran'[t][2] = "kernel"
        PROVE  ~dirty'[t]
    <2>1. Len(ran[t]) = 1 \/ Len(ran[t]) > 1
      <3>1. Len(ran[t]) \in Nat
        BY <1>2
      <3>2. Len(ran[t]) + 1 > 1
        BY <1>4, <1>8
      <3>3. \A n \in Nat : n + 1 > 1 => n = 1 \/ n > 1
        OBVIOUS
      <3> QED
        BY <3>1, <3>2, <3>3, Zenon
    <2>2. CASE Len(ran[t]) = 1
      <3>1. h = "kernel"
        BY <1>4, <1>8, <2>2
      <3>2. Armed => ~dirty[t]
        BY DEF WorkInv
      <3> QED
        BY <1>1, <3>1, <3>2
    <2>3. CASE Len(ran[t]) > 1
      <3>1. ran[t][1] = "user" /\ ran[t][2] = "kernel"
        BY <1>2, <1>4, <1>8, <2>3
      <3>2. ~dirty[t]
        BY <2>3, <3>1 DEF WorkInv
      <3>3. h # "user"
        <4>1. /\ at[t] \in Handlers /\ ~called[t] /\ h = at[t]
          BY DEF Handle
        <4>2. /\ Len(ran[t]) < Len(chain[t]) /\ h = chain[t][Len(ran[t]) + 1]
              /\ chain[t][1] = ran[t][1] /\ Distinct(chain[t])
          BY <1>2, <2>3, <4>1 DEF IInv, StartInv, WalkInv
        <4>3. Len(ran[t]) + 1 \in DOMAIN chain[t] /\ 1 \in DOMAIN chain[t] /\ Len(ran[t]) + 1 # 1
          BY <1>2, <2>3, <4>2
        <4>4. chain[t][Len(ran[t]) + 1] # chain[t][1]
          BY <4>2, <4>3 DEF Distinct
        <4> QED
          BY <3>1, <4>2, <4>4
      <3> QED
        BY <1>1, <3>2, <3>3
    <2> QED
      BY <2>1, <2>2, <2>3
  <1> QED
    BY <1>6, <1>7, <1>8 DEF WorkInv

\* The three handlers do that much.
LEMMA HandlersWork ==
  ASSUME IInv, NEW t \in Starters, WorkInv(t), config' = config,
         KernelOnModuleStart(t) \/ UserOnModuleStart(t) \/ CfwOnModuleStart(t)
  PROVE  WorkInv(t)'
  <1>1. CASE KernelOnModuleStart(t)
    <2>1. CASE Armed /\ module[t] = "slide_plugin_module"
      <3>1. Handle(t, "kernel", {"captureStart"}, FALSE, FALSE)
        BY <1>1, <2>1 DEF KernelOnModuleStart
      <3>2. {"captureStart"} \in SUBSET Effects /\ "kernel" \in Handlers
            /\ {"captureStart"} \cap Clock = {}
        BY DEF Effects, Handlers, Clock
      <3> QED
        BY <2>1, <3>1, <3>2, HandleWork
    <2>2. CASE ~(Armed /\ module[t] = "slide_plugin_module")
      <3> DEFINE done == When(module[t] = "slide_plugin_module", {"hookImports"})
      <3>1. Handle(t, "kernel", done, TRUE, FALSE)
        BY <1>1, <2>2 DEF KernelOnModuleStart
      <3>2. /\ done \in SUBSET Effects /\ "kernel" \in Handlers
            /\ module[t] = "slide_plugin_module" => ~Armed /\ "hookImports" \in done
        BY <2>2 DEF Effects, Handlers, When
      <3> HIDE DEF done
      <3> QED
        BY <3>1, <3>2, HandleWork
    <2> QED
      BY <2>1, <2>2
  <1>2. CASE UserOnModuleStart(t)
    <2> DEFINE patches == UserPatches(module[t])
               done == When(Armed /\ module[t] = "vsh_module" /\ config.devkit = "6.61",
                            {"recordVsh"}) \cup patches
    <2>1. Handle(t, "user", done, FALSE, patches # {})
      BY <1>2 DEF UserOnModuleStart
    <2>2. done \in SUBSET Effects /\ "user" \in Handlers
      BY DEF UserPatches, When, Effects, Handlers
    <2>3. Armed => patches = {}
      BY DEF UserPatches, When
    <2>4. module[t] = "slide_plugin_module" =>
             /\ ~Armed => {"localTime", "initEntry"} \subseteq done
             /\ Armed => done \cap Clock = {}
      BY DEF UserPatches, When, Clock
    <2>5. (patches # {}) \in BOOLEAN
      OBVIOUS
    <2> HIDE DEF done, patches
    <2> QED
      BY <2>1, <2>2, <2>3, <2>4, <2>5, HandleWork
  <1>3. CASE CfwOnModuleStart(t)
    <2>1. Handle(t, "cfw", {}, FALSE, FALSE)
      BY <1>3 DEF CfwOnModuleStart
    <2>2. "cfw" \in Handlers
      BY DEF Handlers
    <2> QED
      BY <2>1, <2>2, HandleWork
  <1> QED
    BY <1>1, <1>2, <1>3

LEMMA WorkStep ==
  ASSUME IInv, [Next]_vars, NEW u \in Starters, WorkInv(u)
  PROVE  WorkInv(u)'
  <1>1. config' = config
    BY DEF Next, Boot, CreateSlideDiagnosticsThread, CreatePatchThread, CreateBtnThread,
       SetKernelHandler, StoreKernelPrevious, StartLibrary, Helper, FindLibrary, LoadModule,
       StartModule, SetUserHandler, StoreUserPrevious, UnloadModule, Start, BeginStart,
       KernelOnModuleStart, UserOnModuleStart, CfwOnModuleStart, Handle, Chain, EndStart,
       vars, bootVars
  <1>2. CASE /\ ran'[u] = ran[u] /\ effects'[u] = effects[u] /\ module'[u] = module[u]
             /\ dirty'[u] = dirty[u]
    BY <1>1, <1>2 DEF WorkInv, Ran, Armed
  <1>3. CASE UNCHANGED starts
    BY <1>2, <1>3 DEF starts
  <1>4. ASSUME NEW t \in Starters, Start(t)
        PROVE  WorkInv(u)'
    <2>1. CASE t # u
      BY <1>2, <1>4, <2>1 DEF Start, BeginStart, KernelOnModuleStart, UserOnModuleStart,
         CfwOnModuleStart, Handle, Chain, EndStart, IInv, TypeOK
    <2>2. CASE BeginStart(u)
      <3>1. ran'[u] = <<>> /\ effects'[u] = {} /\ dirty'[u] = FALSE
        BY <2>2 DEF BeginStart, IInv, TypeOK
      <3>2. Len(ran'[u]) = 0 /\ ~Ran(u, "kernel")' /\ ~Ran(u, "user")'
        BY <3>1 DEF Ran
      <3> QED
        BY <3>1, <3>2 DEF WorkInv
    <2>3. CASE KernelOnModuleStart(u) \/ UserOnModuleStart(u) \/ CfwOnModuleStart(u)
      BY <1>1, <2>3, HandlersWork
    <2>4. CASE Chain(u) \/ EndStart(u)
      BY <1>2, <2>4 DEF Chain, EndStart
    <2> QED
      BY <1>4, <2>1, <2>2, <2>3, <2>4 DEF Start
  <1>5. Boot \/ StartLibrary \/ Helper \/ UNCHANGED vars => UNCHANGED starts
    BY DEF Boot, CreateSlideDiagnosticsThread, CreatePatchThread, CreateBtnThread,
       SetKernelHandler, StoreKernelPrevious, StartLibrary, Helper, FindLibrary, LoadModule,
       StartModule, SetUserHandler, StoreUserPrevious, UnloadModule, vars
  <1> QED
    BY <1>3, <1>4, <1>5 DEF Next

LEMMA WorkInvariant == Spec => [](IInv /\ \A t \in Starters : WorkInv(t))
  <1>1. Init => \A t \in Starters : WorkInv(t)
    BY DEF Init, WorkInv, Ran, Clock
  <1>2. IInv /\ (\A t \in Starters : WorkInv(t)) /\ [Next]_vars
          => (\A t \in Starters : WorkInv(t))'
    BY WorkStep
  <1> QED
    BY Invariant, <1>1, <1>2, PTL DEF Spec

\* With both handlers in the chain of a start of slide_plugin, the clock's three
\* changes to it are all made, and for an armed experiment none of them
\* (kernel/main.c:1488-1508, user/main.c:186-189).
THEOREM SlidePluginAllOrNoneHolds == Spec => []SlidePluginAllOrNone
  <1>1. ASSUME IInv, NEW t \in Starters, WorkInv(t), Returned(t), stored[t],
               {"kernel", "user"} \subseteq {chain[t][i] : i \in DOMAIN chain[t]},
               module[t] = "slide_plugin_module"
        PROVE  IF Armed THEN effects[t] \cap Clock = {} /\ "captureStart" \in effects[t]
               ELSE effects[t] \cap Clock = Clock
    <2>1. ran[t] = chain[t]
      BY <1>1, RanPrefix DEF Returned
    <2>2. Ran(t, "kernel") /\ Ran(t, "user")
      BY <1>1, <2>1 DEF Ran
    <2> QED
      BY <1>1, <2>2 DEF WorkInv, Clock
  <1>2. IInv /\ (\A t \in Starters : WorkInv(t)) => SlidePluginAllOrNone
    BY <1>1 DEF SlidePluginAllOrNone, Clock
  <1> QED
    BY WorkInvariant, <1>2, PTL

\* A start that goes through the user handler and then the kernel handler ends
\* with no code left in the data cache alone, whatever handler comes after
\* (kernel/main.c:1510, user/main.c:98-106, 191).
THEOREM PatchesFlushedHolds == Spec => []PatchesFlushed
  <1>1. ASSUME IInv, NEW t \in Starters, WorkInv(t), Returned(t), stored[t],
               Len(chain[t]) > 1, chain[t][1] = "user", chain[t][2] = "kernel"
        PROVE  ~dirty[t]
    <2>1. ran[t] = chain[t]
      BY <1>1, RanPrefix DEF Returned
    <2> QED
      BY <1>1, <2>1 DEF WorkInv
  <1>2. IInv /\ (\A t \in Starters : WorkInv(t)) => PatchesFlushed
    BY <1>1 DEF PatchesFlushed
  <1> QED
    BY WorkInvariant, <1>2, PTL
=============================================================================
