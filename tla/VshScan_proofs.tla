--------------------------- MODULE VshScan_proofs ---------------------------
(* What holds of the scans of VshScan for every text, table and limit.      *)
EXTENDS VshScan, NatLemmas, FiniteSetTheorems, TLAPS

\* No array is written past its end, and what does not fit is counted.
Retained ==
    \A s \in Scans :
        /\ Len(refs[s]) <= Capacity(s)
        /\ overflow[s] + Len(refs[s]) = total[s]
        /\ overflow[s] > 0 => Len(refs[s]) = Capacity(s)

\* A reference whose window is clamped.
Clamped(w, i) ==
    /\ 0 <= w.start /\ w.end <= Words
    /\ w.start <= i /\ i < w.end
    /\ w.end - w.start <= Before + After

Records == {r \in [source : Offsets, kind : 1..2, window : [start : Int, end : Int]] :
                Clamped(r.window, r.source)}

ScanTypeOK ==
    /\ pass \in 1..2
    /\ offset \in 0..Words
    /\ total \in [Scans -> Nat]
    /\ overflow \in [Scans -> Nat]
    /\ refs \in [Scans -> Seq(Records)]

\* What the global scan has stored lies behind it: stores before loads, and
\* each at an offset it has left.
Behind ==
    \A k \in DOMAIN refs["global"] :
        LET r == refs["global"][k]
        IN  /\ phase \in {"global", "state", "done"}
            /\ Op(r.source) = <<"store", "load">>[r.kind]
            /\ phase = "global" => /\ r.kind <= pass
                                   /\ r.kind = pass => r.source < offset

IInv == ScanTypeOK /\ Retained /\ Behind

-----------------------------------------------------------------------------

LEMMA WindowClamped ==
    ASSUME NEW i \in Offsets
    PROVE  Window(i) \in [start : Int, end : Int] /\ Clamped(Window(i), i)
BY ScanAssumption DEF Window, Clamped, Offsets

LEMMA ReferenceRecorded ==
    ASSUME NEW i \in Offsets, NEW p \in 1..2
    PROVE  Reference(p, i) \in Records
BY WindowClamped DEF Reference, Records

LEMMA CapacityNat == \A s \in Scans : Capacity(s) \in Nat
BY ScanAssumption DEF Capacity

\* The test against storing an offset twice never decides.
LEMMA NeverStored ==
    ASSUME IInv, NEW s \in Scans, phase = s, IsReference(s, pass, offset)
    PROVE  ~Stored(s, offset)
<1>1. SUFFICES ASSUME s = "global",
                      NEW k \in DOMAIN refs["global"],
                      refs["global"][k].source = offset
               PROVE  FALSE
  BY DEF Stored
<1>2. Op(offset) = <<"store", "load">>[pass]
  BY <1>1 DEF IsReference
<1> DEFINE r == refs["global"][k]
<1>3. r \in Records
  BY <1>1 DEF IInv, ScanTypeOK, Scans
<1>4. r.kind \in 1..2 /\ r.source \in Int /\ pass \in 1..2 /\ offset \in Int
  BY <1>3 DEF Records, IInv, ScanTypeOK, Offsets
<1>5. /\ Op(r.source) = <<"store", "load">>[r.kind]
      /\ r.kind <= pass
      /\ r.kind = pass => r.source < offset
  BY <1>1 DEF IInv, Behind
<1>6. r.kind = 1 /\ pass = 2
  BY <1>1, <1>4, <1>5
<1> QED BY <1>1, <1>2, <1>5, <1>6

\* One reference counted: retained while there is room, else an overflow.
LEMMA RetainKeeps ==
    ASSUME IInv, NEW s \in Scans, phase = s, offset < Words,
           IsReference(s, pass, offset),
           total' = [total EXCEPT ![s] = @ + 1],
           Retain(s, pass, offset)
    PROVE  /\ total' \in [Scans -> Nat]
           /\ overflow' \in [Scans -> Nat]
           /\ refs' \in [Scans -> Seq(Records)]
           /\ Retained'
<1>1. Reference(pass, offset) \in Records
  BY ReferenceRecorded, ScanAssumption DEF IInv, ScanTypeOK, Offsets
<1>2. \A t \in Scans : Len(refs[t]) \in Nat /\ Capacity(t) \in Nat
  BY CapacityNat DEF IInv, ScanTypeOK
<1>3. total' \in [Scans -> Nat] /\ total'[s] = total[s] + 1
  BY DEF IInv, ScanTypeOK
<1>4. ~Stored(s, offset)
  BY NeverStored
<1>5. SUFFICES ASSUME NEW t \in Scans
               PROVE  /\ overflow' \in [Scans -> Nat]
                      /\ refs' \in [Scans -> Seq(Records)]
                      /\ Len(refs'[t]) <= Capacity(t)
                      /\ overflow'[t] + Len(refs'[t]) = total'[t]
                      /\ overflow'[t] > 0 => Len(refs'[t]) = Capacity(t)
  BY <1>3 DEF Retained, Capacity, Scans
<1>6. /\ Len(refs[t]) <= Capacity(t)
      /\ overflow[t] + Len(refs[t]) = total[t]
      /\ overflow[t] > 0 => Len(refs[t]) = Capacity(t)
      /\ overflow[t] \in Nat /\ total[t] \in Nat
      /\ t # s => total'[t] = total[t]
  BY DEF IInv, ScanTypeOK, Retained
<1>7. CASE Len(refs[s]) < Capacity(s)
  <2>1. /\ refs' = [refs EXCEPT ![s] = Append(@, Reference(pass, offset))]
        /\ overflow' = overflow
    BY <1>4, <1>7 DEF Retain
  <2>2. refs' \in [Scans -> Seq(Records)]
    BY <1>1, <2>1 DEF IInv, ScanTypeOK
  <2>3. Len(refs'[t]) = IF t = s THEN Len(refs[t]) + 1 ELSE Len(refs[t])
    BY <1>1, <2>1 DEF IInv, ScanTypeOK
  <2>4. overflow' \in [Scans -> Nat]
    BY <2>1 DEF IInv, ScanTypeOK
  <2> QED BY <1>2, <1>3, <1>6, <1>7, <2>1, <2>2, <2>3, <2>4
<1>8. CASE ~(Len(refs[s]) < Capacity(s))
  <2>1. /\ refs' = refs
        /\ overflow' = [overflow EXCEPT ![s] = @ + 1]
    BY <1>8 DEF Retain
  <2>2. overflow' \in [Scans -> Nat] /\ refs' \in [Scans -> Seq(Records)]
    BY <2>1 DEF IInv, ScanTypeOK
  <2>3. overflow'[t] = IF t = s THEN overflow[t] + 1 ELSE overflow[t]
    BY <2>1 DEF IInv, ScanTypeOK
  <2>4. CASE t = s
    BY <1>2, <1>3, <1>6, <1>8, <2>1, <2>2, <2>3, <2>4
  <2>5. CASE t # s
    BY <1>6, <2>1, <2>2, <2>3, <2>5
  <2> QED BY <2>4, <2>5
<1> QED BY <1>7, <1>8

\* What the global scan stores now lies behind it too.
LEMMA VisitBehind ==
    ASSUME IInv, NEW s \in Scans, Visit(s)
    PROVE  Behind'
<1>1. /\ phase = s /\ phase' = phase /\ text' = text /\ pass' = pass
      /\ offset' = offset + 1 /\ offset < Words
  BY DEF Visit, tableVars
<1>2. SUFFICES ASSUME NEW k \in DOMAIN refs'["global"]
               PROVE  LET r == refs'["global"][k]
                      IN  /\ phase \in {"global", "state", "done"}
                          /\ text[r.source].op = <<"store", "load">>[r.kind]
                          /\ phase = "global" => /\ r.kind <= pass
                                                 /\ r.kind = pass => r.source < offset + 1
  BY <1>1 DEF Behind, Op
<1>3. refs["global"] \in Seq(Records) /\ pass \in 1..2 /\ offset \in Int
  BY DEF IInv, ScanTypeOK, Scans
<1>4. CASE refs'["global"] = refs["global"]
  <2>1. refs["global"][k] \in Records
    BY <1>2, <1>3, <1>4
  <2>2. refs["global"][k].source \in Int
    BY <2>1 DEF Records, Offsets
  <2>3. /\ phase \in {"global", "state", "done"}
        /\ text[refs["global"][k].source].op = <<"store", "load">>[refs["global"][k].kind]
        /\ phase = "global" => /\ refs["global"][k].kind <= pass
                               /\ refs["global"][k].kind = pass =>
                                      refs["global"][k].source < offset
    BY <1>2, <1>4 DEF IInv, Behind, Op
  <2> QED BY <1>3, <1>4, <2>2, <2>3
<1>5. CASE refs'["global"] # refs["global"]
  <2>1. s = "global" /\ IsReference(s, pass, offset)
        /\ refs' = [refs EXCEPT !["global"] = Append(@, Reference(pass, offset))]
    BY <1>5 DEF Visit, Retain, IInv, ScanTypeOK, Scans
  <2>2. Reference(pass, offset) \in Records
    BY <1>1, ReferenceRecorded, ScanAssumption DEF IInv, ScanTypeOK, Offsets
  <2>3. refs'["global"] = Append(refs["global"], Reference(pass, offset))
    BY <2>1 DEF IInv, ScanTypeOK, Scans
  <2>4. CASE k = Len(refs["global"]) + 1
    <3>1. refs'["global"][k] = Reference(pass, offset)
      BY <1>3, <2>2, <2>3, <2>4
    <3>2. Op(offset) = <<"store", "load">>[pass]
      BY <2>1 DEF IsReference
    <3> QED BY <1>1, <1>3, <2>1, <3>1, <3>2 DEF Reference, Op
  <2>5. CASE k # Len(refs["global"]) + 1
    <3>1. k \in DOMAIN refs["global"] /\ refs'["global"][k] = refs["global"][k]
      BY <1>2, <1>3, <2>2, <2>3, <2>5
    <3>2. refs["global"][k] \in Records
      BY <1>3, <3>1
    <3>3. refs["global"][k].source \in Int
      BY <3>2 DEF Records, Offsets
    <3> QED BY <1>3, <3>1, <3>3 DEF IInv, Behind, Op
  <2> QED BY <2>4, <2>5
<1> QED BY <1>4, <1>5

-----------------------------------------------------------------------------

LEMMA InitHolds == Init => IInv
BY ScanAssumption, CapacityNat
   DEF Init, IInv, ScanTypeOK, Retained, Behind, Capacity, Scans

LEMMA StepKeeps == IInv /\ [Next]_vars => IInv'
<1> SUFFICES ASSUME IInv, [Next]_vars PROVE IInv'
  OBVIOUS
<1> DEFINE Counted == <<total, overflow, refs>>
<1>1. ASSUME UNCHANGED Counted PROVE Retained'
  BY <1>1 DEF IInv, Retained, Capacity
<1>2. CASE Derive
  <2>1. Behind'
    BY <1>2 DEF Derive, IInv, Behind, Op
  <2> QED BY <1>1, <1>2, <2>1 DEF Derive, IInv, ScanTypeOK
<1>3. CASE (Resolve \/ Hook) /\ UNCHANGED ScanVars
  <2>1. Behind'
    BY <1>3 DEF Resolve, ResolveSkip, ResolveMatch, ResolveEnd, Hook, HookSkip,
                HookLibrary, HookEnd, ScanVars, IInv, Behind, Op
  <2> QED BY <1>1, <1>3, <2>1 DEF ScanVars, IInv, ScanTypeOK
<1>4. ASSUME NEW s \in Scans, Visit(s) PROVE IInv'
  <2>1. Behind'
    BY <1>4, VisitBehind
  <2>2. pass' \in 1..2 /\ offset' \in 0..Words
    BY <1>4, ScanAssumption DEF Visit, IInv, ScanTypeOK
  <2>3. CASE IsReference(s, pass, offset)
    <3>1. /\ phase = s /\ offset < Words
          /\ total' = [total EXCEPT ![s] = @ + 1]
          /\ Retain(s, pass, offset)
      BY <1>4, <2>3 DEF Visit
    <3>2. /\ total' \in [Scans -> Nat]
          /\ overflow' \in [Scans -> Nat]
          /\ refs' \in [Scans -> Seq(Records)]
          /\ Retained'
      BY <2>3, <3>1, RetainKeeps
    <3> QED BY <2>1, <2>2, <3>2 DEF IInv, ScanTypeOK
  <2>4. CASE ~IsReference(s, pass, offset)
    BY <1>1, <1>4, <2>1, <2>2, <2>4 DEF Visit, IInv, ScanTypeOK
  <2> QED BY <2>3, <2>4
<1>5. ASSUME NEW s \in Scans, SecondPass(s) PROVE IInv'
  <2>1. Behind'
    <3>1. \A k \in DOMAIN refs["global"] : refs["global"][k].kind \in 1..2
      BY DEF IInv, ScanTypeOK, Records, Scans
    <3> QED BY <1>5, <3>1 DEF SecondPass, tableVars, IInv, Behind, Op
  <2>2. pass' \in 1..2 /\ offset' \in 0..Words
    BY <1>5, ScanAssumption DEF SecondPass, FirstOffset
  <2> QED BY <1>1, <1>5, <2>1, <2>2 DEF SecondPass, IInv, ScanTypeOK
<1>6. ASSUME NEW s \in Scans, NextScan(s) PROVE IInv'
  <2>1. Behind'
    BY <1>6 DEF NextScan, Successor, Scans, IInv, Behind, Op
  <2>2. pass' \in 1..2 /\ offset' \in 0..Words
    BY <1>6, ScanAssumption DEF NextScan, FirstOffset
  <2> QED BY <1>1, <1>6, <2>1, <2>2 DEF NextScan, IInv, ScanTypeOK
<1>7. CASE UNCHANGED vars
  <2>1. Behind'
    BY <1>7 DEF vars, tableVars, IInv, Behind, Op
  <2> QED BY <1>1, <1>7, <2>1 DEF vars, IInv, ScanTypeOK
<1> QED BY <1>2, <1>3, <1>4, <1>5, <1>6, <1>7 DEF Next, Scan

LEMMA ScansHold == Spec => []IInv
BY InitHolds, StepKeeps, PTL DEF Spec

\* No array of the evidence is written past its end, each reference is either
\* retained or counted as an overflow, and none overflows while there is room.
THEOREM RetainedHolds == Spec => []Retained
<1>1. IInv => Retained
  BY DEF IInv
<1> QED BY <1>1, ScansHold, PTL

\* Each retained window lies in the text, holds its reference and fits its array.
THEOREM WindowsHold == Spec => []WindowsClamped
<1>1. IInv => WindowsClamped
  <2>1. SUFFICES ASSUME IInv, NEW s \in Scans, NEW k \in DOMAIN refs[s]
                 PROVE  Clamped(refs[s][k].window, refs[s][k].source)
    BY DEF WindowsClamped, Clamped
  <2>2. refs[s][k] \in Records
    BY <2>1 DEF IInv, ScanTypeOK
  <2> QED BY <2>2 DEF Records
<1> QED BY <1>1, ScansHold, PTL

-----------------------------------------------------------------------------
(* Types of the whole state.                                                *)

\* What TypeOK adds to the types of the scans.
TableInv ==
    /\ TableTypeOK
    /\ [text |-> text, table |-> table] \in Modules
    /\ phase \in Phases
    /\ predicateCount \in [Predicates -> Nat]

LEMMA FirstIndex ==
    ASSUME NEW S, NEW s \in Seq(S), NEW v, Holds(s, v)
    PROVE  FirstIn(s, v) \in DOMAIN s /\ s[FirstIn(s, v)] = v
<1> DEFINE at_v == {i \in DOMAIN s : s[i] = v}
<1>1. at_v \in SUBSET Nat /\ at_v # {}
  BY DEF Holds
<1>2. PICK i \in at_v : \A j \in at_v : i <= j
  BY <1>1, LeastNat
<1>3. \A j \in 1..(i - 1) : j \in DOMAIN s /\ ~(i <= j)
  BY <1>2
<1>4. i \in DOMAIN s /\ s[i] = v /\ \A j \in 1..(i - 1) : s[j] # v
  BY <1>2, <1>3
<1> HIDE DEF at_v
<1> QED BY <1>4 DEF FirstIn

\* A descriptor that is used lies in the table.
LEMMA EntryTyped ==
    ASSUME TableInv, at < Size
    PROVE  /\ at \in 0..(Size - 1) /\ entry \in Entry /\ entry.len \in Nat
           /\ Len(entry.nids) = Len(entry.stubs)
           /\ entry.nids \in Seq(Nids) /\ entry.stubs \in Seq(Stubs)
<1>1. at \in 0..(Size - 1)
  BY TableAssumption DEF TableInv, TableTypeOK
<1>2. entry \in Entry
  BY <1>1 DEF TableInv, TableTypeOK, Table, entry
<1> QED BY <1>1, <1>2 DEF Entry

LEMMA UsableInside ==
    ASSUME TableInv, Usable
    PROVE  at < Size /\ MinWords <= entry.len /\ at + entry.len <= Size /\ entry.len \in Nat \ {0}
<1>1. at < Size
  BY TableAssumption DEF TableInv, TableTypeOK, Usable
<1> QED BY <1>1, EntryTyped, TableAssumption DEF Usable

LEMMA TableStep ==
    ASSUME TableInv, [Next]_vars
    PROVE  TableInv'
<1>1. CASE UNCHANGED <<table, text>> /\ at' \in Nat /\ matched' \in Matches
           /\ hooked' \in Stubs \cup {NoStub} /\ phase' \in Phases
           /\ predicateCount' \in [Predicates -> Nat]
  BY <1>1 DEF TableInv, TableTypeOK
<1>2. CASE ResolveSkip /\ UNCHANGED ScanVars
  <2>1. entry.len \in Nat
    BY <1>2, UsableInside DEF ResolveSkip
  <2> QED BY <1>1, <1>2, <2>1 DEF ResolveSkip, ScanVars, TableInv, TableTypeOK
<1>3. CASE ResolveMatch /\ UNCHANGED ScanVars
  <2> DEFINE i == FirstIn(entry.stubs, TargetStub)
  <2>1. /\ entry \in Entry /\ Len(entry.nids) = Len(entry.stubs)
        /\ entry.nids \in Seq(Nids) /\ entry.stubs \in Seq(Stubs)
    BY <1>3, UsableInside, EntryTyped DEF ResolveMatch
  <2>2. i \in DOMAIN entry.stubs
    BY <1>3, <2>1, FirstIndex DEF ResolveMatch
  <2>3. i \in Nat /\ entry.nids[i] \in Nids /\ entry.named \in BOOLEAN
    BY <2>1, <2>2 DEF Entry
  <2>4. (entry.named /\ entry.lib = GetModelLibrary /\ entry.nids[i] \in GetModelNids) \in BOOLEAN
    OBVIOUS
  <2>5. Found(entry, i) \in Matches
    <3> HIDE DEF i
    <3> QED BY <2>3, <2>4 DEF Found, Matches
  <2> QED BY <1>1, <1>3, <2>5 DEF ResolveMatch, ScanVars, TableInv, TableTypeOK, Phases, Scans
<1>4. CASE ResolveEnd /\ UNCHANGED ScanVars
  BY <1>1, <1>4 DEF ResolveEnd, ScanVars, TableInv, TableTypeOK, Phases, Scans
<1>5. CASE HookSkip /\ UNCHANGED ScanVars
  <2>1. entry.len \in Nat
    BY <1>5, EntryTyped DEF HookSkip
  <2> QED BY <1>1, <1>5, <2>1 DEF HookSkip, ScanVars, TableInv, TableTypeOK
<1>6. CASE HookLibrary /\ UNCHANGED ScanVars
  <2>1. /\ Len(entry.nids) = Len(entry.stubs)
        /\ entry.nids \in Seq(Nids) /\ entry.stubs \in Seq(Stubs)
    BY <1>6, EntryTyped DEF HookLibrary
  <2>2. hooked' \in Stubs \cup {NoStub}
    <3>1. CASE Holds(entry.nids, Nid)
      <4>1. FirstIn(entry.nids, Nid) \in DOMAIN entry.nids
        BY <2>1, <3>1, FirstIndex
      <4>2. entry.stubs[FirstIn(entry.nids, Nid)] \in Stubs
        BY <2>1, <4>1
      <4> QED BY <1>6, <3>1, <4>2 DEF HookLibrary
    <3>2. CASE ~Holds(entry.nids, Nid)
      BY <1>6, <3>2 DEF HookLibrary
    <3> QED BY <3>1, <3>2
  <2> QED BY <1>1, <1>6, <2>2 DEF HookLibrary, ScanVars, TableInv, TableTypeOK, Phases
<1>7. CASE HookEnd /\ UNCHANGED ScanVars
  BY <1>1, <1>7 DEF HookEnd, ScanVars, TableInv, TableTypeOK, Phases
<1>8. CASE Derive
  BY <1>1, <1>8 DEF Derive, TableInv, TableTypeOK, Phases
<1>9. ASSUME NEW s \in Scans, Visit(s)
      PROVE  TableInv'
  <2>1. predicateCount' \in [Predicates -> Nat]
    <3>1. CASE IsReference(s, pass, offset) /\ s = "direct"
      <4>1. text[offset].to \in Predicates
        BY <3>1 DEF IsReference
      <4>2. predicateCount' = [predicateCount EXCEPT ![text[offset].to] = @ + 1]
        BY <1>9, <3>1 DEF Visit, CountPredicate
      <4> QED BY <4>1, <4>2 DEF TableInv
    <3>2. CASE ~(IsReference(s, pass, offset) /\ s = "direct")
      <4>1. predicateCount' = predicateCount
        BY <1>9, <3>2 DEF Visit, CountPredicate
      <4> QED BY <4>1 DEF TableInv
    <3> QED BY <3>1, <3>2
  <2> QED BY <1>1, <1>9, <2>1 DEF Visit, tableVars, TableInv, TableTypeOK
<1>10. ASSUME NEW s \in Scans, SecondPass(s)
       PROVE  TableInv'
  BY <1>1, <1>10 DEF SecondPass, tableVars, TableInv, TableTypeOK
<1>11. ASSUME NEW s \in Scans, NextScan(s)
       PROVE  TableInv'
  BY <1>1, <1>11 DEF NextScan, Successor, Phases, Scans, TableInv, TableTypeOK
<1>12. CASE UNCHANGED vars
  BY <1>12 DEF vars, tableVars, TableInv, TableTypeOK
<1> QED BY <1>2, <1>3, <1>4, <1>5, <1>6, <1>7, <1>8, <1>9, <1>10, <1>11, <1>12
       DEF Next, Resolve, Hook, Scan

LEMMA InitTable == Init => TableInv
<1> SUFFICES ASSUME Init
             PROVE  TableInv
  OBVIOUS
<1>1. PICK m \in Modules : text = m.text /\ table = m.table
  BY DEF Init
<1>2. m = [text |-> text, table |-> table] /\ table \in Table
  BY <1>1, ModulesAssumption
<1> QED BY <1>1, <1>2 DEF Init, TableInit, TableInv, TableTypeOK, Phases, Matches

\* Type correctness of the two readers and of the scans (kernel/main.c:367-646,
\* hook.c:99-145).
THEOREM TypeCorrect == Spec => []TypeOK
<1>1. TableInv /\ [Next]_vars => TableInv'
  BY TableStep
<1>2. IInv /\ TableInv => TypeOK
  <2> SUFFICES ASSUME IInv, TableInv
               PROVE  TypeOK
    OBVIOUS
  <2>1. ASSUME NEW s \in Scans, NEW i \in DOMAIN refs[s]
        PROVE  refs[s][i].source \in Offsets
    <3>1. refs[s][i] \in Records
      BY DEF IInv, ScanTypeOK
    <3> QED BY <3>1 DEF Records
  <2> QED BY <2>1 DEF IInv, ScanTypeOK, Retained, TableInv, TypeOK
<1> QED BY ScansHold, InitTable, <1>1, <1>2, PTL DEF Spec

-----------------------------------------------------------------------------
(* The walks of the import table.                                           *)

\* A walk from the start of the table to b, over the descriptors B.
Walk(B, b) ==
    /\ B \in SUBSET (0..b) /\ {0, b} \subseteq B
    /\ \A c \in B \ {b} : c + table.entries[c].len \in B

\* What main.c asks of a descriptor at c, and what it looks for there.
Fits(c) ==
    /\ table.valid /\ c + HeaderWords <= Size
    /\ table.entries[c].len >= MinWords
    /\ c + table.entries[c].len <= Size

HasTarget(c) == table.entries[c].valid /\ Holds(table.entries[c].stubs, TargetStub)

IsOther(c) == table.entries[c].lib # Library

\* The loader's chain of descriptors.
LinkedBy(L) ==
    /\ L \in SUBSET (0..Size) /\ {0, Size} \subseteq L
    /\ \A c \in L \ {Size} : table.entries[c].len >= MinWords /\ c + table.entries[c].len \in L

\* Each walk has passed descriptors it may pass, and none it looks for.
ImportInv ==
    /\ phase = "derive" => at = 0 /\ matched = NoMatch
    /\ phase = "resolve" =>
          /\ matched = NoMatch
          /\ \E B : Walk(B, at) /\ \A c \in B \ {at} : Fits(c) /\ ~HasTarget(c)
    /\ phase = "hook" =>
          /\ hooked = NoStub
          /\ \E L : LinkedBy(L) /\ at \in L /\
                \E B : Walk(B, at) /\ B \subseteq L /\ \A c \in B \ {at} : IsOther(c)

\* Two walks of one table go the same way as far as the shorter one goes.
LEMMA WalksMeet ==
    ASSUME NEW c \in Nat, NEW d \in Nat, c < d, NEW B, NEW D, Walk(B, c), Walk(D, d),
           \A m \in B \cap D : m # c => table.entries[m].len \in Nat \ {0}
    PROVE  c \in D
<1> DEFINE T == B \cap D
<1>1. T \in SUBSET Nat /\ T # {} /\ \A k \in T : k <= c
  BY DEF Walk
<1>2. PICK m \in T : \A k \in T : k <= m
  BY <1>1, GreatestNat
<1>3. CASE m # c
  <2>1. m \in B \ {c} /\ m \in D \ {d}
    BY <1>1, <1>2, <1>3
  <2>2. m + table.entries[m].len \in T
    BY <2>1 DEF Walk
  <2>3. table.entries[m].len \in Nat \ {0} /\ m \in Nat
    BY <1>1, <1>2, <1>3
  <2> QED BY <1>2, <2>2, <2>3
<1> QED BY <1>2, <1>3

\* One descriptor further.
LEMMA WalkOn ==
    ASSUME NEW b \in Nat, NEW B, Walk(B, b), table.entries[b].len \in Nat \ {0}
    PROVE  /\ Walk(B \cup {b + table.entries[b].len}, b + table.entries[b].len)
           /\ (B \cup {b + table.entries[b].len}) \ {b + table.entries[b].len} = B
<1> DEFINE e == b + table.entries[b].len
<1>1. e \in Nat /\ b < e
  OBVIOUS
<1>2. B \in SUBSET (0..b) /\ e \notin B
  BY <1>1 DEF Walk
<1>3. B \cup {e} \in SUBSET (0..e)
  <2>1. \A x \in B : x \in 0..e
    BY <1>1, <1>2
  <2>2. e \in 0..e
    BY <1>1
  <2> QED BY <2>1, <2>2
<1>4. \A c \in B : c + table.entries[c].len \in B \cup {e}
  BY DEF Walk
<1> QED BY <1>2, <1>3, <1>4 DEF Walk

\* The walk of main.c, stopped at the offset it has reached.
LEMMA ResolveStops ==
    ASSUME TableInv, ImportInv, phase = "resolve", NEW c \in 0..(Size - 1), NEW D,
           Walk(D, c), \A m \in D \ {c} : Fits(m), Fits(c), HasTarget(c)
    PROVE  at <= c /\ Fits(at)
<1>1. PICK B : Walk(B, at) /\ \A m \in B \ {at} : Fits(m) /\ ~HasTarget(m)
  BY DEF ImportInv
<1>2. at \in Nat /\ c \in Nat /\ Size \in Nat /\ \A m : (m \in 0..(Size - 1) /\ Fits(m)) => table.entries[m].len \in Nat \ {0}
  <2>1. \A m \in 0..(Size - 1) : table.entries[m] \in Entry
    BY DEF TableInv, TableTypeOK, Table
  <2>2. \A m \in 0..(Size - 1) : table.entries[m].len \in Nat
    BY <2>1 DEF Entry
  <2> QED BY <2>2, TableAssumption DEF Fits, TableInv, TableTypeOK
<1>3. \A m \in D : m \in 0..(Size - 1)
  <2>1. \A m \in D : m \in 0..c
    BY DEF Walk
  <2>2. c <= Size - 1 /\ c \in Int /\ Size \in Int
    BY <1>2
  <2>3. \A m \in 0..c : m \in 0..(Size - 1)
    BY <2>2
  <2> QED BY <2>1, <2>3
<1>4. ~(c < at)
  <2>1. SUFFICES ASSUME c < at
                 PROVE  FALSE
    OBVIOUS
  <2>2. \A m \in D \cap B : m # c => table.entries[m].len \in Nat \ {0}
    <3>1. \A m \in D : m # c => Fits(m)
      OBVIOUS
    <3> QED BY <1>2, <1>3, <3>1
  <2>3. c \in B
    BY <1>1, <1>2, <2>1, <2>2, WalksMeet
  <2> QED BY <1>1, <2>1, <2>3
<1>5. Fits(at)
  <2>1. CASE at < c
    <3>1. \A m \in B \cap D : m # at => table.entries[m].len \in Nat \ {0}
      BY <1>1, <1>2, <1>3
    <3>2. at \in D
      BY <1>1, <1>2, <2>1, <3>1, WalksMeet
    <3> QED BY <2>1, <3>2
  <2> QED BY <1>2, <1>4, <2>1
<1> QED BY <1>2, <1>4, <1>5

\* The walk of hook.c, stopped at the offset it has reached.
LEMMA HookStops ==
    ASSUME TableInv, ImportInv, phase = "hook", NEW c \in 0..(Size - 1), NEW D,
           Walk(D, c), \A m \in D \ {c} : IsOther(m), ~IsOther(c)
    PROVE  at = c \/ (at < c /\ at < Size /\ IsOther(at))
<1>1. PICK L, B : /\ LinkedBy(L) /\ Walk(B, at) /\ B \subseteq L
                  /\ \A m \in B \ {at} : IsOther(m)
  BY DEF ImportInv
<1>2. at \in Nat /\ c \in Nat /\ Size \in Nat
  BY TableAssumption DEF TableInv, TableTypeOK
<1>3. \A m \in B : m < Size => table.entries[m].len \in Nat \ {0}
  <2>1. \A m \in 0..(Size - 1) : table.entries[m] \in Entry
    BY DEF TableInv, TableTypeOK, Table
  <2>2. \A m \in 0..(Size - 1) : table.entries[m].len \in Nat
    BY <2>1 DEF Entry
  <2>3. \A m \in L : m < Size => m \in 0..(Size - 1) /\ table.entries[m].len >= MinWords
    <3>1. \A m \in L : m \in 0..Size
      BY <1>1 DEF LinkedBy
    <3>2. \A m \in L : m < Size => m \in L \ {Size} /\ m \in 0..(Size - 1)
      BY <1>2, <3>1
    <3> QED BY <1>1, <3>2 DEF LinkedBy
  <2> QED BY <1>1, <2>2, <2>3, TableAssumption
<1>4. ~(c < at)
  <2>1. SUFFICES ASSUME c < at
                 PROVE  FALSE
    OBVIOUS
  <2>2. \A m \in D : m < Size
    BY <1>2 DEF Walk
  <2>3. c \in B
    BY <1>1, <1>2, <1>3, <2>1, <2>2, WalksMeet
  <2> QED BY <1>1, <2>1, <2>3
<1>5. at < c => at < Size /\ IsOther(at)
  <2>1. SUFFICES ASSUME at < c
                 PROVE  at < Size /\ IsOther(at)
    OBVIOUS
  <2>2. \A m \in D : m < Size
    BY <1>2 DEF Walk
  <2>3. at \in D
    BY <1>1, <1>2, <1>3, <2>1, <2>2, WalksMeet
  <2> QED BY <1>2, <2>1, <2>3
<1> QED BY <1>2, <1>4, <1>5

\* What the two walks are to find, of a table.
Reached ==
    {c \in 0..(Size - 1) :
        /\ \E B : Walk(B, c) /\ \A m \in B \ {c} : Fits(m)
        /\ Fits(c) /\ HasTarget(c)}

Genuine(match) ==
    /\ match.found <=> Reached # {}
    /\ match.found => \E c \in Reached :
           /\ \A b \in Reached : c <= b
           /\ table.entries[c].stubs[match.index] = TargetStub
           /\ table.entries[c].nids[match.index] = match.nid

First == {c \in 0..(Size - 1) : ~IsOther(c) /\ \E B : Walk(B, c) /\ \A m \in B \ {c} : IsOther(m)}

Links(c, f) ==
    \E i \in DOMAIN table.entries[c].nids :
        table.entries[c].nids[i] = Nid /\ table.entries[c].stubs[i] = f

Imported(f) ==
    IF f # NoStub THEN \E c \in First : Links(c, f)
    ELSE \A c \in First : \A g \in Stubs : ~Links(c, g)

LEMMA WalkToFit ==
    ASSUME NEW c
    PROVE  WalkTo(c, Fits) <=> \E B : Walk(B, c) /\ \A m \in B \ {c} : Fits(m)
BY DEF WalkTo, Walk

LEMMA WalkToOther ==
    ASSUME NEW c
    PROVE  WalkTo(c, IsOther) <=> \E B : Walk(B, c) /\ \A m \in B \ {c} : IsOther(m)
BY DEF WalkTo, Walk

LEMMA MatchStated == MatchGenuine <=> (phase = "direct" => Genuine(matched))
BY ZenonT(60) DEF MatchGenuine, Genuine, Reached, Walk, WalkTo, Fits, HasTarget, Holds

LEMMA HookStated == HookedIsImport <=> (phase = "hooked" => Imported(hooked))
BY DEF HookedIsImport, Imported, First, Links, Walk, WalkTo, IsOther

LEMMA StatedNext ==
    /\ MatchGenuine' <=> (phase' = "direct" => Genuine(matched)')
    /\ HookedIsImport' <=> (phase' = "hooked" => Imported(hooked)')
<1>1. MatchGenuine' <=> (phase' = "direct" => Genuine(matched)')
  BY ZenonT(60) DEF MatchGenuine, Genuine, Reached, Walk, WalkTo, Fits, HasTarget, Holds
<1>2. HookedIsImport' <=> (phase' = "hooked" => Imported(hooked)')
  BY DEF HookedIsImport, Imported, First, Links, Walk, WalkTo, IsOther
<1> QED BY <1>1, <1>2

\* The match main.c ends with.
LEMMA ResolveGenuine ==
    ASSUME TableInv, ImportInv, phase = "resolve"
    PROVE  /\ (Usable /\ HasTarget(at)) => Genuine(Found(entry, FirstIn(entry.stubs, TargetStub)))
           /\ ~Usable => Genuine(matched)
<1>1. Usable <=> Fits(at)
  BY DEF Usable, Fits, entry
<1>2. \A c \in Reached : at <= c /\ Fits(at)
  <2>1. SUFFICES ASSUME NEW c \in Reached
                 PROVE  at <= c /\ Fits(at)
    OBVIOUS
  <2>2. PICK D : Walk(D, c) /\ \A m \in D \ {c} : Fits(m)
    BY DEF Reached
  <2>3. c \in 0..(Size - 1) /\ Fits(c) /\ HasTarget(c)
    BY DEF Reached
  <2> QED BY <2>2, <2>3, ResolveStops
<1>3. ASSUME Usable, HasTarget(at)
      PROVE  Genuine(Found(entry, FirstIn(entry.stubs, TargetStub)))
  <2> DEFINE i == FirstIn(entry.stubs, TargetStub)
             f == Found(entry, i)
  <2>1. at \in 0..(Size - 1) /\ entry.stubs \in Seq(Stubs)
    BY <1>3, UsableInside, EntryTyped
  <2>2. entry.stubs[i] = TargetStub
    BY <1>3, <2>1, FirstIndex DEF HasTarget, entry
  <2>3. f.found /\ f.index = i /\ f.nid = entry.nids[i]
    BY DEF Found
  <2>4. at \in Reached
    <3>1. PICK B : Walk(B, at) /\ \A c \in B \ {at} : Fits(c)
      BY DEF ImportInv
    <3> QED BY <1>1, <1>3, <2>1, <3>1 DEF Reached
  <2> HIDE DEF i, f
  <2>5. Genuine(f)
    BY <1>2, <2>2, <2>3, <2>4 DEF Genuine, entry
  <2> QED BY <2>5 DEF f, i
<1>4. ASSUME ~Usable
      PROVE  Genuine(matched)
  <2>1. Reached = {}
    BY <1>1, <1>2, <1>4
  <2>2. ~matched.found
    BY DEF ImportInv, NoMatch
  <2> QED BY <2>1, <2>2 DEF Genuine
<1> QED BY <1>3, <1>4

\* The stub hook.c ends with.
LEMMA HookGenuine ==
    ASSUME TableInv, ImportInv, phase = "hook"
    PROVE  /\ (at < Size /\ ~IsOther(at)) =>
                  Imported(IF Holds(entry.nids, Nid)
                             THEN entry.stubs[FirstIn(entry.nids, Nid)] ELSE NoStub)
           /\ at = Size => Imported(hooked)
<1>1. \A c \in First : at = c \/ (at < c /\ at < Size /\ IsOther(at))
  <2>1. SUFFICES ASSUME NEW c \in First
                 PROVE  at = c \/ (at < c /\ at < Size /\ IsOther(at))
    OBVIOUS
  <2>2. PICK D : Walk(D, c) /\ \A m \in D \ {c} : IsOther(m)
    BY DEF First
  <2>3. c \in 0..(Size - 1) /\ ~IsOther(c)
    BY DEF First
  <2> QED BY <2>2, <2>3, HookStops
<1>2. ASSUME at < Size, ~IsOther(at), Holds(entry.nids, Nid)
      PROVE  Imported(entry.stubs[FirstIn(entry.nids, Nid)])
  <2> DEFINE i == FirstIn(entry.nids, Nid)
  <2>1. /\ at \in 0..(Size - 1) /\ Len(entry.nids) = Len(entry.stubs)
        /\ entry.nids \in Seq(Nids) /\ entry.stubs \in Seq(Stubs)
    BY <1>2, EntryTyped
  <2>2. i \in DOMAIN entry.nids /\ entry.nids[i] = Nid
    BY <1>2, <2>1, FirstIndex
  <2> HIDE DEF i
  <2>3. entry.stubs[i] \in Stubs
    BY <2>1, <2>2
  <2>4. entry.stubs[i] # NoStub
    BY <2>3, TableAssumption
  <2>5. at \in First
    <3>1. PICK B : Walk(B, at) /\ \A c \in B \ {at} : IsOther(c)
      BY DEF ImportInv
    <3> QED BY <1>2, <2>1, <3>1 DEF First
  <2>6. Links(at, entry.stubs[i])
    BY <2>2 DEF Links, entry
  <2>7. Imported(entry.stubs[i])
    BY <2>4, <2>5, <2>6 DEF Imported
  <2> QED BY <2>7 DEF i
<1>3. ASSUME at < Size, ~IsOther(at), ~Holds(entry.nids, Nid)
      PROVE  Imported(NoStub)
  <2>1. \A c \in First : c = at
    BY <1>1, <1>3
  <2>2. \A g : ~Links(at, g)
    BY <1>3 DEF Holds, Links, entry
  <2> QED BY <2>1, <2>2 DEF Imported
<1>4. ASSUME at = Size
      PROVE  Imported(hooked)
  <2>1. First = {}
    <3>1. ASSUME NEW c \in First
          PROVE  FALSE
      <4>1. c <= Size - 1 /\ Size \in Int
        BY TableAssumption DEF First
      <4> QED BY <1>1, <1>4, <3>1, <4>1
    <3> QED BY <3>1
  <2> QED BY <2>1 DEF Imported, ImportInv
<1> QED BY <1>2, <1>3, <1>4

ImportsInv == TableInv /\ ImportInv /\ ImportsGenuine

\* A step of a walk over a descriptor it may pass.
LEMMA ResolvePasses ==
    ASSUME TableInv, ImportInv, ResolveSkip
    PROVE  ImportInv'
<1>1. PICK B : Walk(B, at) /\ \A c \in B \ {at} : Fits(c) /\ ~HasTarget(c)
  BY DEF ImportInv, ResolveSkip
<1> PICK e, C : e = at + entry.len /\ C = B \cup {e}
  OBVIOUS
<1>2. /\ at \in Nat /\ entry.len \in Nat \ {0}
      /\ Fits(at) /\ ~HasTarget(at)
  <2>1. at \in Nat
    BY DEF TableInv, TableTypeOK
  <2> QED BY <2>1, UsableInside DEF ResolveSkip, Usable, Fits, HasTarget, entry
<1>3. Walk(C, e) /\ C \ {e} = B
  BY <1>1, <1>2, WalkOn DEF entry
<1>4. \A c \in C \ {e} : Fits(c) /\ ~HasTarget(c)
  BY <1>1, <1>2, <1>3
<1>5. at' = e /\ table' = table /\ phase' = "resolve" /\ matched' = matched
  BY DEF ResolveSkip
<1>6. Walk(C, at)' /\ \A c \in C \ {e} : Fits(c)' /\ ~HasTarget(c)'
  <2>1. Walk(C, at)'
    BY <1>3, <1>5 DEF Walk
  <2>2. \A c \in C \ {e} : Fits(c)' /\ ~HasTarget(c)'
    BY <1>4, <1>5 DEF Fits, HasTarget
  <2> QED BY <2>1, <2>2
<1>7. matched' = NoMatch
  BY <1>5 DEF ImportInv, ResolveSkip
<1> QED BY <1>5, <1>6, <1>7 DEF ImportInv

LEMMA HookPasses ==
    ASSUME TableInv, ImportInv, HookSkip
    PROVE  ImportInv'
<1>1. PICK L, B : /\ LinkedBy(L) /\ at \in L /\ Walk(B, at) /\ B \subseteq L
                  /\ \A c \in B \ {at} : IsOther(c)
  BY DEF ImportInv, HookSkip
<1> PICK e, C : e = at + entry.len /\ C = B \cup {e}
  OBVIOUS
<1>2. at \in Nat /\ entry.len \in Nat \ {0} /\ IsOther(at) /\ at + entry.len \in L
  <2>1. at \in Nat /\ at # Size
    BY TableAssumption DEF HookSkip, TableInv, TableTypeOK
  <2>2. entry.len >= MinWords /\ at + entry.len \in L
    BY <1>1, <2>1 DEF LinkedBy, entry
  <2>3. entry.len \in Nat
    BY EntryTyped DEF HookSkip
  <2>4. entry.len # 0
    BY <2>2, <2>3, TableAssumption
  <2> QED BY <2>1, <2>2, <2>3, <2>4 DEF HookSkip, IsOther, entry
<1>3. Walk(C, e) /\ C \ {e} = B
  BY <1>1, <1>2, WalkOn DEF entry
<1>4. C \subseteq L /\ \A c \in C \ {e} : IsOther(c)
  BY <1>1, <1>2, <1>3
<1>5. at' = e /\ table' = table /\ phase' = "hook" /\ hooked' = hooked
  BY DEF HookSkip
<1>6. LinkedBy(L)' /\ at' \in L /\ C \subseteq L
  BY <1>1, <1>2, <1>4, <1>5 DEF LinkedBy
<1>7. Walk(C, at)' /\ \A c \in C \ {e} : IsOther(c)'
  BY <1>3, <1>4, <1>5 DEF Walk, IsOther
<1>8. hooked' = NoStub
  BY <1>5 DEF ImportInv, HookSkip
<1> QED BY <1>5, <1>6, <1>7, <1>8 DEF ImportInv

\* What a walk ended with stays what it was.
LEMMA ImportFrame ==
    ASSUME ImportInv, ImportsGenuine, UNCHANGED <<table, at, matched, hooked>>
    PROVE  /\ phase' = phase => ImportInv' /\ ImportsGenuine'
           /\ (phase' \notin {"derive", "resolve", "hook"}) => ImportInv'
           /\ (phase' \notin {"direct", "hooked"}) => ImportsGenuine'
           /\ Genuine(matched) => Genuine(matched)'
           /\ Imported(hooked) => Imported(hooked)'
<1>1. \A B, b : Walk(B, b)' <=> Walk(B, b)
  BY DEF Walk
<1>2. \A c : (Fits(c)' <=> Fits(c)) /\ (HasTarget(c)' <=> HasTarget(c)) /\ (IsOther(c)' <=> IsOther(c))
  BY DEF Fits, HasTarget, IsOther
<1>3. \A L : LinkedBy(L)' <=> LinkedBy(L)
  BY DEF LinkedBy
<1>4. Reached' = Reached /\ First' = First
  BY <1>1, <1>2 DEF Reached, First
<1>5. \A c, f : Links(c, f)' <=> Links(c, f)
  BY DEF Links
<1>6. (Genuine(matched)' <=> Genuine(matched)) /\ (Imported(hooked)' <=> Imported(hooked))
  BY <1>4, <1>5 DEF Genuine, Imported
<1>7. phase' = phase => ImportInv'
  BY <1>1, <1>2, <1>3 DEF ImportInv
<1>8. (MatchGenuine <=> (phase = "direct" => Genuine(matched)))
      /\ (HookedIsImport <=> (phase = "hooked" => Imported(hooked)))
  BY MatchStated, HookStated
<1>9. (MatchGenuine' <=> (phase' = "direct" => Genuine(matched)'))
      /\ (HookedIsImport' <=> (phase' = "hooked" => Imported(hooked)'))
  BY StatedNext
<1> QED BY <1>6, <1>7, <1>8, <1>9 DEF ImportsGenuine, ImportInv

LEMMA ImportsStep ==
    ASSUME ImportsInv, [Next]_vars
    PROVE  ImportsInv'
<1>1. TableInv' /\ TableInv /\ ImportInv /\ ImportsGenuine
  BY TableStep DEF ImportsInv
<1> SUFFICES ImportInv' /\ ImportsGenuine'
  BY <1>1 DEF ImportsInv
<1>2. CASE Derive
  <2>1. table' = table /\ at' = 0 /\ at = 0 /\ matched' = NoMatch /\ phase' = "resolve"
    BY <1>1, <1>2 DEF Derive, ImportInv
  <2>2. Walk({0}, at)'
    BY <2>1 DEF Walk
  <2>3. ImportInv'
    BY <2>1, <2>2 DEF ImportInv
  <2>4. ImportsGenuine'
    BY <1>1, <2>1, StatedNext DEF ImportsGenuine
  <2> QED BY <2>3, <2>4
<1>3. CASE ResolveSkip /\ UNCHANGED ScanVars
  <2>1. ImportInv'
    BY <1>1, <1>3, ResolvePasses
  <2>2. ImportsGenuine'
    BY <1>3, StatedNext DEF ResolveSkip, ImportsGenuine
  <2> QED BY <2>1, <2>2
<1>4. CASE HookSkip /\ UNCHANGED ScanVars
  <2>1. ImportInv'
    BY <1>1, <1>4, HookPasses
  <2>2. ImportsGenuine'
    BY <1>4, StatedNext DEF HookSkip, ImportsGenuine
  <2> QED BY <2>1, <2>2
<1>5. CASE ResolveMatch /\ UNCHANGED ScanVars
  <2> DEFINE f == Found(entry, FirstIn(entry.stubs, TargetStub))
  <2>1. phase = "resolve" /\ phase' = "direct" /\ table' = table /\ matched' = f
    BY <1>5 DEF ResolveMatch
  <2>2. Genuine(f)
    BY <1>1, <1>5, ResolveGenuine DEF ResolveMatch, HasTarget, entry
  <2> HIDE DEF f
  <2>3. Genuine(matched)'
    <3>1. Reached' = Reached
      BY <2>1 DEF Reached, Walk, Fits, HasTarget
    <3> QED BY <2>1, <2>2, <3>1 DEF Genuine
  <2> QED BY <2>1, <2>3, StatedNext DEF ImportsGenuine, ImportInv
<1>6. CASE ResolveEnd /\ UNCHANGED ScanVars
  <2>1. /\ phase = "resolve" /\ phase' = "direct"
        /\ UNCHANGED <<table, at, matched, hooked>> /\ ~Usable
    BY <1>6 DEF ResolveEnd
  <2>2. Genuine(matched)'
    BY <1>1, <2>1, ResolveGenuine, ImportFrame
  <2> QED BY <2>1, <2>2, StatedNext DEF ImportsGenuine, ImportInv
<1>7. CASE HookLibrary /\ UNCHANGED ScanVars
  <2> DEFINE f == IF Holds(entry.nids, Nid)
                    THEN entry.stubs[FirstIn(entry.nids, Nid)] ELSE NoStub
  <2>1. phase = "hook" /\ phase' = "hooked" /\ table' = table /\ hooked' = f
    BY <1>7 DEF HookLibrary
  <2>2. Imported(f)
    BY <1>1, <1>7, HookGenuine DEF HookLibrary, IsOther, entry
  <2> HIDE DEF f
  <2>3. Imported(hooked)'
    <3>1. First' = First
      BY <2>1 DEF First, Walk, IsOther
    <3>2. \A c, g : Links(c, g)' <=> Links(c, g)
      BY <2>1 DEF Links
    <3> QED BY <2>1, <2>2, <3>1, <3>2 DEF Imported
  <2> QED BY <2>1, <2>3, StatedNext DEF ImportsGenuine, ImportInv
<1>8. CASE HookEnd /\ UNCHANGED ScanVars
  <2>1. /\ phase = "hook" /\ phase' = "hooked"
        /\ UNCHANGED <<table, at, matched, hooked>> /\ at = Size
    BY <1>8 DEF HookEnd
  <2>2. Imported(hooked)'
    BY <1>1, <2>1, HookGenuine, ImportFrame
  <2> QED BY <2>1, <2>2, StatedNext DEF ImportsGenuine, ImportInv
<1>9. CASE UNCHANGED <<table, at, matched, hooked, phase>>
  BY <1>1, <1>9, ImportFrame
<1>10. ASSUME NEW s \in Scans, NextScan(s)
       PROVE  ImportInv' /\ ImportsGenuine'
  <2>1. UNCHANGED <<table, at, matched, hooked>> /\ phase' \in {"global", "state", "done"}
    BY <1>10 DEF NextScan, Successor, Scans
  <2> QED BY <1>1, <2>1, ImportFrame
<1> QED BY <1>2, <1>3, <1>4, <1>5, <1>6, <1>7, <1>8, <1>9, <1>10
       DEF Next, Resolve, Hook, Scan, Visit, SecondPass, tableVars, vars

LEMMA InitImports == Init => ImportsInv
<1> SUFFICES ASSUME Init
             PROVE  ImportsInv
  OBVIOUS
<1>1. /\ at = 0 /\ matched = NoMatch /\ hooked = NoStub
      /\ phase \in {"derive", "hook"}
      /\ phase = "hook" => Linked(table)
  BY DEF Init, TableInit
<1>2. ImportsGenuine
  BY <1>1, MatchStated, HookStated DEF ImportsGenuine
<1>3. ASSUME phase = "hook"
      PROVE  \E L : LinkedBy(L) /\ at \in L /\
                \E B : Walk(B, at) /\ B \subseteq L /\ \A c \in B \ {at} : IsOther(c)
  <2>1. PICK L : LinkedBy(L)
    BY <1>1, <1>3 DEF Linked, LinkedBy
  <2>2. Walk({0}, at) /\ 0 \in L
    BY <1>1, <2>1 DEF Walk, LinkedBy
  <2> QED BY <1>1, <2>1, <2>2
<1>4. ImportInv
  BY <1>1, <1>3 DEF ImportInv
<1> QED BY <1>2, <1>4, InitTable DEF ImportsInv

\* The reader of main.c finds the import it is asked for, or rightly none, in a
\* table of any size and any contents; the reader of hook.c in one of any size
\* whose descriptors fill it exactly (kernel/main.c:423-500; hook.c:52-81,
\* 99-125).
THEOREM ImportsGenuineHolds == Spec => []ImportsGenuine
<1>1. ImportsInv /\ [Next]_vars => ImportsInv'
  BY ImportsStep
<1>2. ImportsInv => ImportsGenuine
  BY DEF ImportsInv
<1> QED BY InitImports, <1>1, <1>2, PTL DEF Spec

-----------------------------------------------------------------------------
(* What is counted and what is kept.                                        *)

\* The scans that have ended when the phase is one of these.
AfterScan ==
    [direct |-> {"global", "state", "done"}, global |-> {"state", "done"}, state |-> {"done"}]

\* The pass p of the scan s has left offset i.
Passed(s, p, i) ==
    \/ phase \in AfterScan[s]
    \/ phase = s /\ (p < pass \/ (p = pass /\ i < offset))

Seen(s, p) == {i \in References(s, p) : Passed(s, p, i)}

CallsSeen(p) == {i \in Seen("direct", 1) \cup Seen("direct", 2) : text[i].to = p}

\* What has been counted and kept is what the passes have left behind them.
CountInv ==
    /\ phase \in {"derive", "resolve"} => pass = 1 /\ offset = 0
    /\ \A s \in Scans :
        /\ total[s] = Cardinality(Seen(s, 1)) + Cardinality(Seen(s, 2))
        /\ \A p \in 1..2 : Sources(s, p) \subseteq Seen(s, p)
        /\ Cardinality(Sources(s, 1)) + Cardinality(Sources(s, 2)) = Len(refs[s])
        /\ Sources(s, 2) # {} => Sources(s, 1) = References(s, 1)
    /\ \A p \in Predicates : predicateCount[p] = Cardinality(CallsSeen(p))

\* The backward search for a base finds the last instruction that writes it.
LEMMA BaseFound ==
    ASSUME TableInv, NEW i \in Offsets
    PROVE  AccessesGlobal(i) <=>
               \E h \in HighBefore(text[i].base, i, Distance, Decoded) : <<h, text[i].disp>> = global
<1> DEFINE r == text[i].base
           W == {j \in Offsets : j < i /\ i - j <= Distance /\ r # Zero
                                 /\ Op(j) \in {"lui", "load", "alu"} /\ text[j].rt = r}
<1>0. Words \in Nat /\ Distance \in Nat /\ i \in 0..(Words - 1)
  BY ScanAssumption DEF Offsets
<1>1. \A j \in Offsets : text[j].op = "lui" => text[j].rt # Zero
  <2> DEFINE m == [text |-> text, table |-> table]
  <2>1. m \in Modules /\ m.text = text
    BY DEF TableInv
  <2>2. \A j \in Offsets : m.text[j].op = "lui" => m.text[j].rt # Zero
    BY <2>1, ModulesAssumption
  <2> QED BY <2>1, <2>2
<1>2. HighBefore(r, i, Distance, Decoded) = {text[j].imm : j \in {j \in W : Op(j) = "lui" /\ \A k \in W : k <= j}}
  BY DEF HighBefore, Decoded
<1>3. ASSUME NEW l \in LuiBefore(i)
      PROVE  l \in {j \in W : Op(j) = "lui" /\ \A k \in W : k <= j}
  <2>1. PICK d \in 1..Distance :
            /\ l = i - d /\ d <= i /\ IsLuiOf(i - d, r)
            /\ \A e \in 1..(d - 1) : ~WritesRegister(i - e, r)
    BY <1>3 DEF LuiBefore
  <2>2. l \in Offsets /\ l < i /\ i - l <= Distance
    BY <1>0, <2>1 DEF Offsets
  <2>3. Op(l) = "lui" /\ text[l].rt = r /\ r # Zero
    BY <1>1, <2>1, <2>2 DEF IsLuiOf, Op
  <2>4. ASSUME NEW k \in W, ~(k <= l)
        PROVE  FALSE
    <3>1. k \in 0..(Words - 1) /\ k < i
      BY DEF Offsets
    <3>2. PICK e : e = i - k
      OBVIOUS
    <3>3. e \in 1..(d - 1) /\ i - e = k
      BY <1>0, <2>1, <2>4, <3>1, <3>2
    <3>4. WritesRegister(k, r)
      BY DEF WritesRegister
    <3> QED BY <2>1, <3>3, <3>4
  <2> QED BY <2>2, <2>3, <2>4
<1>4. ASSUME NEW l \in W, Op(l) = "lui", \A k \in W : k <= l
      PROVE  l \in LuiBefore(i)
  <2>1. l \in 0..(Words - 1) /\ l < i /\ i - l <= Distance
    BY DEF Offsets
  <2>2. PICK d : d = i - l
    OBVIOUS
  <2>3. d \in 1..Distance /\ i - d = l /\ d <= i
    BY <1>0, <2>1, <2>2
  <2>4. IsLuiOf(l, r)
    BY <1>4 DEF IsLuiOf
  <2>5. ASSUME NEW e \in 1..(d - 1)
        PROVE  ~IsLuiOf(i - e, r) /\ ~WritesRegister(i - e, r)
    <3>1. i - e \in Offsets /\ i - e < i /\ i - (i - e) <= Distance /\ l < i - e
      BY <1>0, <2>1, <2>2, <2>3 DEF Offsets
    <3>2. i - e \notin W
      BY <1>0, <1>4, <2>1, <3>1
    <3>3. ~(r # Zero /\ Op(i - e) \in {"lui", "load", "alu"} /\ text[i - e].rt = r)
      BY <3>1, <3>2
    <3> QED BY <3>3 DEF IsLuiOf, WritesRegister
  <2> QED BY <2>3, <2>4, <2>5 DEF LuiBefore
<1> HIDE DEF W
<1> QED BY <1>2, <1>3, <1>4 DEF AccessesGlobal

\* The scan takes for a reference what the text would make one.
LEMMA IsReferenceMeans ==
    ASSUME TableInv, NEW i \in Offsets, NEW s \in Scans, NEW p \in 1..2,
           s # "global" \/ global # Undecoded
    PROVE  IsReference(s, p, i) <=> i \in References(s, p)
BY BaseFound DEF IsReference, References, Scans

LEMMA ReferencesFinite ==
    ASSUME NEW s \in Scans, NEW p \in 1..2
    PROVE  References(s, p) \subseteq Offsets /\ IsFiniteSet(References(s, p))
<1>1. References(s, p) \subseteq Offsets
  BY DEF References, Scans
<1>2. IsFiniteSet(Offsets)
  BY FS_Interval, ScanAssumption DEF Offsets
<1> QED BY <1>1, <1>2, FS_Subset

\* Nothing lies before the first word.
LEMMA NoneAtStart ==
    ASSUME NEW p \in 1..2
    PROVE  0 \notin References("global", p)
<1>1. HighBefore(text[0].base, 0, Distance, Decoded) = {}
  BY ScanAssumption DEF HighBefore, Offsets
<1> QED BY <1>1 DEF References

LEMMA KindsDisjoint ==
    ASSUME NEW s \in Scans
    PROVE  References(s, 1) \cap References(s, 2) = {}
BY DEF References, Scans

LEMMA SeenFinite ==
    ASSUME NEW s \in Scans, NEW p \in 1..2
    PROVE  IsFiniteSet(Seen(s, p)) /\ Cardinality(Seen(s, p)) \in Nat
<1>1. Seen(s, p) \in SUBSET References(s, p)
  BY DEF Seen
<1>2. IsFiniteSet(Seen(s, p))
  BY <1>1, ReferencesFinite, FS_Subset
<1> QED BY <1>2, FS_CardinalityType

\* A step that leaves the references and what is behind the passes as they were.
LEMMA CountFrame ==
    ASSUME CountInv, UNCHANGED <<text, total, refs, predicateCount>>,
           \A s \in Scans : \A p \in 1..2 : Seen(s, p)' = Seen(s, p),
           \A s \in Scans : Sources(s, 2) = {} \/ References(s, 1)' = References(s, 1),
           phase' \in {"derive", "resolve"} => pass' = 1 /\ offset' = 0
    PROVE  CountInv'
<1>1. \A s, p : Sources(s, p)' = Sources(s, p)
  BY DEF Sources
<1>2. \A p : CallsSeen(p)' = CallsSeen(p)
  BY DEF CallsSeen, Scans
<1>3. ASSUME NEW s \in Scans
      PROVE  /\ total'[s] = Cardinality(Seen(s, 1)') + Cardinality(Seen(s, 2)')
             /\ \A p \in 1..2 : Sources(s, p)' \subseteq Seen(s, p)'
             /\ Cardinality(Sources(s, 1)') + Cardinality(Sources(s, 2)') = Len(refs'[s])
             /\ Sources(s, 2)' # {} => Sources(s, 1)' = References(s, 1)'
  <2>1. /\ Seen(s, 1)' = Seen(s, 1) /\ Seen(s, 2)' = Seen(s, 2)
        /\ Sources(s, 1)' = Sources(s, 1) /\ Sources(s, 2)' = Sources(s, 2)
    BY <1>1
  <2>2. /\ total[s] = Cardinality(Seen(s, 1)) + Cardinality(Seen(s, 2))
        /\ Sources(s, 1) \subseteq Seen(s, 1) /\ Sources(s, 2) \subseteq Seen(s, 2)
        /\ Cardinality(Sources(s, 1)) + Cardinality(Sources(s, 2)) = Len(refs[s])
        /\ Sources(s, 2) # {} => Sources(s, 1) = References(s, 1)
    BY DEF CountInv
  <2> QED BY <2>1, <2>2
<1>4. \A p \in Predicates : predicateCount'[p] = Cardinality(CallsSeen(p)')
  BY <1>2 DEF CountInv
<1> QED BY <1>3, <1>4 DEF CountInv

\* The sources of a sequence of records with one more at its end.
SourcesOf(r, p) == {r[k].source : k \in {k \in DOMAIN r : r[k].kind = p}}

LEMMA SourcesAppend ==
    ASSUME NEW S, NEW r \in Seq(S), NEW x \in S, NEW p
    PROVE  SourcesOf(Append(r, x), p) =
               IF x.kind = p THEN SourcesOf(r, p) \cup {x.source} ELSE SourcesOf(r, p)
<1> DEFINE a == Append(r, x)
           n == Len(r) + 1
<1>1. /\ DOMAIN a = (DOMAIN r) \cup {n} /\ a[n] = x /\ n \notin DOMAIN r
      /\ \A k \in DOMAIN r : a[k] = r[k]
  OBVIOUS
<1> HIDE DEF a, n
<1>2. SourcesOf(a, p) = IF x.kind = p THEN SourcesOf(r, p) \cup {x.source} ELSE SourcesOf(r, p)
  BY <1>1 DEF SourcesOf
<1> QED BY <1>2 DEF a

\* One word of a pass: what is behind it grows by the word, if it is counted.
LEMMA SeenVisit ==
    ASSUME IInv, TableInv, NEW s \in Scans, Visit(s), NEW t \in Scans, NEW p \in 1..2
    PROVE  /\ References(t, p)' = References(t, p)
           /\ Seen(t, p)' = IF t = s /\ p = pass /\ IsReference(s, pass, offset)
                              THEN Seen(t, p) \cup {offset} ELSE Seen(t, p)
           /\ offset \notin Seen(s, pass)
<1>1. /\ UNCHANGED <<text, global, phase, pass>> /\ phase = s /\ offset' = offset + 1
      /\ offset \in Offsets /\ pass \in 1..2 /\ (s # "global" \/ global # Undecoded)
  BY ScanAssumption DEF Visit, tableVars, Offsets, IInv, ScanTypeOK
<1>2. \A q : References(t, q)' = References(t, q)
  BY <1>1 DEF References, HighBefore, Op
<1>3. \A i \in Offsets : Passed(t, p, i)' <=> (Passed(t, p, i) \/ (t = s /\ p = pass /\ i = offset))
  <2>1. t # phase /\ phase \in AfterScan[t] => t # s
    BY <1>1
  <2>2. phase = t => phase \notin AfterScan[t]
    BY DEF AfterScan, Scans
  <2>3. \A i \in Offsets : i < offset + 1 <=> (i < offset \/ i = offset)
    BY <1>1 DEF Offsets
  <2> QED BY <1>1, <2>1, <2>2, <2>3 DEF Passed
<1>4. IsReference(s, pass, offset) <=> offset \in References(s, pass)
  BY <1>1, IsReferenceMeans
<1>5. References(t, p) \subseteq Offsets
  BY ReferencesFinite
<1>6. Seen(t, p)' = {i \in References(t, p) : Passed(t, p, i)'}
  BY <1>2 DEF Seen
<1>7. Seen(t, p)' = IF t = s /\ p = pass /\ IsReference(s, pass, offset)
                      THEN Seen(t, p) \cup {offset} ELSE Seen(t, p)
  <2>1. CASE t = s /\ p = pass
    BY <1>3, <1>4, <1>5, <1>6, <2>1 DEF Seen
  <2>2. CASE ~(t = s /\ p = pass)
    BY <1>3, <1>5, <1>6, <2>2 DEF Seen
  <2> QED BY <2>1, <2>2
<1>8. offset \notin Seen(s, pass)
  <2>1. phase \notin AfterScan[s]
    BY <1>1 DEF AfterScan, Scans
  <2> QED BY <1>1, <2>1 DEF Seen, Passed, Offsets
<1> QED BY <1>2, <1>7, <1>8

LEMMA OneMore ==
    ASSUME NEW A, IsFiniteSet(A), NEW x, x \notin A
    PROVE  Cardinality(A) \in Nat /\ Cardinality(A \cup {x}) = Cardinality(A) + 1
BY FS_AddElement, FS_CardinalityType

\* While there is room nothing has been dropped, so every reference of the
\* first kind is kept before one of the second is.
LEMMA FirstKindKept ==
    ASSUME IInv, TableInv, CountInv, NEW s \in Scans, phase = s, pass = 2,
           Len(refs[s]) < Capacity(s)
    PROVE  Sources(s, 1) = References(s, 1)
<1>1. /\ Sources(s, 1) \in SUBSET Seen(s, 1) /\ Sources(s, 2) \in SUBSET Seen(s, 2)
      /\ Cardinality(Sources(s, 1)) + Cardinality(Sources(s, 2)) = Len(refs[s])
      /\ total[s] = Cardinality(Seen(s, 1)) + Cardinality(Seen(s, 2))
  BY DEF CountInv
<1>2. total[s] = Len(refs[s])
  <2>1. /\ overflow[s] > 0 => Len(refs[s]) = Capacity(s)
        /\ overflow[s] + Len(refs[s]) = total[s]
        /\ overflow[s] \in Nat /\ Len(refs[s]) \in Nat /\ Capacity(s) \in Nat
    BY CapacityNat DEF IInv, Retained, ScanTypeOK
  <2> QED BY <2>1
<1>3. IsFiniteSet(Seen(s, 1)) /\ IsFiniteSet(Seen(s, 2))
  BY SeenFinite
<1>4. /\ Cardinality(Sources(s, 1)) <= Cardinality(Seen(s, 1))
      /\ Cardinality(Sources(s, 2)) <= Cardinality(Seen(s, 2))
      /\ Cardinality(Seen(s, 1)) = Cardinality(Sources(s, 1)) => Seen(s, 1) = Sources(s, 1)
      /\ IsFiniteSet(Sources(s, 1)) /\ IsFiniteSet(Sources(s, 2))
  BY <1>1, <1>3, FS_Subset
<1>5. /\ Cardinality(Sources(s, 1)) \in Nat /\ Cardinality(Sources(s, 2)) \in Nat
      /\ Cardinality(Seen(s, 1)) \in Nat /\ Cardinality(Seen(s, 2)) \in Nat
  BY <1>3, <1>4, FS_CardinalityType
<1>6. Seen(s, 1) = Sources(s, 1)
  BY <1>1, <1>2, <1>4, <1>5
<1>7. Seen(s, 1) = References(s, 1)
  BY DEF Seen, Passed
<1> QED BY <1>6, <1>7

LEMMA TotalVisit ==
    ASSUME IInv, TableInv, CountInv, NEW s \in Scans, Visit(s), IsReference(s, pass, offset),
           NEW t \in Scans
    PROVE  total'[t] = Cardinality(Seen(t, 1)') + Cardinality(Seen(t, 2)')
<1>1. /\ total'[t] = IF t = s THEN total[t] + 1 ELSE total[t]
      /\ total[t] = Cardinality(Seen(t, 1)) + Cardinality(Seen(t, 2))
  BY DEF Visit, IInv, ScanTypeOK, CountInv
<1>2. \A p \in 1..2 : /\ Seen(t, p)' = IF t = s /\ p = pass THEN Seen(t, p) \cup {offset} ELSE Seen(t, p)
                      /\ offset \notin Seen(s, pass)
                      /\ IsFiniteSet(Seen(t, p)) /\ Cardinality(Seen(t, p)) \in Nat
  BY SeenVisit, SeenFinite
<1>3. CASE t # s
  BY <1>1, <1>2, <1>3
<1>4. CASE t = s /\ pass = 1
  <2>1. Seen(t, 1)' = Seen(t, 1) \cup {offset} /\ Seen(t, 2)' = Seen(t, 2)
        /\ offset \notin Seen(t, 1)
    BY <1>2, <1>4
  <2>2. Cardinality(Seen(t, 1)') = Cardinality(Seen(t, 1)) + 1
    BY <1>2, <2>1, OneMore
  <2> QED BY <1>1, <1>2, <1>4, <2>1, <2>2
<1>5. CASE t = s /\ pass = 2
  <2>1. Seen(t, 2)' = Seen(t, 2) \cup {offset} /\ Seen(t, 1)' = Seen(t, 1)
        /\ offset \notin Seen(t, 2)
    BY <1>2, <1>5
  <2>2. Cardinality(Seen(t, 2)') = Cardinality(Seen(t, 2)) + 1
    BY <1>2, <2>1, OneMore
  <2> QED BY <1>1, <1>2, <1>5, <2>1, <2>2
<1>6. pass \in 1..2
  BY DEF IInv, ScanTypeOK
<1> QED BY <1>3, <1>4, <1>5, <1>6

LEMMA SourcesVisit ==
    ASSUME IInv, TableInv, CountInv, NEW s \in Scans, Visit(s), IsReference(s, pass, offset),
           NEW t \in Scans
    PROVE  /\ \A p \in 1..2 : Sources(t, p)' \subseteq Seen(t, p)'
           /\ Cardinality(Sources(t, 1)') + Cardinality(Sources(t, 2)') = Len(refs'[t])
           /\ Sources(t, 2)' # {} => Sources(t, 1)' = References(t, 1)'
<1>1. \A p \in 1..2 : /\ References(t, p)' = References(t, p)
                      /\ Seen(t, p)' = IF t = s /\ p = pass THEN Seen(t, p) \cup {offset} ELSE Seen(t, p)
                      /\ offset \notin Seen(s, pass)
                      /\ IsFiniteSet(Seen(t, p)) /\ Cardinality(Seen(t, p)) \in Nat
  BY SeenVisit, SeenFinite
<1>2. /\ Sources(t, 1) \in SUBSET Seen(t, 1) /\ Sources(t, 2) \in SUBSET Seen(t, 2)
      /\ Cardinality(Sources(t, 1)) + Cardinality(Sources(t, 2)) = Len(refs[t])
      /\ Sources(t, 2) # {} => Sources(t, 1) = References(t, 1)
  BY DEF CountInv
<1>3. /\ phase = s /\ pass \in 1..2 /\ offset \in Offsets
      /\ refs \in [Scans -> Seq(Records)] /\ refs[t] \in Seq(Records)
  BY ScanAssumption DEF Visit, IInv, ScanTypeOK, Offsets
<1>4. \A p \in 1..2 : Sources(t, p) = SourcesOf(refs[t], p) /\ Sources(t, p)' = SourcesOf(refs'[t], p)
  BY DEF Sources, SourcesOf
<1>5. CASE refs'[t] = refs[t]
  <2>1. Sources(t, 1)' = Sources(t, 1) /\ Sources(t, 2)' = Sources(t, 2)
    BY <1>4, <1>5
  <2>2. \A p \in 1..2 : Sources(t, p)' \subseteq Seen(t, p)'
    BY <1>1, <1>2, <2>1
  <2> QED BY <1>1, <1>2, <1>5, <2>1, <2>2
<1>6. CASE refs'[t] # refs[t]
  <2>1. /\ t = s /\ Len(refs[s]) < Capacity(s)
        /\ refs' = [refs EXCEPT ![s] = Append(@, Reference(pass, offset))]
    BY <1>3, <1>6 DEF Visit, Retain
  <2>2. refs'[s] = Append(refs[s], Reference(pass, offset))
    BY <1>3, <2>1
  <2>3. Reference(pass, offset) \in Records /\ Reference(pass, offset).kind = pass
        /\ Reference(pass, offset).source = offset
    BY <1>3, ReferenceRecorded DEF Reference
  <2>4. \A p \in 1..2 : Sources(s, p)' = IF p = pass THEN Sources(s, p) \cup {offset} ELSE Sources(s, p)
    BY <1>3, <1>4, <2>1, <2>2, <2>3, SourcesAppend
  <2>5. Len(refs'[s]) = Len(refs[s]) + 1
    BY <1>3, <2>1, <2>2, <2>3
  <2>6. /\ IsFiniteSet(Sources(s, 1)) /\ IsFiniteSet(Sources(s, 2))
        /\ Cardinality(Sources(s, 1)) \in Nat /\ Cardinality(Sources(s, 2)) \in Nat
        /\ offset \notin Sources(s, pass)
    <3>1. IsFiniteSet(Sources(s, 1)) /\ IsFiniteSet(Sources(s, 2))
      BY <1>1, <1>2, <2>1, FS_Subset
    <3>2. offset \notin Sources(s, pass)
      BY <1>1, <1>2, <1>3, <2>1
    <3> QED BY <3>1, <3>2, FS_CardinalityType
  <2>7. \A p \in 1..2 : Sources(t, p)' \subseteq Seen(t, p)'
    BY <1>1, <1>2, <2>1, <2>4
  <2>8. CASE pass = 1
    <3>1. Sources(s, 1)' = Sources(s, 1) \cup {offset} /\ Sources(s, 2)' = Sources(s, 2)
      BY <2>4, <2>8
    <3>2. Cardinality(Sources(s, 1)') = Cardinality(Sources(s, 1)) + 1
      BY <2>6, <2>8, <3>1, OneMore
    <3>3. Cardinality(Sources(t, 1)') + Cardinality(Sources(t, 2)') = Len(refs'[t])
      BY <1>2, <2>1, <2>5, <2>6, <3>1, <3>2
    <3>4. Seen(s, 2) = {}
      <4>1. phase \notin AfterScan[s]
        BY SMTT(30), <1>3 DEF AfterScan, Scans
      <4> QED BY <1>3, <2>8, <4>1 DEF Seen, Passed
    <3> QED BY <1>2, <2>1, <2>7, <3>1, <3>3, <3>4
  <2>9. CASE pass = 2
    <3>1. Sources(s, 2)' = Sources(s, 2) \cup {offset} /\ Sources(s, 1)' = Sources(s, 1)
      BY <2>4, <2>9
    <3>2. Cardinality(Sources(s, 2)') = Cardinality(Sources(s, 2)) + 1
      BY <2>6, <2>9, <3>1, OneMore
    <3>3. Cardinality(Sources(t, 1)') + Cardinality(Sources(t, 2)') = Len(refs'[t])
      BY <1>2, <2>1, <2>5, <2>6, <3>1, <3>2
    <3>4. Sources(s, 1) = References(s, 1)
      BY <1>3, <2>1, <2>9, FirstKindKept
    <3> QED BY <1>1, <2>1, <2>7, <3>1, <3>3, <3>4
  <2> QED BY <1>3, <2>8, <2>9
<1> QED BY <1>5, <1>6

LEMMA CallsVisit ==
    ASSUME IInv, TableInv, CountInv, NEW s \in Scans, Visit(s), IsReference(s, pass, offset),
           NEW p \in Predicates
    PROVE  predicateCount'[p] = Cardinality(CallsSeen(p)')
<1>1. /\ text' = text /\ phase = s /\ pass \in 1..2 /\ offset \in Offsets
      /\ s # "global" \/ global # Undecoded
  BY ScanAssumption DEF Visit, IInv, ScanTypeOK, Offsets
<1>2. \A q \in 1..2 : /\ Seen("direct", q)' = IF s = "direct" /\ q = pass
                                                THEN Seen("direct", q) \cup {offset}
                                                ELSE Seen("direct", q)
                      /\ offset \notin Seen(s, pass)
  BY SeenVisit DEF Scans
<1>3. predicateCount[p] = Cardinality(CallsSeen(p))
  BY DEF CountInv
<1>4. CASE s # "direct"
  <2>1. predicateCount' = predicateCount
    BY <1>4 DEF Visit, CountPredicate
  <2>2. CallsSeen(p)' = CallsSeen(p)
    BY <1>1, <1>2, <1>4 DEF CallsSeen
  <2> QED BY <1>3, <2>1, <2>2
<1>5. CASE s = "direct"
  <2>1. text[offset].to \in Predicates
        /\ predicateCount' = [predicateCount EXCEPT ![text[offset].to] = @ + 1]
    BY <1>5 DEF Visit, CountPredicate, IsReference
  <2>2. predicateCount'[p] = IF text[offset].to = p THEN predicateCount[p] + 1 ELSE predicateCount[p]
    BY <2>1 DEF TableInv
  <2>3. Seen("direct", 1)' \cup Seen("direct", 2)'
            = Seen("direct", 1) \cup Seen("direct", 2) \cup {offset}
    BY <1>1, <1>2, <1>5
  <2>4. offset \notin Seen("direct", 1) \cup Seen("direct", 2)
    <3>1. offset \in References("direct", pass)
      BY <1>1, <1>5, IsReferenceMeans
    <3>2. offset \notin References("direct", 3 - pass)
      BY <1>1, <3>1, KindsDisjoint DEF Scans
    <3> QED BY <1>1, <1>2, <1>5, <3>2 DEF Seen
  <2>5. CASE text[offset].to = p
    <3>1. CallsSeen(p)' = CallsSeen(p) \cup {offset}
      BY <1>1, <2>3, <2>5 DEF CallsSeen
    <3>2. offset \notin CallsSeen(p) /\ IsFiniteSet(CallsSeen(p))
      <4>1. CallsSeen(p) \in SUBSET Offsets
        BY ReferencesFinite DEF CallsSeen, Seen, Scans
      <4>2. IsFiniteSet(Offsets)
        BY FS_Interval, ScanAssumption DEF Offsets
      <4> QED BY <2>4, <4>1, <4>2, FS_Subset DEF CallsSeen
    <3> QED BY <1>3, <2>2, <2>5, <3>1, <3>2, OneMore
  <2>6. CASE text[offset].to # p
    <3>1. CallsSeen(p)' = CallsSeen(p)
      BY <1>1, <2>3, <2>6 DEF CallsSeen
    <3> QED BY <1>3, <2>2, <2>6, <3>1
  <2> QED BY <2>5, <2>6
<1> QED BY <1>4, <1>5

LEMMA VisitCounts ==
    ASSUME IInv, TableInv, CountInv, NEW s \in Scans, Visit(s)
    PROVE  CountInv'
<1>1. phase' = s /\ text' = text
  BY DEF Visit, tableVars
<1>2. CASE ~IsReference(s, pass, offset)
  <2>1. \A t \in Scans : \A p \in 1..2 : Seen(t, p)' = Seen(t, p) /\ References(t, p)' = References(t, p)
    BY <1>2, SeenVisit
  <2>2. UNCHANGED <<text, total, refs, predicateCount>>
    BY <1>2 DEF Visit
  <2> QED BY <1>1, <2>1, <2>2, CountFrame DEF Scans
<1>3. CASE IsReference(s, pass, offset)
  <2>1. phase' \notin {"derive", "resolve"}
    BY <1>1 DEF Scans
  <2> QED BY <1>3, <2>1, TotalVisit, SourcesVisit, CallsVisit DEF CountInv
<1> QED BY <1>2, <1>3

\* The ends of the passes: nothing is left unread, and nothing read twice.
LEMMA SecondPassSeen ==
    ASSUME IInv, NEW s \in Scans, SecondPass(s), NEW t \in Scans, NEW p \in 1..2
    PROVE  References(t, p)' = References(t, p) /\ Seen(t, p)' = Seen(t, p)
<1>1. /\ UNCHANGED <<text, global, phase>> /\ phase = s /\ pass = 1 /\ pass' = 2
      /\ offset = Words /\ offset' = FirstOffset(s)
  BY DEF SecondPass, tableVars
<1>2. References(t, p)' = References(t, p)
  BY <1>1 DEF References, HighBefore, Op
<1>3. \A i \in Offsets : i < Words /\ (i < FirstOffset(s) => (i = 0 /\ s = "global"))
  BY ScanAssumption DEF Offsets, FirstOffset
<1>4. \A i \in References(t, p) : Passed(t, p, i)' <=> Passed(t, p, i)
  <2>1. SUFFICES ASSUME NEW i \in References(t, p)
                 PROVE  Passed(t, p, i)' <=> Passed(t, p, i)
    OBVIOUS
  <2>2. i \in Offsets /\ (t = "global" => i # 0)
    BY ReferencesFinite, NoneAtStart
  <2>3. CASE t # s
    BY <1>1, <2>3 DEF Passed
  <2>4. CASE t = s /\ p = 1
    BY <1>1, <1>3, <2>2, <2>4 DEF Passed
  <2>5. CASE t = s /\ p = 2
    BY <1>1, <1>3, <2>2, <2>5 DEF Passed
  <2> QED BY <2>3, <2>4, <2>5
<1> QED BY <1>2, <1>4 DEF Seen

LEMMA NextScanSeen ==
    ASSUME IInv, NEW s \in Scans, NextScan(s), NEW t \in Scans, NEW p \in 1..2
    PROVE  References(t, p)' = References(t, p) /\ Seen(t, p)' = Seen(t, p)
<1>1. /\ UNCHANGED <<text, global>> /\ phase = s /\ phase' = Successor[s] /\ pass' = 1
      /\ (offset = Words /\ pass = 2) \/ (s = "global" /\ global = Undecoded)
      /\ offset' = IF s = "direct" THEN 1 ELSE 0
  BY DEF NextScan, FirstOffset
<1>2. References(t, p)' = References(t, p)
  BY <1>1 DEF References, HighBefore, Op
<1>3. /\ s = "direct" => phase' = "global"
      /\ s = "global" => phase' = "state"
      /\ s = "state" => phase' = "done"
      /\ s \in {"direct", "global", "state"} /\ t \in {"direct", "global", "state"}
  BY <1>1 DEF Successor, Scans
<1>4. SUFFICES ASSUME NEW i \in References(t, p)
               PROVE  Passed(t, p, i)' <=> Passed(t, p, i)
  BY <1>2 DEF Seen
<1>5. i \in 0..(Words - 1) /\ Words \in Nat /\ (t = "global" => i # 0)
  BY ReferencesFinite, NoneAtStart, ScanAssumption DEF Offsets
<1>6. CASE t = s
  <2>1. ~(s = "global" /\ global = Undecoded)
    BY <1>4, <1>6 DEF References
  <2>2. Passed(t, p, i)
    BY <1>1, <1>5, <1>6, <2>1 DEF Passed
  <2>3. Passed(t, p, i)'
    BY <1>3, <1>6 DEF Passed, AfterScan
  <2> QED BY <2>2, <2>3
<1>7. CASE t # s /\ phase' = t
  <2>1. ~Passed(t, p, i)
    BY <1>1, <1>3, <1>7 DEF Passed, AfterScan
  <2>2. ~(p < 1 \/ (p = 1 /\ i < offset'))
    BY <1>1, <1>3, <1>5, <1>7
  <2>3. phase' \notin AfterScan[t]
    BY <1>3, <1>7 DEF AfterScan
  <2>4. ~Passed(t, p, i)'
    BY <1>1, <2>2, <2>3 DEF Passed
  <2> QED BY <2>1, <2>4
<1>8. CASE t # s /\ phase' # t
  BY <1>1, <1>3, <1>8 DEF Passed, AfterScan
<1> QED BY <1>6, <1>7, <1>8

LEMMA EarlySeen ==
    ASSUME phase \in {"derive", "resolve", "hook", "hooked"}, NEW s \in Scans, NEW p
    PROVE  Seen(s, p) = {}
BY DEF Seen, Passed, AfterScan, Scans

LEMMA CountStep ==
    ASSUME IInv, TableInv, CountInv, [Next]_vars
    PROVE  CountInv'
<1>1. CASE Derive
  <2>1. /\ UNCHANGED <<text, total, refs, predicateCount, pass, offset>>
        /\ phase = "derive" /\ phase' = "resolve" /\ pass = 1 /\ offset = 0
    BY <1>1 DEF Derive, CountInv
  <2>2. \A s \in Scans : \A p \in 1..2 : Seen(s, p) = {} /\ Seen(s, p)' = {}
    BY <2>1, EarlySeen DEF Seen, Passed, AfterScan, Scans
  <2>3. \A s \in Scans : Sources(s, 2) = {}
    BY <2>2 DEF CountInv
  <2> QED BY <2>1, <2>2, <2>3, CountFrame
<1>2. CASE (Resolve \/ Hook) /\ UNCHANGED ScanVars
  <2>1. /\ UNCHANGED <<text, global, total, refs, predicateCount, pass, offset>>
        /\ phase \in {"resolve", "hook"}
        /\ (phase' \in {"resolve", "direct"} /\ phase = "resolve") \/ phase' \in {"hook", "hooked"}
    BY <1>2 DEF ScanVars, Resolve, ResolveSkip, ResolveMatch, ResolveEnd, Hook, HookSkip,
                HookLibrary, HookEnd
  <2>2. phase = "resolve" => pass = 1 /\ offset = 0
    BY DEF CountInv
  <2>3. ASSUME NEW s \in Scans, NEW p \in 1..2
        PROVE  Seen(s, p) = {} /\ Seen(s, p)' = {} /\ References(s, p)' = References(s, p)
    <3>1. References(s, p)' = References(s, p)
      BY <2>1 DEF References, HighBefore, Op
    <3>2. \A i \in Offsets : ~Passed(s, p, i)'
      BY <2>1, <2>2 DEF Passed, AfterScan, Scans, Offsets
    <3>3. Seen(s, p)' = {}
      BY <3>1, <3>2, ReferencesFinite DEF Seen
    <3> QED BY <2>1, <3>1, <3>3, EarlySeen
  <2>4. phase' \in {"derive", "resolve"} => pass' = 1 /\ offset' = 0
    BY <2>1, <2>2
  <2> QED BY <2>1, <2>3, <2>4, CountFrame
<1>3. ASSUME NEW s \in Scans, Visit(s)
      PROVE  CountInv'
  BY <1>3, VisitCounts
<1>4. ASSUME NEW s \in Scans, SecondPass(s)
      PROVE  CountInv'
  <2>1. UNCHANGED <<text, total, refs, predicateCount>> /\ phase' \in Scans
    BY <1>4 DEF SecondPass, tableVars
  <2>2. phase' \notin {"derive", "resolve"}
    BY <2>1 DEF Scans
  <2>3. \A t \in Scans : \A p \in 1..2 : Seen(t, p)' = Seen(t, p) /\ References(t, p)' = References(t, p)
    BY <1>4, SecondPassSeen
  <2> QED BY <2>1, <2>2, <2>3, CountFrame
<1>5. ASSUME NEW s \in Scans, NextScan(s)
      PROVE  CountInv'
  <2>1. UNCHANGED <<text, total, refs, predicateCount>>
    BY <1>5 DEF NextScan
  <2>2. phase' \notin {"derive", "resolve"}
    BY <1>5 DEF NextScan, Successor, Scans
  <2>3. \A t \in Scans : \A p \in 1..2 : Seen(t, p)' = Seen(t, p) /\ References(t, p)' = References(t, p)
    BY <1>5, NextScanSeen
  <2> QED BY <2>1, <2>2, <2>3, CountFrame
<1>6. CASE UNCHANGED vars
  <2>1. UNCHANGED <<text, global, total, refs, predicateCount, phase, pass, offset>>
    BY <1>6 DEF vars, tableVars
  <2>2. \A s \in Scans : \A p \in 1..2 : References(s, p)' = References(s, p)
    BY <2>1 DEF References, HighBefore, Op
  <2>3. \A s \in Scans : \A p \in 1..2 : Seen(s, p)' = Seen(s, p)
    BY <2>1, <2>2 DEF Seen, Passed
  <2>4. phase' \in {"derive", "resolve"} => pass' = 1 /\ offset' = 0
    BY <2>1 DEF CountInv
  <2> QED BY <2>1, <2>2, <2>3, <2>4, CountFrame
<1> QED BY <1>1, <1>2, <1>3, <1>4, <1>5, <1>6 DEF Next, Scan

LEMMA InitCounts == Init => CountInv
<1> SUFFICES ASSUME Init
             PROVE  CountInv
  OBVIOUS
<1>1. /\ phase \in {"derive", "hook"} /\ pass = 1 /\ offset = 0
      /\ total = [s \in Scans |-> 0] /\ refs = [s \in Scans |-> <<>>]
      /\ predicateCount = [p \in Predicates |-> 0]
  BY DEF Init
<1>2. \A s \in Scans : \A p \in 1..2 : Seen(s, p) = {} /\ Sources(s, p) = {}
  <2>1. \A s \in Scans : \A p \in 1..2 : Seen(s, p) = {}
    BY <1>1, EarlySeen
  <2>2. \A s \in Scans : \A p \in 1..2 : Sources(s, p) = {}
    BY <1>1 DEF Sources
  <2> QED BY <2>1, <2>2
<1>3. \A p \in Predicates : CallsSeen(p) = {}
  BY <1>2 DEF CallsSeen, Scans
<1>4. Cardinality({}) = 0
  BY FS_EmptySet
<1>5. ASSUME NEW s \in Scans
      PROVE  /\ total[s] = Cardinality(Seen(s, 1)) + Cardinality(Seen(s, 2))
             /\ \A p \in 1..2 : Sources(s, p) \subseteq Seen(s, p)
             /\ Cardinality(Sources(s, 1)) + Cardinality(Sources(s, 2)) = Len(refs[s])
             /\ Sources(s, 2) = {}
  <2>1. total[s] = 0 /\ refs[s] = <<>> /\ Len(refs[s]) = 0
    BY <1>1
  <2>2. Seen(s, 1) = {} /\ Seen(s, 2) = {} /\ Sources(s, 1) = {} /\ Sources(s, 2) = {}
    BY <1>2
  <2>3. \A p \in 1..2 : Sources(s, p) \subseteq Seen(s, p)
    BY <1>2
  <2>4. /\ Cardinality(Seen(s, 1)) = 0 /\ Cardinality(Seen(s, 2)) = 0
        /\ Cardinality(Sources(s, 1)) = 0 /\ Cardinality(Sources(s, 2)) = 0
    BY <1>4, <2>2
  <2> QED BY <2>1, <2>2, <2>3, <2>4
<1>6. \A p \in Predicates : predicateCount[p] = Cardinality(CallsSeen(p))
  BY <1>1, <1>3, <1>4
<1> QED BY <1>1, <1>5, <1>6 DEF CountInv

LEMMA CountHolds == Spec => [](IInv /\ TableInv /\ CountInv)
<1>1. IInv /\ TableInv /\ CountInv /\ [Next]_vars => CountInv'
  BY CountStep
<1>2. TableInv /\ [Next]_vars => TableInv'
  BY TableStep
<1> QED BY InitHolds, InitTable, InitCounts, StepKeeps, <1>1, <1>2, PTL DEF Spec

\* What the scan of global accesses recognises is what an execution would reach
\* from a LUI near by, but for accesses behind a write that is not decoded.
LEMMA AccessesDecoded ==
    ASSUME NEW i \in Offsets
    PROVE  /\ HighBefore(text[i].base, i, Distance, Writers)
                 \subseteq HighBefore(text[i].base, i, Distance, Decoded)
           /\ \/ \E j \in Offsets : /\ j < i /\ i - j <= Distance
                                   /\ Op(j) = "unknown" /\ text[j].rt = text[i].base
              \/ HighBefore(text[i].base, i, Distance, Decoded)
                   = HighBefore(text[i].base, i, Distance, Writers)
<1> DEFINE r == text[i].base
           Of(ops) == {j \in Offsets : j < i /\ i - j <= Distance /\ r # Zero
                                       /\ Op(j) \in ops /\ text[j].rt = r}
           Last(W) == {text[j].imm : j \in {j \in W : Op(j) = "lui" /\ \A k \in W : k <= j}}
<1>1. \A ops : HighBefore(r, i, Distance, ops) = Last(Of(ops))
  BY DEF HighBefore
<1>2. Of(Decoded) \subseteq Of(Writers)
  BY DEF Writers
<1>3. \A j \in Of(Writers) : Op(j) = "lui" => j \in Of(Decoded)
  BY DEF Decoded
<1>4. \A j \in Of(Writers) \ Of(Decoded) :
          j \in Offsets /\ j < i /\ i - j <= Distance /\ Op(j) = "unknown" /\ text[j].rt = r
  BY DEF Writers
<1> HIDE DEF Of
<1>5. Last(Of(Writers)) \subseteq Last(Of(Decoded))
  BY <1>2, <1>3
<1>6. Of(Writers) \ Of(Decoded) = {} => Of(Decoded) = Of(Writers)
  BY <1>2
<1> HIDE DEF Last
<1> QED BY <1>1, <1>4, <1>5, <1>6

\* The references of a scan lie between what is certain and what may be.
LEMMA BetweenExecuted ==
    ASSUME NEW s \in Scans
    PROVE  /\ Executed(s) \ Undecodable(s) \subseteq References(s, 1) \cup References(s, 2)
           /\ References(s, 1) \cup References(s, 2) \subseteq Executed(s) \cup Undecodable(s)
           /\ Executed(s) \cup Undecodable(s) \subseteq Offsets
<1>1. CASE s = "global"
  <2>1. Executed(s) \subseteq References(s, 1) \cup References(s, 2)
    <3> SUFFICES ASSUME NEW i \in Executed(s)
                 PROVE  i \in References(s, 1) \/ i \in References(s, 2)
      OBVIOUS
    <3>1. /\ i \in Offsets /\ global # Undecoded /\ (Op(i) = "store" \/ Op(i) = "load")
          /\ \E h \in HighBefore(text[i].base, i, Distance, Writers) : <<h, text[i].disp>> = global
      BY <1>1 DEF Executed
    <3>2. \E h \in HighBefore(text[i].base, i, Distance, Decoded) : <<h, text[i].disp>> = global
      BY <3>1, AccessesDecoded
    <3> QED BY <1>1, <3>1, <3>2 DEF References
  <2>2. ASSUME NEW p \in 1..2, NEW i \in References(s, p)
        PROVE  i \in Executed(s) \cup Undecodable(s)
    <3>1. /\ i \in Offsets /\ global # Undecoded /\ Op(i) \in {"store", "load"}
          /\ \E h \in HighBefore(text[i].base, i, Distance, Decoded) : <<h, text[i].disp>> = global
      BY <1>1 DEF References
    <3> QED BY <1>1, <3>1, AccessesDecoded DEF Executed, Undecodable
  <2>3. Executed(s) \cup Undecodable(s) \subseteq Offsets
    BY <1>1 DEF Executed, Undecodable
  <2> QED BY <2>1, <2>2, <2>3
<1>2. CASE s # "global"
  BY <1>2 DEF Executed, Undecodable, References, Scans
<1> QED BY <1>1, <1>2

\* The totals stay complete when details are truncated, for every text and
\* every limit: at the end of a scan each reference by an instruction that it
\* decodes has been counted once, in the predicate matrix too, and the count
\* differs from what an execution would reach only where the scan cannot tell
\* (kernel/main.c:351-365, 546-646).
THEOREM CountsCompleteHolds == Spec => []CountsComplete
<1>1. IInv /\ TableInv /\ CountInv => CountsComplete
  <2> SUFFICES ASSUME IInv, TableInv, CountInv, NEW s \in Scans, phase = Successor[s]
               PROVE  /\ total[s] = Cardinality(References(s, 1)) + Cardinality(References(s, 2))
                      /\ overflow[s] + Len(refs[s]) = total[s]
                      /\ s = "direct" => \A p \in Predicates :
                             predicateCount[p] =
                                 Cardinality({i \in References(s, 1) \cup References(s, 2) : text[i].to = p})
                      /\ Cardinality(Executed(s) \ Undecodable(s)) <= total[s]
                      /\ total[s] <= Cardinality(Executed(s) \cup Undecodable(s))
    BY DEF CountsComplete
  <2>1. phase \in AfterScan[s]
    BY DEF Successor, AfterScan, Scans
  <2>2. Seen(s, 1) = References(s, 1) /\ Seen(s, 2) = References(s, 2)
    BY <2>1 DEF Seen, Passed
  <2>3. overflow[s] + Len(refs[s]) = total[s]
    BY DEF IInv, Retained
  <2>4. s = "direct" => \A p \in Predicates :
            CallsSeen(p) = {i \in References(s, 1) \cup References(s, 2) : text[i].to = p}
    BY <2>2 DEF CallsSeen
  <2>5. total[s] = Cardinality(References(s, 1)) + Cardinality(References(s, 2))
    BY <2>2 DEF CountInv
  <2> DEFINE counted == References(s, 1) \cup References(s, 2)
             may     == Executed(s) \cup Undecodable(s)
             certain == Executed(s) \ Undecodable(s)
  <2>6. Cardinality(counted) = total[s]
    <3>1. IsFiniteSet(References(s, 1)) /\ IsFiniteSet(References(s, 2))
      BY ReferencesFinite
    <3>2. References(s, 1) \cap References(s, 2) = {} /\ Cardinality({}) = 0
      BY KindsDisjoint, FS_EmptySet
    <3>3. Cardinality(References(s, 1)) \in Nat /\ Cardinality(References(s, 2)) \in Nat
      BY <3>1, FS_CardinalityType
    <3>4. Cardinality(counted) = Cardinality(References(s, 1)) + Cardinality(References(s, 2))
                                   - Cardinality(References(s, 1) \cap References(s, 2))
      BY <3>1, FS_Union
    <3>5. Cardinality(References(s, 1) \cap References(s, 2)) = 0
      BY <3>2
    <3> HIDE DEF counted
    <3> QED BY <2>5, <3>3, <3>4, <3>5
  <2>7. IsFiniteSet(may)
    <3>1. IsFiniteSet(Offsets)
      BY FS_Interval, ScanAssumption DEF Offsets
    <3>2. may \in SUBSET Offsets
      BY BetweenExecuted
    <3> QED BY <3>1, <3>2, FS_Subset
  <2>8. counted \in SUBSET may /\ certain \in SUBSET counted
    BY BetweenExecuted
  <2>9. IsFiniteSet(counted)
    BY <2>7, <2>8, FS_Subset
  <2>10. Cardinality(certain) <= Cardinality(counted) /\ Cardinality(counted) <= Cardinality(may)
    BY <2>7, <2>8, <2>9, FS_Subset
  <2> QED BY <2>2, <2>3, <2>4, <2>5, <2>6, <2>10 DEF CountInv
<1> QED BY CountHolds, <1>1, PTL

\* The records kept are the ones to keep: each is of a reference and there
\* once, none is dropped while there is room, and none of the second kind is
\* kept while one of the first is dropped (kernel/main.c:546-646).
THEOREM PriorityKeptHolds == Spec => []PriorityKept
<1>1. IInv /\ TableInv /\ CountInv => PriorityKept
  <2> SUFFICES ASSUME IInv, TableInv, CountInv, NEW s \in Scans
               PROVE  /\ \A p \in 1..2 : Sources(s, p) \subseteq References(s, p)
                      /\ Cardinality(Sources(s, 1)) + Cardinality(Sources(s, 2)) = Len(refs[s])
                      /\ overflow[s] > 0 => Len(refs[s]) = Capacity(s)
                      /\ Sources(s, 2) # {} => Sources(s, 1) = References(s, 1)
    BY DEF PriorityKept
  <2>1. \A p \in 1..2 : Seen(s, p) \subseteq References(s, p)
    BY DEF Seen
  <2>2. overflow[s] > 0 => Len(refs[s]) = Capacity(s)
    BY DEF IInv, Retained
  <2> QED BY <2>1, <2>2 DEF CountInv
<1> QED BY CountHolds, <1>1, PTL
=============================================================================
