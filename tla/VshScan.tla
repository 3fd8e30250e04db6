------------------------------- MODULE VshScan -------------------------------
(***************************************************************************)
(* The evidence zeroCtrlRecordVshSlideTarget (kernel/main.c) takes from    *)
(* the text of vsh_module: the shared global its predicate reads, the      *)
(* library and NID of one import stub, and three scans, each of two passes *)
(* over the text, that count every reference and retain the first few.     *)
(* One step is one turn of a loop.  What SlideDiag does in RecordCode is   *)
(* this whole module.                                                      *)
(*                                                                         *)
(* Offsets are in words.  An address (hi << 16) + sign_extend(lo) is the   *)
(* pair <<hi, lo>>, which it determines and which determines it; the       *)
(* opcodes the scans tell apart are "jal", "j", "lui", "load", "store",    *)
(* "alu" (the other ones that zeroCtrlInstructionWritesRegister knows) and *)
(* the rest, which they do not decode: "unknown", which writes a register, *)
(* "jalr", which calls what a register holds, and "other".                 *)
(***************************************************************************)
EXTENDS ImportTable, FiniteSets

CONSTANTS
    Modules,        \* modules as loaded: their text and their import table
    Words,          \* text_size, in words
    Predicates,     \* vsh_predicate_offsets
    Target,         \* the offset of the predicate that reads the global
    Initializer,    \* VSH_STATE_INITIALIZER_CANDIDATE
    Limit,          \* VSH_REFERENCE_LIMIT
    StateLimit,     \* VSH_STATE_TRACE_LIMIT
    Before, After,  \* the window about a reference, in words
    Distance,       \* how far back the LUI of an access is looked for
    Zero            \* the register that is always zero

ASSUME ScanAssumption ==
    /\ Words \in Nat /\ Target \in 0..(Words - 1)
    /\ Predicates \subseteq Nat /\ Initializer \in Nat
    /\ Limit \in Nat /\ StateLimit \in Nat
    /\ Before \in Nat /\ After \in Nat \ {0} /\ Distance \in Nat

Offsets == 0..(Words - 1)

\* No compiler loads a constant into the register that stays zero; the scan,
\* unlike the processor, would take such a LUI for the base of an access.
ASSUME ModulesAssumption ==
    /\ Modules \subseteq [text : {m.text : m \in Modules}, table : Table]
    /\ \A m \in Modules : \A i \in Offsets :
           m.text[i].op = "lui" => m.text[i].rt # Zero

VARIABLES
    text,           \* the instructions of the text
    global,         \* vsh_shared_global_addr, when its decoding is valid
    pass,           \* 1 or 2, in the order of the code
    offset,         \* where the pass is
    total,          \* vsh_..._reference_total of each scan
    overflow,       \* vsh_..._reference_overflow
    refs,           \* vsh_..._references, up to vsh_..._reference_count
    predicateCount  \* vsh_predicate_reference_count

vars == <<tableVars, text, global, pass, offset, total, overflow, refs, predicateCount>>

Scans == {"direct", "global", "state"}

Phases == Scans \cup {"derive", "resolve", "hook", "hooked", "done"}

Undecoded == <<>>

Capacity(scan) == IF scan = "state" THEN StateLimit ELSE Limit

TypeOK ==
    /\ TableTypeOK
    /\ [text |-> text, table |-> table] \in Modules
    /\ phase \in Phases
    /\ pass \in 1..2
    /\ offset \in 0..Words
    /\ total \in [Scans -> Nat]
    /\ overflow \in [Scans -> Nat]
    /\ \A s \in Scans : /\ Len(refs[s]) <= Capacity(s)
                        /\ \A i \in DOMAIN refs[s] : refs[s][i].source \in Offsets
    /\ predicateCount \in [Predicates -> Nat]

\* A start of vsh_module is recorded, or an import of a module is hooked.
Init ==
    /\ \E m \in Modules : text = m.text /\ table = m.table
    /\ \/ phase = "derive"
       \/ phase = "hook" /\ table.valid /\ Linked(table)
    /\ TableInit
    /\ global = Undecoded
    /\ pass = 1 /\ offset = 0
    /\ total = [s \in Scans |-> 0]
    /\ overflow = [s \in Scans |-> 0]
    /\ refs = [s \in Scans |-> <<>>]
    /\ predicateCount = [p \in Predicates |-> 0]

-----------------------------------------------------------------------------

Op(i) == text[i].op

WritesRegister(i, r) ==
    /\ r # Zero
    /\ Op(i) \in {"lui", "load", "alu"}
    /\ text[i].rt = r

\* zeroCtrlDeriveVshSharedGlobal: a LUI and a load through its register.
Derive ==
    /\ phase = "derive"
    /\ global' = IF /\ Words - Target >= 2
                    /\ Op(Target) = "lui" /\ Op(Target + 1) = "load"
                    /\ text[Target + 1].base = text[Target].rt
                   THEN <<text[Target].imm, text[Target + 1].disp>>
                   ELSE Undecoded
    /\ phase' = "resolve"
    /\ UNCHANGED <<table, at, matched, hooked, text, pass, offset,
                   total, overflow, refs, predicateCount>>

ScanVars == <<text, global, pass, offset, total, overflow, refs, predicateCount>>

-----------------------------------------------------------------------------

IsLuiOf(i, base) == Op(i) = "lui" /\ text[i].rt = base

\* Mutant: the search goes on past a write of the register.
LuiBeforeAnyWrite(i) ==
    {i - d : d \in {d \in 1..Distance :
        /\ d <= i /\ IsLuiOf(i - d, text[i].base)
        /\ \A e \in 1..(d - 1) : ~IsLuiOf(i - e, text[i].base)}}

\* The LUI, if any, at which the backward search from an access ends.
LuiBefore(i) ==
    {i - d : d \in {d \in 1..Distance :
        /\ d <= i /\ IsLuiOf(i - d, text[i].base)
        /\ \A e \in 1..(d - 1) : /\ ~IsLuiOf(i - e, text[i].base)
                                 /\ ~WritesRegister(i - e, text[i].base)}}

AccessesGlobal(i) == \E l \in LuiBefore(i) : <<text[l].imm, text[i].disp>> = global

\* Mutant: J before JAL.
IsReferenceJumpsFirst(scan, p, i) ==
    CASE scan = "direct" -> Op(i) = <<"j", "jal">>[p] /\ text[i].to \in Predicates
      [] scan = "state"  -> Op(i) = <<"j", "jal">>[p] /\ text[i].to = Initializer
      [] scan = "global" -> Op(i) = <<"store", "load">>[p] /\ AccessesGlobal(i)

\* What a pass of a scan counts: JAL before J, and stores before loads.
IsReference(scan, p, i) ==
    CASE scan = "direct" -> Op(i) = <<"jal", "j">>[p] /\ text[i].to \in Predicates
      [] scan = "state"  -> Op(i) = <<"jal", "j">>[p] /\ text[i].to = Initializer
      [] scan = "global" -> Op(i) = <<"store", "load">>[p] /\ AccessesGlobal(i)

\* Mutant: the end is not clamped to the text.
WindowUnclamped(i) ==
    [start |-> IF i > Before THEN i - Before ELSE 0, end |-> i + After]

\* zeroCtrlCaptureVshReferenceWindow.
Window(i) ==
    [start |-> IF i > Before THEN i - Before ELSE 0,
     end   |-> IF Words - i < After THEN Words ELSE i + After]

Reference(p, i) == [source |-> i, kind |-> p, window |-> Window(i)]

\* The global scan does not store the word at an offset twice.
Stored(scan, i) == scan = "global" /\ \E k \in DOMAIN refs[scan] : refs[scan][k].source = i

\* Mutant: one record more than the array holds.
RetainOne(scan, p, i) ==
    IF Len(refs[scan]) <= Capacity(scan) /\ ~Stored(scan, i)
      THEN refs' = [refs EXCEPT ![scan] = Append(@, Reference(p, i))] /\ UNCHANGED overflow
      ELSE overflow' = [overflow EXCEPT ![scan] = @ + 1] /\ UNCHANGED refs

Retain(scan, p, i) ==
    IF Len(refs[scan]) < Capacity(scan) /\ ~Stored(scan, i)
      THEN refs' = [refs EXCEPT ![scan] = Append(@, Reference(p, i))] /\ UNCHANGED overflow
      ELSE overflow' = [overflow EXCEPT ![scan] = @ + 1] /\ UNCHANGED refs

CountPredicate(scan, i) ==
    predicateCount' = IF scan = "direct"
                        THEN [predicateCount EXCEPT ![text[i].to] = @ + 1]
                        ELSE predicateCount

\* One word of a pass.
Visit(scan) ==
    /\ phase = scan
    /\ scan # "global" \/ global # Undecoded
    /\ offset < Words
    /\ IF IsReference(scan, pass, offset)
         THEN /\ total' = [total EXCEPT ![scan] = @ + 1]
              /\ CountPredicate(scan, offset)
              /\ Retain(scan, pass, offset)
         ELSE UNCHANGED <<total, overflow, refs, predicateCount>>
    /\ offset' = offset + 1
    /\ UNCHANGED <<tableVars, text, global, pass>>

FirstOffset(scan) == IF scan = "global" THEN 1 ELSE 0

SecondPass(scan) ==
    /\ phase = scan
    /\ offset = Words /\ pass = 1
    /\ pass' = 2 /\ offset' = FirstOffset(scan)
    /\ UNCHANGED <<tableVars, text, global, total, overflow, refs, predicateCount>>

Successor == [direct |-> "global", global |-> "state", state |-> "done"]

\* After the second pass, or at once when there is no global to look for.
NextScan(scan) ==
    /\ phase = scan
    /\ \/ offset = Words /\ pass = 2
       \/ scan = "global" /\ global = Undecoded
    /\ phase' = Successor[scan]
    /\ pass' = 1
    /\ offset' = IF scan = "direct" THEN FirstOffset("global") ELSE 0
    /\ UNCHANGED <<table, at, matched, hooked, text, global,
                   total, overflow, refs, predicateCount>>

Scan(scan) == Visit(scan) \/ SecondPass(scan) \/ NextScan(scan)

Next ==
    \/ Derive
    \/ (Resolve \/ Hook) /\ UNCHANGED ScanVars
    \/ \E s \in Scans : Scan(s)

Spec == Init /\ [][Next]_vars

\* The readers are loops of one thread, which goes on running.
FairSpec == Spec /\ WF_vars(Next)

-----------------------------------------------------------------------------
(* What the evidence is worth.                                              *)

\* The opcodes that write a register, as far as the scans decode them and all.
Decoded == {"lui", "load", "alu"}
Writers == Decoded \cup {"unknown"}

\* What a LUI has left in register r just before i, when the last d
\* instructions are executed one after the other and those of ops write.
HighBefore(r, i, d, ops) ==
    LET writes == {j \in Offsets : j < i /\ i - j <= d /\ r # Zero
                                   /\ Op(j) \in ops /\ text[j].rt = r}
    IN  {text[j].imm : j \in {j \in writes : Op(j) = "lui" /\ \A k \in writes : k <= j}}

\* The references by the instructions that the scans decode.
References(scan, p) ==
    CASE scan = "direct" -> {i \in Offsets : Op(i) = <<"jal", "j">>[p] /\ text[i].to \in Predicates}
      [] scan = "state"  -> {i \in Offsets : Op(i) = <<"jal", "j">>[p] /\ text[i].to = Initializer}
      [] scan = "global" -> {i \in Offsets :
            /\ global # Undecoded /\ Op(i) = <<"store", "load">>[p]
            /\ \E h \in HighBefore(text[i].base, i, Distance, Decoded) :
                   <<h, text[i].disp>> = global}

\* The references by all instructions: a call through a register is one, and
\* an access through a register that any instruction has written since the LUI
\* is none.
Executed(scan) ==
    CASE scan = "direct" ->
            {i \in Offsets : Op(i) \in {"jal", "j", "jalr"} /\ text[i].to \in Predicates}
      [] scan = "state"  ->
            {i \in Offsets : Op(i) \in {"jal", "j", "jalr"} /\ text[i].to = Initializer}
      [] scan = "global" ->
            {i \in Offsets :
                /\ global # Undecoded /\ Op(i) \in {"store", "load"}
                /\ \E h \in HighBefore(text[i].base, i, Distance, Writers) :
                       <<h, text[i].disp>> = global}

\* Where the scans cannot tell.
Undecodable(scan) ==
    IF scan = "global"
      THEN {i \in Offsets :
               /\ Op(i) \in {"store", "load"}
               /\ \E j \in Offsets : /\ j < i /\ i - j <= Distance
                                     /\ Op(j) = "unknown" /\ text[j].rt = text[i].base}
      ELSE {i \in Offsets : Op(i) = "jalr"}

Sources(scan, p) ==
    {refs[scan][k].source : k \in {k \in DOMAIN refs[scan] : refs[scan][k].kind = p}}

\* The totals stay complete when details are truncated
\* (docs/phase3-vsh-trigger-analysis.md:78-80): every reference by the
\* instructions that the scans decode is counted once, in the matrix too.
\* The scans are "conservative, not complete MIPS data-flow analysis" (145-149)
\* and do not see a JALR (113-114): the count differs from what an execution
\* would reach from a LUI near by in nothing but calls through a register, which
\* it leaves out, and accesses behind a write of their base that is not decoded,
\* which it takes in.
CountsComplete ==
    \A s \in Scans : phase = Successor[s] =>
        /\ total[s] = Cardinality(References(s, 1)) + Cardinality(References(s, 2))
        /\ overflow[s] + Len(refs[s]) = total[s]
        /\ s = "direct" => \A p \in Predicates :
               predicateCount[p] =
                   Cardinality({i \in References(s, 1) \cup References(s, 2) : text[i].to = p})
        /\ Cardinality(Executed(s) \ Undecodable(s)) <= total[s]
        /\ total[s] <= Cardinality(Executed(s) \cup Undecodable(s))

\* The records kept are the ones to keep: no record is of something that is no
\* reference as the scan decodes it, or there twice, nothing is dropped while
\* there is room, and none of the second kind is kept while one of the first is
\* dropped.
PriorityKept ==
    \A s \in Scans :
        /\ \A p \in 1..2 : Sources(s, p) \subseteq References(s, p)
        /\ Cardinality(Sources(s, 1)) + Cardinality(Sources(s, 2)) = Len(refs[s])
        /\ overflow[s] > 0 => Len(refs[s]) = Capacity(s)
        /\ Sources(s, 2) # {} => Sources(s, 1) = References(s, 1)

\* A window is never longer than its array, lies in the text, and holds the
\* reference it is about.
WindowsClamped ==
    \A s \in Scans : \A k \in DOMAIN refs[s] :
        LET w == refs[s][k].window
        IN  /\ 0 <= w.start /\ w.end <= Words
            /\ w.start <= refs[s][k].source /\ refs[s][k].source < w.end
            /\ w.end - w.start <= Before + After

\* The walk of main.c stops at a stub it can reach through descriptors that
\* pass its tests, and does not miss one.
MatchGenuine ==
    phase = "direct" =>
        LET Fit(c) == /\ table.valid /\ c + HeaderWords <= Size
                      /\ table.entries[c].len >= MinWords
                      /\ c + table.entries[c].len <= Size
            Has(c) == table.entries[c].valid /\ \E i \in DOMAIN table.entries[c].stubs :
                          table.entries[c].stubs[i] = TargetStub
            Reached == {c \in 0..(Size - 1) : WalkTo(c, Fit) /\ Fit(c) /\ Has(c)}
        IN  /\ matched.found <=> Reached # {}
            /\ matched.found => \E c \in Reached :
                   /\ \A b \in Reached : c <= b
                   /\ table.entries[c].stubs[matched.index] = TargetStub
                   /\ table.entries[c].nids[matched.index] = matched.nid

\* hook_import_bynid patches the stub of that NID of that library, and fails
\* only when the first descriptor of the library has no such import: in a table
\* whose descriptors fill it exactly, the only kind its walk is started on.
HookedIsImport ==
    LET Other(c) == table.entries[c].lib # Library
        First == {c \in 0..(Size - 1) : ~Other(c) /\ WalkTo(c, Other)}
        Links(c, f) == \E i \in DOMAIN table.entries[c].nids :
                               /\ table.entries[c].nids[i] = Nid
                               /\ table.entries[c].stubs[i] = f
    IN  phase = "hooked" =>
            IF hooked # NoStub THEN \E c \in First : Links(c, hooked)
            ELSE \A c \in First : \A f \in Stubs : ~Links(c, f)

\* The reader of main.c finds the import it is asked for, or rightly none, in
\* any table, and the reader of hook.c in the tables that the loader leaves
\* (Linked): its walk tests no length, and would leave another table or go on
\* for ever (main.c:423-500, hook.c:52-81, 99-125).
ImportsGenuine == MatchGenuine /\ HookedIsImport

\* Whatever the table holds, a descriptor of no length included, the reader of
\* main.c comes to its end, and so do the scans behind it (main.c:436-457). The
\* reader of hook.c does on tables whose descriptors fill them exactly; on a
\* descriptor of no length it would not (hook.c:60-76), and no such table is
\* given to it.
ReadersEnd == <>(phase \in {"done", "hooked"})
=============================================================================
