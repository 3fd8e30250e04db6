----------------------------- MODULE ImportTable -----------------------------
(***************************************************************************)
(* The two walks of a loaded module's import table: find_import_lib and    *)
(* find_import_bynid (kernel/hook.c), which trust the table, and           *)
(* zeroCtrlResolveVshStateImport (kernel/main.c), which validates each     *)
(* descriptor before it uses it.                                           *)
(*                                                                         *)
(* A table is Size words of memory.  A descriptor has its length in words, *)
(* so any offset may be taken for the start of one; table.entries gives    *)
(* what is read at each.  Addresses and ranges appear as what the code     *)
(* tests of them.  table.valid: the module is the one recorded, its table  *)
(* is aligned and lies in a segment.  valid, of a descriptor: so do its    *)
(* two arrays, and they are not empty.  named: its library's name ends     *)
(* inside a segment.                                                       *)
(***************************************************************************)
EXTENDS Integers, Sequences

CONSTANTS
    Size,           \* stub_size, in words
    HeaderWords,    \* the words read before a descriptor's length is known
    MinWords,       \* the words of the shortest descriptor
    Libraries,      \* library names
    Nids,
    Stubs,          \* function stubs of the module
    TargetStub,     \* the stub zeroCtrlResolveVshStateImport looks for
    Library, Nid,   \* the import hook_import_bynid looks for
    GetModelLibrary, GetModelNids

NoStub == "none"

ASSUME TableAssumption ==
    /\ Size \in Nat
    /\ HeaderWords \in Nat \ {0}
    /\ MinWords \in Nat /\ HeaderWords <= MinWords
    /\ TargetStub \in Stubs /\ NoStub \notin Stubs
    /\ Library \in Libraries /\ GetModelLibrary \in Libraries
    /\ Nid \in Nids /\ GetModelNids \subseteq Nids

VARIABLES
    table,          \* the table, as the loader left it
    phase,          \* what the reader of the module is doing
    at,             \* the offset of the walk
    matched,        \* what zeroCtrlResolveVshStateImport found
    hooked          \* what find_import_bynid found

tableVars == <<table, phase, at, matched, hooked>>

\* stubcount is the number of both its NIDs and its stubs.
Entry == {e \in [len : Nat, lib : Libraries, named : BOOLEAN, valid : BOOLEAN,
                 nids : Seq(Nids), stubs : Seq(Stubs)] : Len(e.nids) = Len(e.stubs)}

Table == [valid : BOOLEAN, entries : [0..(Size - 1) -> Entry]]

NoMatch == [found |-> FALSE]

Found(e, i) ==
    [found |-> TRUE, nid |-> e.nids[i], index |-> i, named |-> e.named,
     getModel |-> e.named /\ e.lib = GetModelLibrary /\ e.nids[i] \in GetModelNids]

Matches == {NoMatch} \cup
    [found : {TRUE}, nid : Nids, index : Nat, named : BOOLEAN, getModel : BOOLEAN]

TableTypeOK ==
    /\ table \in Table
    /\ at \in Nat
    /\ matched \in Matches
    /\ hooked \in Stubs \cup {NoStub}

TableInit ==
    /\ at = 0
    /\ matched = NoMatch
    /\ hooked = NoStub

FirstIn(s, v) == CHOOSE i \in DOMAIN s : s[i] = v /\ \A j \in 1..(i - 1) : s[j] # v

Holds(s, v) == \E i \in DOMAIN s : s[i] = v

-----------------------------------------------------------------------------
(* zeroCtrlResolveVshStateImport, one turn of its loop at a time.           *)

entry == table.entries[at]

\* Mutant: only the header is required of a descriptor.
UsableHeader ==
    /\ table.valid
    /\ at + HeaderWords <= Size
    /\ at + entry.len <= Size

\* Mutant: the walk ends at a descriptor whose arrays are not valid.
UsableValid ==
    /\ table.valid
    /\ at + HeaderWords <= Size
    /\ entry.len >= MinWords
    /\ at + entry.len <= Size
    /\ entry.valid

\* The descriptor at the offset passes every test of its own words.
Usable ==
    /\ table.valid
    /\ at + HeaderWords <= Size
    /\ entry.len >= MinWords
    /\ at + entry.len <= Size

\* The next descriptor, past one with invalid arrays or without the stub.
ResolveSkip ==
    /\ phase = "resolve"
    /\ Usable
    /\ ~(entry.valid /\ Holds(entry.stubs, TargetStub))
    /\ at' = at + entry.len
    /\ UNCHANGED <<table, phase, matched, hooked>>

ResolveMatch ==
    /\ phase = "resolve"
    /\ Usable
    /\ entry.valid /\ Holds(entry.stubs, TargetStub)
    /\ matched' = Found(entry, FirstIn(entry.stubs, TargetStub))
    /\ phase' = "direct"
    /\ UNCHANGED <<table, at, hooked>>

\* The end of the table, or a return because of what was read.
ResolveEnd ==
    /\ phase = "resolve"
    /\ ~Usable
    /\ phase' = "direct"
    /\ UNCHANGED <<table, at, matched, hooked>>

Resolve == ResolveSkip \/ ResolveMatch \/ ResolveEnd

-----------------------------------------------------------------------------
(* hook_import_bynid: find_import_lib, then the search of its NIDs.         *)

HookSkip ==
    /\ phase = "hook"
    /\ at < Size
    /\ entry.lib # Library
    /\ at' = at + entry.len
    /\ UNCHANGED <<table, phase, matched, hooked>>

\* Mutant: the stub of the first import of the library, whatever its NID.
HookFirst ==
    /\ phase = "hook"
    /\ at < Size
    /\ entry.lib = Library
    /\ hooked' = IF entry.stubs # <<>> THEN entry.stubs[1] ELSE NoStub
    /\ phase' = "hooked"
    /\ UNCHANGED <<table, at, matched>>

HookLibrary ==
    /\ phase = "hook"
    /\ at < Size
    /\ entry.lib = Library
    /\ hooked' = IF Holds(entry.nids, Nid)
                   THEN entry.stubs[FirstIn(entry.nids, Nid)] ELSE NoStub
    /\ phase' = "hooked"
    /\ UNCHANGED <<table, at, matched>>

\* The end of the table, which the code recognises only when the walk meets it
\* exactly.
HookEnd ==
    /\ phase = "hook"
    /\ at = Size
    /\ phase' = "hooked"
    /\ UNCHANGED <<table, at, matched, hooked>>

Hook == HookSkip \/ HookLibrary \/ HookEnd

-----------------------------------------------------------------------------

\* The offsets a walk by lengths visits up to b, when each is fit to be left.
WalkTo(b, Fit(_)) ==
    \E B \in SUBSET (0..b) :
        /\ {0, b} \subseteq B
        /\ \A c \in B \ {b} : Fit(c) /\ c + table.entries[c].len \in B

\* The loader's own tables: descriptors of some length that fill the table.
Linked(t) ==
    \E B \in SUBSET (0..Size) :
        /\ {0, Size} \subseteq B
        /\ \A c \in B \ {Size} :
               /\ t.entries[c].len >= MinWords
               /\ c + t.entries[c].len \in B
=============================================================================
