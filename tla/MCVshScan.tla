------------------------------ MODULE MCVshScan ------------------------------
(* A small instance of VshScan for TLC: five words of text with every      *)
(* sequence of three instructions after the words at the target, and four   *)
(* words of import table with every descriptor at every offset.             *)
EXTENDS VshScan

CONSTANTS v0, zero, lib, sysmem, nid, otherNid, stub, otherStub

Lui(h)    == [op |-> "lui", rt |-> v0, imm |-> h]
Load      == [op |-> "load", base |-> v0, rt |-> v0, disp |-> 0]
Store     == [op |-> "store", base |-> v0, rt |-> zero, disp |-> 0]
Alu       == [op |-> "alu", rt |-> v0]
Unknown   == [op |-> "unknown", rt |-> v0]
Jump(o, t) == [op |-> o, to |-> t]
Plain     == [op |-> "other"]

Instructions == {Lui(0), Lui(1), Load, Store, Alu, Jump("jal", 0), Jump("j", 3),
                 Jump("jal", 2), Jump("j", 2), Unknown, Jump("jalr", 0)}

AtTarget == {<<Lui(0), Load>>, <<Plain, Jump("jal", 3)>>}

TextsMC == {[i \in 0..4 |-> IF i < 2 THEN a[i + 1] ELSE rest[i]] :
            a \in AtTarget, rest \in [2..4 -> Instructions]}

Imports(l, name, named, ok, nids, stubs) ==
    [len |-> l, lib |-> name, named |-> named, valid |-> ok, nids |-> nids, stubs |-> stubs]

Descriptors ==
    {Imports(l, sysmem, TRUE, FALSE, <<>>, <<>>) : l \in 0..3} \cup
    {Imports(2, lib, TRUE, TRUE, <<otherNid, nid>>, <<stub, otherStub>>),
     Imports(2, sysmem, TRUE, FALSE, <<nid>>, <<stub>>),
     Imports(2, sysmem, TRUE, TRUE, <<nid, otherNid>>, <<otherStub, stub>>),
     Imports(3, lib, FALSE, TRUE, <<otherNid>>, <<stub>>)}

TablesMC == [valid : {TRUE}, entries : [0..3 -> Descriptors]]

PlainText  == [i \in 0..4 |-> Plain]
PlainTable == [valid |-> FALSE, entries |-> [i \in 0..3 |-> Imports(2, lib, TRUE, FALSE, <<>>, <<>>)]]

ModulesMC == [text : TextsMC, table : {PlainTable}] \cup [text : {PlainText}, table : TablesMC]

TwoLibraries == {lib, sysmem}
TwoNids      == {nid, otherNid}
TwoStubs     == {stub, otherStub}
ModelNids    == {otherNid}
TwoPredicates == {0, 3}
=============================================================================
