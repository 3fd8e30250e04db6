----------------------------- MODULE MCSlideDiag -----------------------------
(* Small instances of SlideDiag for TLC.                                    *)
EXTENDS SlideDiag

TwoResults == {0, -1}
OneResult  == {-1}
=============================================================================
