----------------------------- MODULE MCRedirect -----------------------------
(* A small instance of Redirect for TLC: a font and a resource with one     *)
(* name in two directories, a file without a usable name and one of a kind  *)
(* that is not redirected.                                                  *)
EXTENDS Redirect

CONSTANTS t1, t2, font, rco, rcoElsewhere, codepage, plain, u1, u2, minus1

TwoThreads   == {t1, t2}
AllFiles     == {font, rcoElsewhere, codepage, plain}
OnFlash      == {font, codepage}
AllNames     == {font, rco}
BaseOf       == [f \in AllFiles |-> IF f = font THEN font ELSE rco]
HasType      == {font, rcoElsewhere, codepage}
HasName      == {font, rcoElsewhere, plain}
TwoUids      == {u1, u2}
=============================================================================
