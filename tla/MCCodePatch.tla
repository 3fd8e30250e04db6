----------------------------- MODULE MCCodePatch -----------------------------
(* A small instance of CodePatch for TLC.                                   *)
EXTENDS CodePatch

\* One firmware of which nids lacks NIDs, one that is not in it, and one of the
\* others, which differ in nothing but the NIDs.
ThreeFirmwares == {"5.70", "6.60", "other"}

TwoAddresses == {"A", "B"}
=============================================================================
