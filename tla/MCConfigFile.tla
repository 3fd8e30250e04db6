----------------------------- MODULE MCConfigFile ----------------------------
(* Small instances of ConfigFile for TLC.                                   *)
EXTENDS ConfigFile

SlidePlugin == "[SlidePlugin]"
PowerSave   == "[PowerSave]"

TwoSections == {SlidePlugin, PowerSave}
ThreeKeys   == {"Contrast=", "StartBtn=", "LED="}
TwoKeys     == {"Contrast=", "StartBtn="}

SomeValues == {<<"x">>, <<"y", quote, ";">>, <<"y", " ">>}

\* The section is there with both keys and comments, last, first, or not at all.
Files == {
    Absent,
    <<PowerSave, nl, "LED=", "y", nl>>,
    <<PowerSave, nl, "LED=", " ", "y", nl, nl,
      SlidePlugin, nl, "StartBtn=", "x", " ", ";", "y", nl, "#", "x", nl, "Contrast=", "y", nl>>,
    <<SlidePlugin, nl, "StartBtn=", "y", nl, nl, PowerSave, nl, "LED=", "x", nl>>,
    <<PowerSave, nl, "LED=", "x", nl, nl, SlidePlugin, nl, "StartBtn=", "y", nl>> }

\* The last line has no end.  What a crash has left in the temporary file may be
\* joined to it (ConfigTail).
OpenFiles == {
    <<PowerSave, nl, "LED=", "y">>,
    <<SlidePlugin, nl, "Contrast=", "x", nl, "StartBtn=", "y">>,
    <<PowerSave, nl, "LED=", "y", nl, SlidePlugin>> }

AllFiles == Files \cup OpenFiles
=============================================================================
