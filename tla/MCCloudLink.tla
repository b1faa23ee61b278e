---------------------------- MODULE MCCloudLink -----------------------------
(* Small instances of CloudLink for TLC.                                   *)
EXTENDS CloudLink

OneType == {0}
OneSection == <<"TARGET">>
TwoSections == <<"TARGET", "AIR">>
NoSections == <<>>
NoTypes == {}
=============================================================================
