------------------------- MODULE MCContextTrackers -------------------------
(* Small instances of ContextTrackers for TLC.                             *)
EXTENDS ContextTrackers

MceAndOhm   == {"mce", "ohm"}
TwoProfiles == {"general", "silent"}

\* Off, on, and beyond the table.
SomeLevels == {0, 1, 3}
ShortTable == <<0, 50, 100>>
=============================================================================
