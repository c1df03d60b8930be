------------------------------- MODULE MCSinks -------------------------------
(* Small instances of Sinks for TLC.                                       *)
EXTENDS Sinks, TLC

CONSTANTS r1, r2, p1, p2

TwoRequests == {r1, r2}
AllDevices  == {"canberra", "mce", "immvibe", "ffmemless", "tonegen"}
TwoSamples  == {"beep", "click"}
TwoPatterns == {p1, p2}
TwoEffects  == {1, 2}
OneName     == {"strong"}
ThreeSlots  == 0..2

Symmetry == Permutations({r1, r2}) \cup Permutations({p1, p2})
=============================================================================
