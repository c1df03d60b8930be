---------------------------- MODULE MCCoreDbus ----------------------------
(* Small instances of CoreDbus for TLC.                                    *)
EXTENDS CoreDbus, TLC

CONSTANTS system, session, k1, k2, f1, f2

BothBuses == {system, session}
TwoKeys   == {k1, k2}
TwoCbs    == {f1, f2}

Symmetry == Permutations({k1, k2}) \cup Permutations({f1, f2})
=============================================================================
