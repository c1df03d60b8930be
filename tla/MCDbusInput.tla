---------------------------- MODULE MCDbusInput -----------------------------
(* Small instances of DbusInput for TLC.                                   *)
EXTENDS DbusInput

CONSTANTS c1, c2, r1, r2, r3

TwoClients    == {c1, c2}
ThreeRequests == {r1, r2, r3}
=============================================================================
