------------------------------ MODULE MCPlayer ------------------------------
(* Small instances of Player for TLC.                                      *)
EXTENDS PlayerProperties, TLC

CONSTANTS r1, s1, s2, s3

OneRequest  == {r1}
OneSink     == {s1}
TwoSinks    == {s1, s2}
ThreeSinks  == {s1, s2, s3}

RankOne   == s1 :> 1
RankTwo   == s1 :> 1 @@ s2 :> 2
RankThree == s1 :> 1 @@ s2 :> 2 @@ s3 :> 3

JustS2 == {s2}
JustS3 == {s3}
=============================================================================
