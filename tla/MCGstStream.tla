----------------------------- MODULE MCGstStream -----------------------------
(* Small instances of GstStream for TLC.                                   *)
EXTENDS GstStream, TLC

CONSTANTS r1, r2, c1, c2

OneRequest  == {r1}
TwoRequests == {r1, r2}
OneCell     == {c1}
TwoCells    == {c1, c2}

\* Every setting, for one stream at a time.
EverySetting == Setting

Plain == [enabled |-> TRUE, repeat |-> FALSE, delay |-> FALSE,
          delayStop |-> FALSE, fadePause |-> FALSE, fadeResume |-> FALSE,
          fadeStop |-> FALSE]

\* What tells the ways to stop apart.
StopSettings ==
  {Plain, [Plain EXCEPT !.delayStop = TRUE],
   [Plain EXCEPT !.fadeStop = TRUE], [Plain EXCEPT !.enabled = FALSE]}

Symmetry == Permutations({r1, r2}) \cup Permutations({c1, c2})
=============================================================================
