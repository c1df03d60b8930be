-------------------------------- MODULE Lists --------------------------------
(***************************************************************************)
(* The loops of the program over its lists.  A loop is written as what the *)
(* members of a list, one after the other, make of what there was before;  *)
(* the function in it is one that can be reasoned about.                   *)
(***************************************************************************)
EXTENDS Integers, Sequences, FiniteSets

\* What the members of s, one after the other, make of base.
Through(base, s, Step(_, _)) ==
  LET upTo[n \in 0..Len(s)] ==
        IF n = 0 THEN base ELSE Step(upTo[n - 1], s[n])
  IN  upTo[Len(s)]

\* The lists of the members of the finite set S, each of them once.
Orders(S) ==
  {s \in [1..Cardinality(S) -> S] :
     /\ \A x \in S : \E i \in DOMAIN s : s[i] = x
     /\ \A i, j \in DOMAIN s : s[i] = s[j] => i = j}

\* The members of s that are in E, in their order.
Only(s, E) ==
  Through(<<>>, s, LAMBDA kept, x : IF x \in E THEN Append(kept, x) ELSE kept)
=============================================================================
