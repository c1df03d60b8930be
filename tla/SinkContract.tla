---------------------------- MODULE SinkContract ----------------------------
(***************************************************************************)
(* What the core promises to one sink that has a prepare function: in      *)
(* which order it calls prepare, play, pause and stop for one attempt at a *)
(* request, and what the calls of the sink do to the attempt.  The models  *)
(* of the sinks are built on it, and Player implements it for every sink.  *)
(***************************************************************************)
CONSTANT Requests   \* attempts: a fallback is an attempt of its own

VARIABLES
  phase,    \* how far the core has come with the attempt
  paused,   \* attempts that are paused
  played    \* attempts for which play was called

contractVars == <<phase, paused, played>>

Phases == {"none", "preparing", "prepared", "playing", "ending", "gone"}

\* The sink has been prepared for the attempt and has not been stopped yet.
Held(r) == phase[r] \in {"preparing", "prepared", "playing", "ending"}

ContractInit ==
  /\ phase = [r \in Requests |-> "none"]
  /\ paused = {} /\ played = {}

\* prepare returned TRUE.  A sink that is prepared later may fail and end the
\* attempt at once.
Prepares(r) ==
  /\ phase[r] = "none"
  /\ \E p \in {"preparing", "ending"} : phase' = [phase EXCEPT ![r] = p]
  /\ UNCHANGED <<paused, played>>

\* prepare returned TRUE after the sink had called synchronize in it.
PreparesPrompt(r) ==
  /\ phase[r] = "none"
  /\ \E p \in {"prepared", "ending"} : phase' = [phase EXCEPT ![r] = p]
  /\ UNCHANGED <<paused, played>>

\* prepare returned FALSE, or was never called: stop will not be called.
Refused(r) ==
  /\ phase[r] = "none"
  /\ phase' = [phase EXCEPT ![r] = "gone"]
  /\ UNCHANGED <<paused, played>>

\* All sinks are ready and play is called.  A sink that is played later may
\* fail and end the attempt.
Plays(r) ==
  /\ phase[r] = "prepared"
  /\ \E p \in {"playing", "ending"} : phase' = [phase EXCEPT ![r] = p]
  /\ played' = played \cup {r}
  /\ UNCHANGED paused

\* pause and the play of a resume come at any time between prepare and stop.
Pauses(r) ==
  /\ Held(r) /\ r \notin paused
  /\ paused' = paused \cup {r}
  /\ UNCHANGED <<phase, played>>

Resumes(r) ==
  /\ Held(r) /\ r \in paused
  /\ paused' = paused \ {r}
  /\ played' \in {played, played \cup {r}}
  /\ UNCHANGED phase

\* Attempts end: one is stopped or timed out, completed by all its sinks or
\* failed by one; or all are stopped.
Ends(R) ==
  /\ \A r \in R : Held(r)
  /\ phase' = [r \in Requests |-> IF r \in R THEN "ending" ELSE phase[r]]
  /\ UNCHANGED <<paused, played>>

\* The done source stops the sinks and frees the request.
Stops(r) ==
  /\ phase[r] = "ending"
  /\ phase' = [phase EXCEPT ![r] = "gone"]
  /\ paused' = paused \ {r} /\ played' = played \ {r}

\* The calls of the sink, of which late ones have no effect.
Synchronizes(r) ==
  /\ phase' = [phase EXCEPT ![r] = IF @ = "preparing" THEN "prepared" ELSE @]
  /\ UNCHANGED <<paused, played>>

Completes(r) ==
  /\ \/ UNCHANGED phase
     \/ phase[r] = "playing" /\ phase' = [phase EXCEPT ![r] = "ending"]
  /\ UNCHANGED <<paused, played>>

Fails(r) ==
  /\ phase' = [phase EXCEPT ![r] = IF Held(r) THEN "ending" ELSE @]
  /\ UNCHANGED <<paused, played>>

ContractNext ==
  \/ \E R \in SUBSET Requests : Ends(R)
  \/ \E r \in Requests :
       \/ Prepares(r) \/ PreparesPrompt(r) \/ Refused(r) \/ Plays(r)
       \/ Pauses(r) \/ Resumes(r) \/ Stops(r)
       \/ Synchronizes(r) \/ Completes(r) \/ Fails(r)

\* What is ending is stopped in the end.
ContractSpec ==
  /\ ContractInit /\ [][ContractNext]_contractVars
  /\ \A r \in Requests : WF_contractVars(Stops(r))
=============================================================================
