------------------------------- MODULE Immvibe -------------------------------
(***************************************************************************)
(* The vibrator sink for Immersion devices (src/src/plugins/immvibe/       *)
(* plugin.c): it starts the pattern of a request and asks every half       *)
(* second whether it has ended; a request without a pattern completes when *)
(* the main loop is idle.                                                  *)
(*                                                                         *)
(* External: the vibrator daemon, which hands out identifiers of effects   *)
(* and may lose them all.                                                  *)
(***************************************************************************)
EXTENDS SinkContract, Integers, FiniteSets

CONSTANTS
  Effects,    \* identifiers the daemon hands out, positive
  MaxPlays    \* bound: how often one request is played (and resumed)

VARIABLES
  patterned,  \* requests whose data has a pattern
  repeating,  \* those with repeat_pattern
  halted,     \* data->paused
  effect,     \* data->id, or 0
  polls,      \* timers of pattern_poll_cb that are set up for a request
  idles,      \* number of its idle sources
  told,       \* requests the sink has completed
  sounding,   \* external: effects that are playing
  plays       \* how often a request was played

ivtVars == <<patterned, repeating, halted, effect, polls, idles, told,
             sounding, plays>>

VibeInit ==
  /\ patterned = {} /\ repeating = {} /\ halted = {} /\ told = {}
  /\ effect = [r \in Requests |-> 0]
  /\ polls = [r \in Requests |-> 0] /\ idles = [r \in Requests |-> 0]
  /\ sounding = {}
  /\ plays = [r \in Requests |-> 0]

\* immvibe_sink_prepare: a custom sound that is gone is left to the fallback;
\* a pattern that cannot be loaded is not.
Prepare(r) ==
  \/ Refused(r) /\ UNCHANGED ivtVars
  \/ /\ PreparesPrompt(r)
     /\ patterned' \in {patterned, patterned \cup {r}}
     /\ repeating' \in {repeating, repeating \cup {r}}
     /\ UNCHANGED <<halted, effect, polls, idles, told, sounding, plays>>

-----------------------------------------------------------------------------
(* vibrator_start, as a relation between what sounds before it and the     *)
(* effect it returns: the daemon plays; or it does not know us, and we     *)
(* connect anew and ask it once more; or nothing is started.  (When the    *)
(* second answer is some other error the code asks again for ever.)        *)

\* A new connection knows none of the effects of the old one.
Starts(before, k) ==
  \/ k \in Effects \ before /\ sounding' = before \cup {k}
  \/ k \in Effects /\ sounding' = {k}
  \/ k = 0 /\ sounding' \in {before, {}}

\* A poll is set up for what was started.
Started(r, k) ==
  /\ effect' = [effect EXCEPT ![r] = k]
  /\ polls' = [polls EXCEPT ![r] = IF k = 0 THEN @ ELSE @ + 1]

-----------------------------------------------------------------------------
(* Calls of the core.                                                      *)

\* What is paused resumes, and is not started, be it that it never was.
VibePlay(r) ==
  /\ plays[r] < MaxPlays /\ plays' = [plays EXCEPT ![r] = @ + 1]
  /\ IF r \in halted
     THEN halted' = halted \ {r} /\ UNCHANGED <<effect, polls, idles, sounding>>
     ELSE /\ \E k \in Effects \cup {0} :
               /\ IF r \in patterned THEN Starts(sounding, k) /\ Started(r, k)
                  ELSE k = 0 /\ UNCHANGED <<effect, polls, sounding>>
               /\ idles' = [idles EXCEPT ![r] = IF k = 0 THEN @ + 1 ELSE @]
          /\ UNCHANGED halted
  /\ UNCHANGED <<patterned, repeating, told>>

Start(r)  == Plays(r) /\ VibePlay(r)
Resume(r) == Resumes(r) /\ r \in played' /\ VibePlay(r)

\* Without a pattern pause is a no-op.
Pause(r) ==
  /\ Pauses(r)
  /\ halted' = IF r \in patterned THEN halted \cup {r} ELSE halted
  /\ UNCHANGED <<patterned, repeating, effect, polls, idles, told, sounding, plays>>

\* The sources that the data names, the newest ones, are removed with it.
Stop(r) ==
  /\ Stops(r)
  /\ sounding' = sounding \ {effect[r]}
  /\ polls' = [polls EXCEPT ![r] = IF @ > 0 THEN @ - 1 ELSE 0]
  /\ idles' = [idles EXCEPT ![r] = IF @ > 0 THEN @ - 1 ELSE 0]
  /\ halted' = halted \ {r}
  /\ UNCHANGED <<patterned, repeating, effect, told, plays>>

EndAttempts == \E R \in (SUBSET Requests) \ {{}} : Ends(R) /\ UNCHANGED ivtVars

-----------------------------------------------------------------------------
\* The pattern is started again; the core is told when it is not.
Restarts(r, before, tells) ==
  /\ \E k \in Effects \cup {0} :
       /\ Starts(before, k)
       /\ effect' = [effect EXCEPT ![r] = k]
       /\ polls' = [polls EXCEPT ![r] = IF k = 0 THEN @ - 1 ELSE @]
       /\ IF k = 0 /\ tells THEN Completes(r) /\ told' = told \cup {r}
          ELSE UNCHANGED <<contractVars, told>>
  /\ UNCHANGED <<patterned, repeating, halted, idles, plays>>

\* Slip: what may still be playing is not stopped.
RepeatsOver(r) == Restarts(r, sounding, TRUE)

\* Slip: nobody is told that the pattern could not be repeated.
RepeatsSilently(r) == Restarts(r, sounding \ {effect[r]}, FALSE)

\* The effect is stopped first, for its state may not have been known.
Repeats(r) == Restarts(r, sounding \ {effect[r]}, TRUE)

\* pattern_poll_cb: also an effect whose state cannot be read has ended.
Poll(r) ==
  /\ polls[r] > 0 /\ r \notin halted
  /\ IF r \in repeating THEN Repeats(r)
     ELSE /\ polls' = [polls EXCEPT ![r] = @ - 1]
          /\ Completes(r) /\ told' = told \cup {r}
          /\ UNCHANGED <<patterned, repeating, halted, effect, idles, sounding, plays>>

\* immvibe_idle_complete_cb.
Idle(r) ==
  /\ idles[r] > 0
  /\ idles' = [idles EXCEPT ![r] = @ - 1]
  /\ Completes(r) /\ told' = told \cup {r}
  /\ UNCHANGED <<patterned, repeating, halted, effect, polls, sounding, plays>>

\* External: an effect ends, or the daemon is restarted.
Silence ==
  /\ sounding # {}
  /\ \E S \in {{k} : k \in sounding} \cup {sounding} : sounding' = sounding \ S
  /\ UNCHANGED <<contractVars, patterned, repeating, halted, effect, polls, idles, told, plays>>

VibeNext ==
  \/ EndAttempts \/ Silence
  \/ \E r \in Requests :
       Prepare(r) \/ Start(r) \/ Pause(r) \/ Resume(r) \/ Stop(r) \/ Poll(r) \/ Idle(r)

-----------------------------------------------------------------------------
\* What vibrates is the effect that the data of a request names, so that the
\* stop of the request ends it, also when the pattern was started anew.
VibrationIsOwned ==
  \A k \in sounding : \E r \in Requests : Held(r) /\ effect[r] = k

\* A request with a pattern that was played and is not paused is watched until
\* the core is told that it is complete; also one that was paused before it
\* was started, whose start is swallowed.
VibrationIsWatched ==
  \A r \in patterned :
    phase[r] = "playing" /\ r \notin paused => polls[r] + idles[r] > 0 \/ r \in told

\* A request with a pattern has one source at most, which goes with its data:
\* a second play finds it paused.
SourcesAreNamed ==
  \A r \in patterned :
    polls[r] + idles[r] <= 1 /\ (polls[r] + idles[r] > 0 => Held(r))
=============================================================================
