------------------------------ MODULE Ffmemless ------------------------------
(***************************************************************************)
(* The vibrator sink for Linux force feedback devices                      *)
(* (src/src/plugins/ffmemless/{plugin,ffmemless}.c).  At start it uploads  *)
(* the effects of its configuration to the kernel.  A request gets a copy  *)
(* of the data of its effect.  Without "cache_effects" it plays the effect *)
(* that is in the kernel already; with it the effect is uploaded for every *)
(* play, and erased when it ends, is paused or stopped.                    *)
(*                                                                         *)
(* External: the kernel, which has room for some effects, each in the slot *)
(* that is its identifier.                                                 *)
(***************************************************************************)
EXTENDS SinkContract, Integers, FiniteSetsExt

CONSTANTS
  Names,      \* effects in ffmemless.effects, which may include Default
  Slots,      \* identifiers of effects in the kernel, from 0 on
  MaxPlays    \* bound: how often one request is played (and resumed)

Default == "default"
Table   == Names \cup {Default}
Free    == "free"
NoSlot  == -1

VARIABLES
  cacheEffects, \* cache_effects
  setup,      \* what initialize does: "default", "ngfd" or "system" effects; or
              \* "ready", or "failed"
  toDo,       \* effects that the present pass has still to set up
  table,      \* the effects
  copy,       \* data of the requests
  slot,       \* external: whose effect a slot of the kernel holds
  timers,     \* timers of a request that have not fired
  poll,       \* poll_id: the newest timer or 0
  early,      \* requests for which a play was not the first or not followed by
              \* a pause of its own: paused or resumed before they were started
  plays       \* how often a request that is held was played

setupVars == <<cacheEffects, setup, toDo, table>>
copyVars  == <<copy, timers, poll, early, plays>>
ffmVars   == <<setupVars, copyVars, slot>>

\* id and cached_effect.id; whether repeat and playback_time are positive.
Unset == [id |-> NoSlot, cached |-> NoSlot, repeats |-> TRUE, timed |-> FALSE]

FfmInit ==
  /\ cacheEffects \in BOOLEAN /\ setup = "default" /\ toDo = {}
  /\ table = [e \in Table |-> Unset]
  /\ copy = [r \in Requests |-> Unset]
  /\ slot = [k \in Slots |-> Free]
  /\ timers = [r \in Requests |-> {}] /\ poll = [r \in Requests |-> 0]
  /\ early = {} /\ plays = [r \in Requests |-> 0]

-----------------------------------------------------------------------------
(* The kernel.                                                             *)

\* Slip: the effect stays in the kernel.
ErasedNot(k) == slot

\* ffmemless_erase_effect; a slot that is free is an error nobody looks at.
Erased(k) == IF k \in Slots THEN [slot EXCEPT ![k] = Free] ELSE slot

\* Upload of a new effect: the first free slot.
Uploaded(s, k, who) ==
  /\ s[k] = Free /\ \A j \in Slots : j < k => s[j] # Free
  /\ slot' = [s EXCEPT ![k] = who]

-----------------------------------------------------------------------------
(* ffm_sink_initialize.                                                    *)

\* ffm_setup_default_effect: an effect that is not in the list is made with
\* a repeat of 0; the copy in the cache is taken before the kernel gives it an
\* identifier.
SetupDefault ==
  /\ setup = "default"
  /\ \/ /\ \E k \in Slots :
             /\ Uploaded(slot, k, Default)
             /\ table' = [table EXCEPT ![Default] =
                  [Unset EXCEPT !.id = k, !.repeats = Default \in Names]]
        /\ setup' = "ngfd" /\ toDo' = Table
     \/ setup' = "failed" /\ UNCHANGED <<toDo, table, slot>>
  /\ UNCHANGED <<contractVars, cacheEffects, copyVars>>

\* ffm_setup_effects: an effect that has no type, or that cannot be erased,
\* stays as it is; one that cannot be uploaded ends the pass, which is fatal
\* when the effects are those of ngfd.
SetupEffect(e) ==
  /\ e \in toDo
  /\ \/ toDo' = toDo \ {e} /\ UNCHANGED <<setup, table, slot>>
     \/ \E k \in Slots :
          /\ Uploaded(Erased(table[e].id), k, e)
          /\ table' = [table EXCEPT ![e] =
               [id |-> k, cached |-> IF cacheEffects THEN k ELSE NoSlot,
                repeats |-> TRUE, timed |-> FALSE]]
          /\ toDo' = toDo \ {e} /\ UNCHANGED setup
     \/ /\ slot' = Erased(table[e].id)
        /\ table' = [table EXCEPT ![e].id = NoSlot, ![e].repeats = TRUE]
        /\ setup' = IF setup = "ngfd" THEN "failed" ELSE "ready"
        /\ toDo' = {}
  /\ UNCHANGED <<contractVars, cacheEffects, copyVars>>

\* The effects of the system are optional.
EndPass ==
  /\ setup \in {"ngfd", "system"} /\ toDo = {}
  /\ \/ setup = "ngfd" /\ setup' = "system" /\ toDo' = Table
     \/ setup' = "ready" /\ UNCHANGED toDo
  /\ UNCHANGED <<contractVars, cacheEffects, table, copyVars, slot>>

-----------------------------------------------------------------------------
(* Calls of the core.                                                      *)

\* sound.repeat or haptic.duration repeat the effect; the duration of the
\* effect, which the table here leaves out, or haptic.duration also ends it.
\* The slot that is played without a cache, the id of the copy, does not matter.
Prepare(r) ==
  /\ setup = "ready" /\ PreparesPrompt(r)
  /\ \E e \in Table :
       LET d == [table[e] EXCEPT !.id = NoSlot]
       IN  copy' \in {[copy EXCEPT ![r] = c] : c \in
             {d, [d EXCEPT !.repeats = TRUE],
              [d EXCEPT !.repeats = TRUE, !.timed = TRUE]}}
  /\ UNCHANGED <<setupVars, slot, timers, poll, early, plays>>

\* ffm_play (data, 0).
Silenced(r) == slot' = IF cacheEffects THEN Erased(copy[r].cached) ELSE slot

\* ffm_play (data, data->repeat), which returns ok.  A repeat of 0 is a stop.
\* A timer is removed again if the upload fails, not if the play does.
FfmPlay(r, ok) ==
  /\ plays[r] < MaxPlays /\ plays' = [plays EXCEPT ![r] = @ + 1]
  /\ LET ticks == IF copy[r].timed THEN plays'[r] ELSE 0
         tick  == IF ticks = 0 THEN timers ELSE [timers EXCEPT ![r] = @ \cup {ticks}]
     IN  \/ /\ ~copy[r].repeats /\ Silenced(r)
            /\ poll' = [poll EXCEPT ![r] = 0] /\ UNCHANGED <<copy, timers>>
         \/ /\ copy[r].repeats /\ ~cacheEffects
            /\ timers' = tick /\ poll' = [poll EXCEPT ![r] = ticks]
            /\ UNCHANGED <<copy, slot>>
         \/ /\ copy[r].repeats /\ cacheEffects
            /\ \E k \in Slots : Uploaded(slot, k, r) /\ copy' = [copy EXCEPT ![r].cached = k]
            /\ timers' = tick /\ poll' = [poll EXCEPT ![r] = ticks]
         \/ /\ copy[r].repeats /\ cacheEffects /\ ~ok
            /\ copy' = [copy EXCEPT ![r].cached = NoSlot]
            /\ poll' = [poll EXCEPT ![r] = 0] /\ UNCHANGED <<timers, slot>>
  /\ UNCHANGED setupVars

Start(r) ==
  /\ Plays(r)
  /\ \E ok \in BOOLEAN : FfmPlay(r, ok) /\ (ok \/ phase'[r] = "ending")
  /\ early' = IF r \in paused \cup played THEN early \cup {r} ELSE early

Resume(r) ==
  /\ Resumes(r) /\ r \in played' /\ \E ok \in BOOLEAN : FfmPlay(r, ok)
  /\ UNCHANGED early

\* Slip: the timer runs on.
PauseKeepsTimer(r) ==
  /\ Pauses(r) /\ Silenced(r)
  /\ poll' = [poll EXCEPT ![r] = 0]
  /\ UNCHANGED <<setupVars, copy, timers, early, plays>>

Pause(r) ==
  /\ Pauses(r) /\ Silenced(r)
  /\ timers' = [timers EXCEPT ![r] = @ \ {poll[r]}]
  /\ poll' = [poll EXCEPT ![r] = 0]
  /\ UNCHANGED <<setupVars, copy, early, plays>>

\* The copy is freed.
Stop(r) ==
  /\ Stops(r) /\ Silenced(r)
  /\ timers' = [timers EXCEPT ![r] = @ \ {poll[r]}]
  /\ poll' = [poll EXCEPT ![r] = 0]
  /\ copy' = [copy EXCEPT ![r] = Unset]
  /\ plays' = [plays EXCEPT ![r] = 0]
  /\ UNCHANGED <<setupVars, early>>

EndAttempts == \E R \in (SUBSET Requests) \ {{}} : Ends(R) /\ UNCHANGED ffmVars

\* ffm_playback_done, for data that is still there.
PlaybackDone(r) ==
  /\ timers[r] # {} /\ Held(r)
  /\ timers' = [timers EXCEPT ![r] = @ \ {Min(@)}]
  /\ poll' = [poll EXCEPT ![r] = 0]
  /\ Silenced(r) /\ Completes(r)
  /\ UNCHANGED <<setupVars, copy, early, plays>>

FfmNext ==
  \/ EndAttempts \/ SetupDefault \/ EndPass \/ \E e \in Table : SetupEffect(e)
  \/ \E r \in Requests :
       Prepare(r) \/ Start(r) \/ Pause(r) \/ Resume(r) \/ Stop(r) \/ PlaybackDone(r)

-----------------------------------------------------------------------------
\* Each slot of the kernel is accounted for: it holds the effect of the table
\* that has its identifier, or what a request plays, so that none is lost by an
\* effect that is replaced, fails, is paused or ends.  Without a cache the
\* effects of the table stay where they are.
SlotsAreAccounted ==
  /\ \A k \in Slots :
       /\ slot[k] \in Table => table[slot[k]].id = k
       /\ slot[k] \in Requests \ early => Held(slot[k]) /\ copy[slot[k]].cached = k
  /\ ~cacheEffects => \A e \in Table : table[e].id # NoSlot => slot[table[e].id] = e

\* Only the timer that the data names is set, and it goes with the data.
TimersAreNamed ==
  \A r \in Requests \ early : timers[r] \subseteq {poll[r]} /\ (timers[r] # {} => Held(r))
=============================================================================
