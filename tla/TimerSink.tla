------------------------------ MODULE TimerSink ------------------------------
(***************************************************************************)
(* The sinks that are done when a timer says so: canberra, which plays a   *)
(* sample through libcanberra and guesses its length, fake and null        *)
(* (src/src/plugins/{canberra,fake,null}/plugin.c).  Each keeps one data   *)
(* record per request with the id of its timer; canberra also keeps the    *)
(* connection and the names of the samples it has cached in it.            *)
(*                                                                         *)
(* The calls of the core are those of SinkContract; all three sinks        *)
(* synchronize in prepare.  A definition introduced by "Slip" is no part   *)
(* of the model.                                                           *)
(***************************************************************************)
EXTENDS SinkContract, Integers

CONSTANTS
  Samples,    \* canberra.filename; {} for the sinks that play nothing
  MaxPlays    \* bound: how often one request is played (and resumed)

Silence == "silence"



VARIABLES
  kept,       \* requests whose data is allocated
  sample,     \* the sample of a request, Silence without one
  plays,      \* number of timers set up for a request
  timers,     \* those that have not fired: they point to its data
  id,         \* complete_cb_id, timeout_id, source_id: the newest timer or 0
  context,    \* canberra has a connection
  cached,     \* cached_samples
  caching,    \* support_cached_samples
  server,     \* external: the samples cached in the connection
  misused     \* a timer fired for data that was freed

dataVars == <<kept, sample, plays, timers, id>>
caVars   == <<context, cached, caching, server>>
vars     == <<contractVars, dataVars, caVars, misused>>

Prepare(r) ==
  /\ PreparesPrompt(r)
  /\ kept' = kept \cup {r}
  /\ \E s \in Samples \cup {Silence} : sample' = [sample EXCEPT ![r] = s]
  /\ UNCHANGED <<plays, timers, id, caVars, misused>>

-----------------------------------------------------------------------------
(* The connection: each operator relates the connection before a call of   *)
(* play to the one after it.                                               *)

\* Slip: the names of the samples survive the connection they belong to.
ConnectedKeeping(c, k) == k

\* What cached_samples holds once canberra_connect has returned TRUE.
Connected(c, k) == IF c THEN k ELSE {}

\* canberra_connect fails, and no connection is left.
ConnectFails ==
  /\ ~context /\ cached' = {} /\ server' = {}
  /\ UNCHANGED <<context, caching>>

\* The sample is in the connection, or is put there, or cannot be.
SampleReady(s) ==
  /\ context' = TRUE
  /\ LET k == Connected(context, cached)
         v == IF context THEN server ELSE {}
     IN  \/ /\ ~caching \/ s \in k
            /\ cached' = k /\ server' = v /\ UNCHANGED caching
         \/ /\ caching /\ s \notin k
            /\ cached' = k \cup {s} /\ server' = v \cup {s}
            /\ UNCHANGED caching
         \/ /\ caching /\ s \notin k
            /\ cached' = k /\ server' = v /\ caching' = FALSE

\* Caching or playing fails: canberra_disconnect.  The names stay until the
\* next connection is made.
Disconnects(s) ==
  /\ context' = FALSE /\ server' = {}
  /\ LET k == Connected(context, cached)
     IN  \/ caching /\ s \notin k /\ cached' = k /\ UNCHANGED caching
         \/ (~caching \/ s \in k) /\ cached' = k /\ UNCHANGED caching
         \/ caching /\ s \notin k /\ cached' = k \cup {s} /\ UNCHANGED caching
         \/ caching /\ s \notin k /\ cached' = k /\ caching' = FALSE

\* The play of a sink: it fails, or a timer is set up for the data.
PlayFails(r) ==
  /\ sample[r] \in Samples
  /\ ConnectFails \/ Disconnects(sample[r])
  /\ UNCHANGED dataVars

PlayWorks(r) ==
  /\ IF sample[r] = Silence THEN UNCHANGED caVars ELSE SampleReady(sample[r])
  /\ plays' = [plays EXCEPT ![r] = @ + 1]
  /\ timers' = [timers EXCEPT ![r] = @ \cup {plays'[r]}]
  /\ id' = [id EXCEPT ![r] = plays'[r]]
  /\ UNCHANGED <<kept, sample>>

-----------------------------------------------------------------------------
(* Calls of the core.                                                      *)

\* A play that fails ends the attempt.
Start(r) ==
  /\ Plays(r) /\ plays[r] < MaxPlays
  /\ PlayWorks(r) \/ (phase'[r] = "ending" /\ PlayFails(r))
  /\ UNCHANGED misused

\* canberra and null have no pause, that of fake does nothing.
Pause(r) == Pauses(r) /\ UNCHANGED <<dataVars, caVars, misused>>

Resume(r) ==
  /\ Resumes(r) /\ r \in played' /\ plays[r] < MaxPlays
  /\ PlayWorks(r) \/ PlayFails(r)
  /\ UNCHANGED misused

\* Slip: the timer is not removed.
StopKeepsTimer(r) ==
  /\ Stops(r)
  /\ kept' = kept \ {r}
  /\ UNCHANGED <<sample, plays, timers, id, caVars, misused>>

\* The timer that the data names is removed with it.
Stop(r) ==
  /\ Stops(r)
  /\ kept' = kept \ {r}
  /\ timers' = [timers EXCEPT ![r] = @ \ {id[r]}]
  /\ UNCHANGED <<sample, plays, id, caVars, misused>>

EndAttempts ==
  \E R \in (SUBSET Requests) \ {{}} :
    Ends(R) /\ UNCHANGED <<dataVars, caVars, misused>>

-----------------------------------------------------------------------------
\* Slip: the callback does not clear the id.
FiresNamed(r) ==
  /\ timers[r] # {}
  /\ LET k == CHOOSE t \in timers[r] : \A u \in timers[r] : t <= u
     IN  timers' = [timers EXCEPT ![r] = @ \ {k}]
  /\ IF r \in kept THEN Completes(r) /\ UNCHANGED misused
                   ELSE misused' = TRUE /\ UNCHANGED contractVars
  /\ UNCHANGED <<kept, sample, plays, id, caVars>>

\* The timers of a request are equally long: the oldest one fires.
Fires(r) ==
  /\ timers[r] # {}
  /\ LET k == CHOOSE t \in timers[r] : \A u \in timers[r] : t <= u
     IN  timers' = [timers EXCEPT ![r] = @ \ {k}]
  /\ IF r \in kept
     THEN id' = [id EXCEPT ![r] = 0] /\ Completes(r) /\ UNCHANGED misused
     ELSE misused' = TRUE /\ UNCHANGED <<id, contractVars>>
  /\ UNCHANGED <<kept, sample, plays, caVars>>

Init ==
  /\ ContractInit
  /\ kept = {} /\ sample = [r \in Requests |-> Silence]
  /\ plays = [r \in Requests |-> 0] /\ timers = [r \in Requests |-> {}]
  /\ id = [r \in Requests |-> 0]
  /\ context \in BOOLEAN /\ cached = {} /\ caching = TRUE /\ server = {}
  /\ misused = FALSE

\* After a misuse nothing is known.
Next ==
  /\ ~misused
  /\ \/ EndAttempts
     \/ \E r \in Requests :
          Prepare(r) \/ Start(r) \/ Pause(r) \/ Resume(r) \/ Stop(r) \/ Fires(r)

Spec == Init /\ [][Next]_vars

-----------------------------------------------------------------------------
\* Every variable has its type; the record of a request names only a timer
\* that has not fired.
TypeOK ==
  /\ phase \in [Requests -> Phases]
  /\ kept = {r \in Requests : Held(r)}
  /\ sample \in [Requests -> Samples \cup {Silence}]
  /\ \A r \in Requests :
       /\ plays[r] \in 0..MaxPlays /\ timers[r] \subseteq 1..plays[r]
       /\ r \in kept => id[r] \in timers[r] \cup {0}
  /\ context \in BOOLEAN /\ caching \in BOOLEAN /\ misused \in BOOLEAN
  /\ cached \subseteq Samples /\ server \subseteq Samples

\* While there is a connection, what canberra believes to be cached is cached
\* in it and not in one that was lost.
CacheIsCurrent == context => cached \subseteq server

\* A request that was played once leaves no timer behind: neither the end of
\* the effect, a stop nor a failure of another sink lets one outlive its data.
PlayedOnceIsSafe ==
  \A r \in Requests : plays[r] <= 1 /\ timers[r] # {} => r \in kept
=============================================================================
