------------------------------- MODULE MceLed -------------------------------
(***************************************************************************)
(* The LED sink (src/src/plugins/mce/plugin.c): it asks mce to light the   *)
(* pattern of a request, and is told by mce when the pattern has ended.    *)
(* mce knows patterns and not requests: requests that want the same        *)
(* pattern share it.                                                       *)
(*                                                                         *)
(* External: mce, which takes the calls in order, acknowledges those that  *)
(* light a pattern, and signals the end of a pattern that it had lit.      *)
(***************************************************************************)
EXTENDS SinkContract, Integers, Sequences, FiniteSetsExt

CONSTANTS
  Patterns,   \* values of mce.led_pattern
  MaxPlays    \* bound: how often one request is played (and resumed)

NoPattern == "no pattern"

VARIABLES
  wanted,     \* mce.led_pattern of a request; NoPattern if it is no string
  pattern,    \* data->pattern
  playing,    \* requests whose data has playing set
  active,     \* active_events
  toMce,      \* external: calls that mce has not taken yet
  fromMce,    \* external: replies and signals that wait
  lit,        \* external: the patterns that are lit
  plays       \* how often a request was played

ledVars == <<wanted, pattern, playing, active, toMce, fromMce, lit, plays>>

MceInit ==
  /\ wanted \in [Requests -> Patterns \cup {NoPattern}]
  /\ pattern = [r \in Requests |-> NoPattern]
  /\ playing = {} /\ active = <<>>
  /\ toMce = <<>> /\ fromMce = <<>> /\ lit = {}
  /\ plays = [r \in Requests |-> 0]

\* active_events without r: g_list_remove_all.  (It is a function, since the
\* provers know nothing of SelectSeq.)
Without(r) ==
  LET rest[n \in 0..Len(active)] ==
        IF n = 0 THEN <<>>
        ELSE IF active[n] = r THEN rest[n - 1] ELSE Append(rest[n - 1], active[n])
  IN  rest[Len(active)]

\* Places of active_events whose data has pattern p.
Places(p) == {i \in DOMAIN active : pattern[active[i]] = p}

-----------------------------------------------------------------------------
(* Calls of the core.                                                      *)

Prepare(r) == PreparesPrompt(r) /\ UNCHANGED ledVars

\* toggle_pattern succeeds while there is a bus, and without one the plugin is
\* not loaded.
LightUp(r) ==
  /\ plays[r] < MaxPlays /\ plays' = [plays EXCEPT ![r] = @ + 1]
  /\ IF wanted[r] = NoPattern THEN UNCHANGED <<pattern, active, toMce>>
     ELSE /\ pattern' = [pattern EXCEPT ![r] = wanted[r]]
          /\ active' = Append(active, r)
          /\ toMce' = Append(toMce, <<"activate", wanted[r]>>)
  /\ UNCHANGED <<wanted, playing, fromMce, lit>>

Start(r)  == Plays(r) /\ LightUp(r)
Pause(r)  == Pauses(r) /\ UNCHANGED ledVars
Resume(r) == Resumes(r) /\ r \in played' /\ LightUp(r)

\* Slip: the request leaves active_events before its pattern is looked for.
StopRemovesFirst(r) ==
  /\ Stops(r)
  /\ active' = Without(r)
  /\ toMce' = IF \E i \in Places(pattern[r]) : active[i] # r
              THEN Append(toMce, <<"deactivate", pattern[r]>>) ELSE toMce
  /\ pattern' = [pattern EXCEPT ![r] = NoPattern]
  /\ playing' = playing \ {r}
  /\ UNCHANGED <<wanted, fromMce, lit, plays>>

\* The pattern is put out if it is among the active events, be it for this
\* request or for another one.
Stop(r) ==
  /\ Stops(r)
  /\ toMce' = IF pattern[r] # NoPattern /\ Places(pattern[r]) # {}
              THEN Append(toMce, <<"deactivate", pattern[r]>>) ELSE toMce
  /\ active' = Without(r)
  /\ pattern' = [pattern EXCEPT ![r] = NoPattern]
  /\ playing' = playing \ {r}
  /\ UNCHANGED <<wanted, fromMce, lit, plays>>

EndAttempts == \E R \in (SUBSET Requests) \ {{}} : Ends(R) /\ UNCHANGED ledVars

-----------------------------------------------------------------------------
(* Messages of mce.                                                        *)

\* activate_cb: a reply, an error too, is taken for the first event that has
\* the pattern.
Acknowledged(p) ==
  /\ playing' = IF Places(p) = {} THEN playing ELSE playing \cup {active[Min(Places(p))]}
  /\ UNCHANGED <<contractVars, active>>

\* mce_signal_filter: the first event that has the pattern and is acknowledged
\* is complete.
Ended(p) ==
  LET I == {i \in Places(p) : active[i] \in playing}
  IN  /\ IF I = {} THEN UNCHANGED <<contractVars, active>>
         ELSE /\ active' = Without(active[Min(I)])
              /\ Completes(active[Min(I)])
      /\ UNCHANGED playing

Hear ==
  /\ fromMce # <<>> /\ fromMce' = Tail(fromMce)
  /\ LET m == Head(fromMce) IN IF m[1] = "ack" THEN Acknowledged(m[2]) ELSE Ended(m[2])
  /\ UNCHANGED <<wanted, pattern, toMce, lit, plays>>

-----------------------------------------------------------------------------
(* External: mce lights a pattern or refuses to, puts it out, or ends it.  *)

Lights ==
  /\ toMce # <<>> /\ Head(toMce)[1] = "activate" /\ toMce' = Tail(toMce)
  /\ lit' \in {lit, lit \cup {Head(toMce)[2]}}
  /\ fromMce' = Append(fromMce, <<"ack", Head(toMce)[2]>>)
  /\ UNCHANGED <<contractVars, wanted, pattern, playing, active, plays>>

PutOut(p) ==
  /\ lit' = lit \ {p}
  /\ fromMce' = IF p \in lit THEN Append(fromMce, <<"deactivated", p>>) ELSE fromMce
  /\ UNCHANGED <<contractVars, wanted, pattern, playing, active, plays>>

PutsOut ==
  /\ toMce # <<>> /\ Head(toMce)[1] = "deactivate" /\ toMce' = Tail(toMce)
  /\ PutOut(Head(toMce)[2])

LightEnds == \E p \in lit : PutOut(p) /\ UNCHANGED toMce

MceNext ==
  \/ EndAttempts \/ Hear \/ Lights \/ PutsOut \/ LightEnds
  \/ \E r \in Requests : Prepare(r) \/ Start(r) \/ Pause(r) \/ Resume(r) \/ Stop(r)

-----------------------------------------------------------------------------
\* active_events points to data that is allocated and has a pattern: what is
\* stopped leaves it altogether, however often it was played.
ListedAreHeld ==
  \A i \in DOMAIN active : Held(active[i]) /\ pattern[active[i]] \in Patterns

\* A request that has a pattern for itself and is played once leaves no LED
\* lit, in whatever order its stop, the acknowledgement and the end meet.
LightGoesOut ==
  \A r \in Requests :
    /\ phase[r] = "gone" /\ plays[r] <= 1 /\ toMce = <<>>
    /\ \A q \in Requests \ {r} : wanted[q] # wanted[r]
    => wanted[r] \notin lit
=============================================================================
