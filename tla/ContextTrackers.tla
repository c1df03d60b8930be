-------------------------- MODULE ContextTrackers --------------------------
(***************************************************************************)
(* The plugins that keep values of the context up to date, and those who   *)
(* read them: call state, device lock and route, which ask a service over  *)
(* D-Bus and listen to its signals; profile, which asks profiled through   *)
(* libprofile; the haptic helper and the gst sink, which follow the call   *)
(* state and the level of system sounds                                    *)
(* (src/src/plugins/{callstate,devicelock,route,profile,gst}/plugin.c,     *)
(* src/src/ngf/haptic.c).                                                  *)
(*                                                                         *)
(* External: the services, the buses, which keep messages in order, and    *)
(* libprofile.  A definition introduced by "Slip" is no part of the model. *)
(***************************************************************************)
EXTENDS Integers, Sequences

CONSTANTS
  Services,    \* those that are tracked: "mce", "devicelock", "ohm"
  Profiles,    \* profiles of profiled
  Levels,      \* values of system.sound.level in a profile
  Table,       \* the volumes that profile.ini gives for levels 0, 1, ...
  MaxChanges   \* bound: changes in the services and in profiled

States == [mce        |-> {"none", "ringing", "active"},
           devicelock |-> {"unlocked", "locked"},
           ohm        |-> {"builtin", "external"}]

ASSUME TrackerAssumption ==
  /\ Services \subseteq DOMAIN States
  /\ Levels \subseteq Int /\ Table \in Seq(0..100) /\ Table # <<>>
  /\ MaxChanges \in Nat

Unknown == "unknown"
None    == "none"
Current == "current"

ASSUME ProfileAssumption == Profiles \cap {None, Current} = {}

VARIABLES
  stage,      \* "loading" plugins, or "running" the main loop
  context,    \* values of the context written by the D-Bus trackers
  active,     \* callstate->active
  callActive, \* haptic->call_active
  truth,      \* external: the state of each service
  outbox,     \* external: what was sent to a service, "match" and "get"
  listening,  \* external: services whose signals are routed to ngfd
  inbox,      \* external: replies and signals that wait, by service
  restarted,  \* services that restarted and have not been heard of since
  loaded,     \* trackers that are loaded
  changes     \* number of changes

dbusVars == <<context, active, callActive, truth, outbox, listening, inbox,
              restarted, loaded>>

VARIABLES
  asking,     \* profiles whose values profile has still to ask for; None before
  tracking,   \* profile_tracker_init was called
  current,    \* profile.current_profile
  level,      \* profile.<name>.system.sound.level
  enabled,    \* system_sounds_enabled of gst
  profile,    \* external: the profile that is active
  values,     \* external: system.sound.level of each profile
  news,       \* external: signals of profiled that wait
  missed      \* profiled changed behind the back of the queries

profileVars == <<asking, tracking, current, level, enabled, profile, values,
                 news, missed>>
vars == <<stage, changes, dbusVars, profileVars>>

-----------------------------------------------------------------------------
(* Trackers on D-Bus.                                                      *)

\* Slip: the state is asked for before the signals are listened to.
AsksFirst == <<"get", "match">>

\* What loading a tracker sends, in this order.
Subscribes == <<"match", "get">>

LoadTracker(s) ==
  /\ stage = "loading" /\ s \notin loaded
  /\ loaded' = loaded \cup {s}
  /\ outbox' = [outbox EXCEPT ![s] = Subscribes]
  /\ UNCHANGED <<stage, changes, context, active, callActive, truth, listening,
                 inbox, restarted, profileVars>>

\* update_context_call_state: a call that comes in during another one does not
\* end that one.
KeepsCall(s, v) == s = "mce" /\ active /\ v \in {"ringing", "active"}

\* A reply or a signal sets the value, and the haptic helper follows.
Receive(s) ==
  /\ stage = "running" /\ inbox[s] # <<>>
  /\ inbox' = [inbox EXCEPT ![s] = Tail(@)]
  /\ LET v == Head(inbox[s])
     IN  IF v = Unknown \/ KeepsCall(s, v) THEN UNCHANGED <<context, active, callActive>>
         ELSE /\ context' = [context EXCEPT ![s] = v]
              /\ active' = IF s = "mce" THEN v = "active" ELSE active
              /\ callActive' = IF s = "mce" THEN v = "active" ELSE callActive
  /\ UNCHANGED <<stage, changes, truth, outbox, listening, restarted, loaded,
                 profileVars>>

\* External: the bus starts to route signals, the service answers.  The answer
\* of a service that is not there is an error, of which nothing is read.
Serve(s) ==
  /\ outbox[s] # <<>>
  /\ outbox' = [outbox EXCEPT ![s] = Tail(@)]
  /\ IF Head(outbox[s]) = "match"
     THEN listening' = listening \cup {s} /\ UNCHANGED <<inbox, restarted>>
     ELSE /\ inbox' = [inbox EXCEPT ![s] = Append(@, truth[s])]
          /\ restarted' = restarted \ {s}
          /\ UNCHANGED listening
  /\ UNCHANGED <<stage, changes, context, active, callActive, truth, loaded,
                 profileVars>>

NotThere(s) ==
  /\ outbox[s] # <<>> /\ Head(outbox[s]) = "get"
  /\ outbox' = [outbox EXCEPT ![s] = Tail(@)]
  /\ inbox' = [inbox EXCEPT ![s] = Append(@, Unknown)]
  /\ restarted' = restarted \cup {s}
  /\ UNCHANGED <<stage, changes, context, active, callActive, truth, listening,
                 loaded, profileVars>>

Change(s, v) ==
  /\ changes < MaxChanges /\ v # truth[s]
  /\ changes' = changes + 1
  /\ truth' = [truth EXCEPT ![s] = v]
  /\ IF s \in listening
     THEN inbox' = [inbox EXCEPT ![s] = Append(@, v)] /\ restarted' = restarted \ {s}
     ELSE UNCHANGED <<inbox, restarted>>
  /\ UNCHANGED <<stage, context, active, callActive, outbox, listening, loaded,
                 profileVars>>

\* The service restarts and says nothing; nobody asks it again.
Restart(s, v) ==
  /\ changes < MaxChanges
  /\ changes' = changes + 1
  /\ truth' = [truth EXCEPT ![s] = v]
  /\ restarted' = restarted \cup {s}
  /\ UNCHANGED <<stage, context, active, callActive, outbox, listening, inbox,
                 loaded, profileVars>>

-----------------------------------------------------------------------------
(* The profile plugin.                                                     *)

\* update_context_value: the volume in the table, of the level clamped to it.
VolumeOf(l) ==
  Table[1 + (IF l <= 0 THEN 0 ELSE IF l >= Len(Table) - 1 THEN Len(Table) - 1
                                                         ELSE l)]

QueryCurrentProfile ==
  /\ stage = "loading" /\ asking = {None}
  /\ current' = profile
  /\ asking' = Profiles
  /\ UNCHANGED <<stage, changes, dbusVars, tracking, level, enabled, profile,
                 values, news, missed>>

\* One round of query_current_values, which waits for profiled.
QueryValues(p) ==
  /\ stage = "loading" /\ p \in asking
  /\ asking' = asking \ {p}
  /\ level' = [q \in DOMAIN level |->
                 IF q = p \/ (q = Current /\ p = current) THEN VolumeOf(values[p])
                                                          ELSE level[q]]
  /\ UNCHANGED <<stage, changes, dbusVars, tracking, current, enabled, profile,
                 values, news, missed>>

TrackerInit ==
  /\ stage = "loading" /\ asking = {} /\ ~tracking
  /\ tracking' = TRUE
  /\ UNCHANGED <<stage, changes, dbusVars, asking, current, level, enabled,
                 profile, values, news, missed>>

\* Slip: a change in the active profile is kept for that profile alone.
LevelsOfOne(p, v, c) == [q \in DOMAIN level |-> IF q = p THEN v ELSE level[q]]

\* system_sound_level_changed, for the volume v.
EnabledAfter(v, e) == IF v <= 0 /\ e THEN FALSE ELSE IF ~e THEN TRUE ELSE e

\* value_changed_cb, for the profile p while c is the current one.
LevelsAfter(p, v, c) ==
  [q \in DOMAIN level |-> IF q = p \/ (q = Current /\ p = c) THEN v ELSE level[q]]

\* A signal of profiled: libprofile reports the profile, then its values.
ReceiveProfile ==
  /\ stage = "running" /\ news # <<>>
  /\ news' = Tail(news)
  /\ LET n == Head(news)
         c == IF n.switch THEN n.profile ELSE current
         v == VolumeOf(n.value)
     IN  /\ current' = c
         /\ IF n.reported
            THEN /\ level' = LevelsAfter(n.profile, v, c)
                 /\ enabled' = IF n.profile = c THEN EnabledAfter(v, enabled)
                                                ELSE enabled
            ELSE UNCHANGED <<level, enabled>>
  /\ UNCHANGED <<stage, changes, dbusVars, asking, tracking, profile, values,
                 missed>>

\* External: signals are sent to those who track.
Announces(n) == news' = IF tracking THEN Append(news, n) ELSE news

\* What differs between the profiles is reported, what does not may be.
SwitchProfile(p) ==
  /\ changes < MaxChanges /\ p # profile
  /\ changes' = changes + 1
  /\ profile' = p
  /\ missed' = (missed \/ (~tracking /\ asking # {None}))
  /\ \E reported \in {TRUE, values[p] # values[profile]} :
       Announces([switch |-> TRUE, profile |-> p, value |-> values[p],
                  reported |-> reported])
  /\ UNCHANGED <<stage, dbusVars, asking, tracking, current, level, enabled,
                 values>>

ChangeValue(p, l) ==
  /\ changes < MaxChanges /\ l # values[p]
  /\ changes' = changes + 1
  /\ values' = [values EXCEPT ![p] = l]
  /\ missed' = (missed \/ (~tracking /\ asking # {None} /\ p \notin asking))
  /\ Announces([switch |-> FALSE, profile |-> p, value |-> l, reported |-> TRUE])
  /\ UNCHANGED <<stage, dbusVars, asking, tracking, current, level, enabled,
                 profile>>

-----------------------------------------------------------------------------
\* init_done_cb of gst, when all plugins are loaded; then the main loop runs.
InitDone ==
  /\ stage = "loading" /\ loaded = Services /\ tracking
  /\ stage' = "running"
  /\ enabled' = (level[Current] > 0)
  /\ UNCHANGED <<changes, dbusVars, asking, tracking, current, level, profile,
                 values, news, missed>>

Init ==
  /\ stage = "loading" /\ loaded = {} /\ changes = 0
  /\ context = [s \in Services |-> Unknown] /\ active = FALSE /\ callActive = FALSE
  /\ truth \in {f \in [Services -> UNION {States[s] : s \in Services}] :
                  \A s \in Services : f[s] \in States[s]}
  /\ outbox = [s \in Services |-> <<>>] /\ inbox = [s \in Services |-> <<>>]
  /\ listening = {} /\ restarted = {}
  /\ asking = {None} /\ tracking = FALSE /\ current = Unknown
  /\ level = [q \in Profiles \cup {Current} |-> 0] /\ enabled = TRUE
  /\ profile \in Profiles /\ values \in [Profiles -> Levels]
  /\ news = <<>> /\ missed = FALSE

Next ==
  \/ \E s \in Services :
       \/ LoadTracker(s) \/ Receive(s) \/ Serve(s) \/ NotThere(s)
       \/ \E v \in States[s] : Change(s, v) \/ Restart(s, v)
  \/ QueryCurrentProfile \/ TrackerInit \/ ReceiveProfile \/ InitDone
  \/ \E p \in Profiles :
       \/ QueryValues(p) \/ SwitchProfile(p)
       \/ \E l \in Levels : ChangeValue(p, l)

Spec == Init /\ [][Next]_vars

-----------------------------------------------------------------------------
\* Whatever the order of the first answer, of signals and of the start of the
\* main loop: when nothing is under way, the context says what the service
\* does, except that a call that comes in during a call leaves it active, and
\* the haptic helper knows of a call.  Nothing is promised for a service that
\* restarted, or was not there when asked, until it is heard of.
ContextFollows ==
  /\ \A s \in loaded \ restarted : outbox[s] = <<>> /\ inbox[s] = <<>> =>
       \/ context[s] = truth[s]
       \/ s = "mce" /\ truth[s] = "ringing" /\ context[s] = "active"
  /\ "mce" \in Services => callActive = (context["mce"] = "active")

\* When profiled has nothing to say, the context has the level of every profile
\* and that of the active one as the current level, and gst does not silence
\* system sounds while it is positive; unless profiled changed between a query
\* and the beginning of the tracking.
LevelFollows ==
  tracking /\ news = <<>> /\ ~missed =>
    /\ current = profile /\ level[Current] = VolumeOf(values[profile])
    /\ \A p \in Profiles : level[p] = VolumeOf(values[p])
    /\ stage = "running" /\ level[Current] > 0 => enabled
=============================================================================
