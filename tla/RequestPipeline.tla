--------------------------- MODULE RequestPipeline ---------------------------
(***************************************************************************)
(* What becomes of a new request before a sink sees it: the keys that a    *)
(* client sends are filtered (transform), the properties of the event are  *)
(* merged in, fallbacks and values of the profile are put in their place   *)
(* (core-player.c, profile), then the sinks that can handle the result are *)
(* asked for, filtered (resource) and sorted.                              *)
(*                                                                         *)
(* Properties are functions from keys to values, and a value says whom it  *)
(* is from: the "client", the "event" or the "context".  Keys that the     *)
(* code makes by appending a suffix are given by constants.                *)
(***************************************************************************)
EXTENDS Lists, FiniteSets, SequencesExt

CONSTANTS
  AllowAll,      \* the transform plugin lets everything pass, "allow = *"
  Allowed,       \* its allowed keys, in order
  KeyMap,        \* its map from keys to keys
  Original,      \* X.original for each target X of the map
  Fallback,      \* X.fallback for keys X
  ProfileKeys,   \* keys of events that name an entry of the profile, in order
  ProfileEntry,  \* entries that were found: [target, key of the context]
  Resources,     \* records [key, type, default] of the resource plugin
  SinkType,      \* of each sink: "audio", "leds", "vibra"
  Plays,         \* what each plays: "file", "led", "effect", "pattern"
  SinkOrder      \* sink-order of ngfd.ini

ASSUME PipelineAssumption ==
  /\ AllowAll \in BOOLEAN
  /\ Allowed \in Seq(Range(Allowed)) /\ ProfileKeys \in Seq(Range(ProfileKeys))
  /\ SinkOrder \in Seq(Range(SinkOrder))
  /\ {KeyMap[k] : k \in DOMAIN KeyMap} \subseteq DOMAIN Original

Filename == "sound.filename"
Enabled  == "sound.enabled"
Custom   == "transform.allow_custom"
Lookup   == "immvibe.lookup_from_key"
Pattern  == "mce.led_pattern"
Haptic   == "haptic.type"
Vibra    == "immvibe.filename"
NoSound  == "No sound.wav"

Value(from, v) == [from |-> from, is |-> v]

\* What new says prevails over old.
Over(new, old) ==
  [k \in DOMAIN new \cup DOMAIN old |-> IF k \in DOMAIN new THEN new[k] ELSE old[k]]

Put(props, k, v) == Over([x \in {k} |-> v], props)
Says(props, k, v) == k \in DOMAIN props /\ props[k].is = v

-----------------------------------------------------------------------------
\* Slip: anything.
AnyKeys(props) == props

\* What a client may always say if the event allows custom values.
CustomKeys(props) == [k \in DOMAIN props \cap {Filename, Enabled} |-> props[k]]

\* A key that is allowed: a client may say it under the key that it is mapped to,
\* and what it says of that one is kept under another.
AllowKey(new, k, props) ==
  IF k \notin DOMAIN props THEN new
  ELSE IF k \notin DOMAIN KeyMap THEN Put(new, k, props[k])
  ELSE LET t == KeyMap[k]
       IN  Put(IF t \in DOMAIN props THEN Put(new, Original[t], props[t]) ELSE new,
               t, props[k])

AllowEach(start, props) ==
  Through(start, Allowed, LAMBDA new, k : AllowKey(new, k, props))

\* new_request_cb of transform.
AllowKeys(props, event, context) ==
  LET custom   == Says(event, Custom, "true")
      silenced == Lookup \in DOMAIN event /\ Says(context, event[Lookup].is, NoSound)
      passed   == AllowEach(IF custom THEN CustomKeys(props) ELSE <<>>, props)
  IN  IF AllowAll THEN props
      ELSE IF silenced /\ ~custom THEN Put(passed, Filename, context[event[Lookup].is])
      ELSE passed

\* Slip: what the event says prevails.
MergeOver(props, event) == Over(event, props)

\* n_core_merge_request_properties: what the request says prevails.
Merge(props, event) == Over(props, event)

\* n_translate_fallback_cb.
Translate(props) ==
  LET has == {k \in DOMAIN Fallback : Fallback[k] \in DOMAIN props}
  IN  Over([k \in has |-> props[Fallback[k]]], props)

\* A key names an entry of the profile, which goes to its target if nothing is
\* there yet; a fallback replaces what is there.
SetFromProfile(new, k, props, context, fallback) ==
  LET entry   == ProfileEntry[props[k].is]
      applies == /\ k \in DOMAIN props /\ props[k].is \in DOMAIN ProfileEntry
                 /\ fallback \/ entry.target \notin DOMAIN props
                 /\ entry.key \in DOMAIN context
  IN  IF applies THEN Put(new, entry.target, context[entry.key]) ELSE new

\* transform_properties_cb of profile.
OfProfile(props, context, fallback) ==
  Through(<<>>, ProfileKeys, LAMBDA new, k : SetFromProfile(new, k, props, context, fallback))

FromProfile(props, context, fallback) == Over(OfProfile(props, context, fallback), props)

-----------------------------------------------------------------------------
\* n_haptic_can_handle.
CanVibrate(props, context) ==
  /\ Haptic \in DOMAIN props
  /\ ~Says(context, "call_state.mode", "active")
  /\ \/ /\ props[Haptic].is = "touch"
        /\ "vibration.level" \in DOMAIN context /\ context["vibration.level"].is # "0"
     \/ props[Haptic].is = "event" /\ Says(context, "alert.enabled", "true")

\* can_handle of the sinks.
CanHandle(sink, props, context) ==
  CASE Plays[sink] = "file"    -> Filename \in DOMAIN props
    [] Plays[sink] = "led"     -> Pattern \in DOMAIN props
    [] Plays[sink] = "effect"  -> CanVibrate(props, context)
    [] Plays[sink] = "pattern" -> Vibra \in DOMAIN props /\ Says(context, "alert.enabled", "true")

\* Slip: as the usage text of the plugin has it, one key of a resource in the
\* request disables the types that it does not name.
DisabledUnlessNamed(props) ==
  {r.type : r \in {x \in Resources :
                     IF x.key \in DOMAIN props THEN props[x.key].is # "true"
                     ELSE ~x.default \/ \E y \in Resources : y.key \in DOMAIN props}}

\* filter_sinks_cb of resource.
Disabled(props) ==
  {r.type : r \in {x \in Resources : IF x.key \in DOMAIN props
                                     THEN props[x.key].is # "true" ELSE ~x.default}}

\* Slip: the order is taken from its beginning.
PrioritiesFromFirst(sinks) ==
  [s \in Range(sinks) |->
     Cardinality({i \in DOMAIN SinkOrder :
       /\ SinkOrder[i] \in Range(sinks)
       /\ \E p \in (i + 1)..Len(SinkOrder) : SinkOrder[p] = s})]

\* n_core_set_sink_priorities, from the last of the order: a sink has as much as
\* sinks come after it there, and 0 when it is not in it.
Priorities(sinks) ==
  [s \in Range(sinks) |->
     Cardinality({i \in DOMAIN SinkOrder :
       /\ SinkOrder[i] \in Range(sinks)
       /\ \E p \in 1..(i - 1) : SinkOrder[p] = s})]

\* A sink goes behind all that have as much priority or more.
Placed(sorted, s, priority) ==
  LET behind == {x \in Range(sorted) : priority[x] < priority[s]}
  IN  Append(Only(sorted, Range(sorted) \ behind), s) \o Only(sorted, behind)

\* The sort of n_core_play_request, which is stable.
SortByPriority(sinks, priority) ==
  Through(<<>>, sinks, LAMBDA sorted, s : Placed(sorted, s, priority))

\* n_core_play_request, up to the sinks; plugins are those whose hooks fire.
Properties(plugins, client, event, context, fallback) ==
  LET asked  == IF "transform" \in plugins THEN AllowKeys(client, event, context)
                                           ELSE client
      merged == Merge(asked, event)
      whole  == IF fallback THEN Translate(merged) ELSE merged
  IN  IF "profile" \in plugins THEN FromProfile(whole, context, fallback) ELSE whole

Offer(plugins, sinks, priority, props, context) ==
  LET capable == Only(sinks, {s \in Range(sinks) : CanHandle(s, props, context)})
      passed  == IF "resource" \in plugins
                 THEN Only(capable, {s \in Range(sinks) : SinkType[s] \notin Disabled(props)})
                 ELSE capable
  IN  SortByPriority(passed, priority)

-----------------------------------------------------------------------------
(* What a configuration has to keep apart for a promise of CoreBoot to     *)
(* hold: the shipped one does (src/data/plugins.d).                        *)

\* Where the profile puts what it has.
Targets == {ProfileEntry[x].target : x \in DOMAIN ProfileEntry}

\* The keys of fallbacks are not allowed, and nothing is mapped to them.
FallbacksAreOwn ==
  Range(Fallback) \cap (Range(Allowed) \cup Range(KeyMap) \cup Range(Original)
                          \cup {Filename, Enabled}) = {}

\* Clients may say the keys of resources, under which neither the transform
\* plugin nor fallbacks nor the profile put anything else.
ResourceKeysPass ==
  \A r \in Resources :
    /\ AllowAll \/ r.key \in Range(Allowed) \ DOMAIN KeyMap
    /\ r.key \notin Range(KeyMap) \cup Range(Original) \cup {Filename, Enabled}
                      \cup DOMAIN Fallback \cup Targets
=============================================================================
