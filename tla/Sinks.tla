-------------------------------- MODULE Sinks --------------------------------
(***************************************************************************)
(* The sinks that play something other than a GStreamer pipeline, one at a *)
(* time under the contract of the core: which of them is chosen in Init.   *)
(* What several sinks do to one request is in Player; here each meets      *)
(* several requests.                                                       *)
(***************************************************************************)
EXTENDS SinkContract, Integers, Sequences

CONSTANTS
  Devices,    \* the sinks: "canberra", "mce", "immvibe", "ffmemless", "tonegen"
  MaxPlays,   \* bound: how often one request is played (and resumed)
  Samples, Patterns, Effects, Names, Slots

ASSUME SinksAssumption ==
  /\ Devices \subseteq {"canberra", "mce", "immvibe", "ffmemless", "tonegen"}
  /\ MaxPlays \in Nat
  /\ "silence" \notin Samples /\ "no pattern" \notin Patterns
  /\ 0 \notin Effects
  /\ Slots \subseteq Nat /\ "free" \notin Names
  /\ Requests \cap (Names \cup {"default", "free"}) = {}

VARIABLES device, plays, timers

VARIABLES kept, sample, id, context, cached, caching, server, misused
canberraVars == <<kept, sample, id, context, cached, caching, server, misused>>
Canberra == INSTANCE TimerSink

VARIABLES wanted, pattern, playing, active, toMce, fromMce, lit
mceVars == <<wanted, pattern, playing, active, toMce, fromMce, lit>>
Mce == INSTANCE MceLed

VARIABLES patterned, repeating, halted, effect, polls, idles, told, sounding
immvibeVars == <<patterned, repeating, halted, effect, polls, idles, told, sounding>>
Vibe == INSTANCE Immvibe

VARIABLES cacheEffects, setup, toDo, table, copy, slot, poll, early
ffmemlessVars == <<cacheEffects, setup, toDo, table, copy, slot, poll, early>>
Ffm == INSTANCE Ffmemless

VARIABLES kind, stream, link, retry, mute, unmute, toneless, stuck
tonegenVars == <<kind, stream, link, retry, mute, unmute, toneless, stuck>>
Tone == INSTANCE Tonegen

vars == <<contractVars, device, plays, timers, canberraVars, mceVars,
          immvibeVars, ffmemlessVars, tonegenVars>>

\* The choices of a sink that is not there do not matter.
Init ==
  /\ device \in Devices
  /\ context \in (IF device = "canberra" THEN BOOLEAN ELSE {FALSE})
  /\ cacheEffects \in (IF device = "ffmemless" THEN BOOLEAN ELSE {FALSE})
  /\ wanted \in IF device = "mce" THEN [Requests -> Patterns \cup {"no pattern"}]
                ELSE {[r \in Requests |-> "no pattern"]}
  /\ kind \in IF device = "tonegen" THEN [Requests -> Tone!Kinds]
              ELSE {[r \in Requests |-> "dtmf"]}
  /\ Canberra!Init /\ Mce!MceInit /\ Vibe!VibeInit /\ Ffm!FfmInit /\ Tone!ToneInit

\* The sinks share the counter of plays, and two of them the set of timers.
CanberraStep == device = "canberra" /\ Canberra!Next
  /\ UNCHANGED <<device, mceVars, immvibeVars, ffmemlessVars, tonegenVars>>
MceStep == device = "mce" /\ Mce!MceNext
  /\ UNCHANGED <<device, timers, canberraVars, immvibeVars, ffmemlessVars, tonegenVars>>
ImmvibeStep == device = "immvibe" /\ Vibe!VibeNext
  /\ UNCHANGED <<device, timers, canberraVars, mceVars, ffmemlessVars, tonegenVars>>
FfmemlessStep == device = "ffmemless" /\ Ffm!FfmNext
  /\ UNCHANGED <<device, canberraVars, mceVars, immvibeVars, tonegenVars>>
TonegenStep == device = "tonegen" /\ Tone!ToneNext
  /\ UNCHANGED <<device, timers, canberraVars, mceVars, immvibeVars, ffmemlessVars>>

Next == CanberraStep \/ MceStep \/ ImmvibeStep \/ FfmemlessStep \/ TonegenStep

Spec == Init /\ [][Next]_vars

-----------------------------------------------------------------------------
\* No timer, source or list entry of a sink outlives the data of its request,
\* when the data is freed by a stop that comes at any point.  (A request that
\* is played twice without a pause that the sink honours is excepted: see
\* TimerSink, Immvibe and Ffmemless.)
NothingOutlivesItsData ==
  /\ device = "canberra"  => Canberra!TypeOK /\ Canberra!PlayedOnceIsSafe
  /\ device = "mce"       => Mce!ListedAreHeld
  /\ device = "ffmemless" => Ffm!TimersAreNamed
  /\ device = "immvibe"   => Vibe!SourcesAreNamed

\* What canberra believes to be cached is cached in the present connection.
CacheIsCurrent == device = "canberra" => Canberra!CacheIsCurrent

\* What was started on a device ends: an LED does not stay lit, and the vibrator
\* does not go on, for a request that is gone; a pattern that is played is
\* followed to its end.
EffectsEnd ==
  /\ device = "mce" => Mce!LightGoesOut
  /\ device = "immvibe" => Vibe!VibrationIsOwned /\ Vibe!VibrationIsWatched

\* The effects in the kernel are those of the table and of held requests.
SlotsAreAccounted == device = "ffmemless" => Ffm!SlotsAreAccounted

\* No tone without a request, no stream without its connection.
TonesHaveRequests == device = "tonegen" => Tone!TonesHaveRequests

\* Telephony is not left muted.
MuteIsReleased == device = "tonegen" => Tone!MuteIsReleased
=============================================================================
