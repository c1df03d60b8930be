----------------------------- MODULE MCCoreBoot -----------------------------
(***************************************************************************)
(* A small ngfd.ini for TLC: one plugin of each way to register things and *)
(* to fail, two audio sinks, two events and what clients may say of them.  *)
(***************************************************************************)
EXTENDS CoreBoot

MCRequired == <<"dbus", "transform", "resource", "profile", "mce", "canberra", "gst">>
MCOptional == <<"ffmemless", "immvibe">>

Thing(kind, name) == [kind |-> kind, name |-> name]

MCRegisters ==
  ("dbus"         :> <<Thing("input", "dbus")>>)
  @@ ("transform" :> <<Thing("hook", "NEW_REQUEST")>>)
  @@ ("resource"  :> <<Thing("hook", "FILTER_SINKS")>>)
  @@ ("profile"   :> <<Thing("hook", "TRANSFORM_PROPERTIES")>>)
  @@ ("mce"       :> <<Thing("sink", "mce")>>)
  @@ ("canberra"  :> <<Thing("sink", "canberra")>>)
  @@ ("gst"       :> <<Thing("sink", "gst"), Thing("hook", "INIT_DONE")>>)
  @@ ("ffmemless" :> <<Thing("sink", "ffmemless")>>)
  @@ ("immvibe"   :> <<Thing("sink", "immvibe")>>)

MCFailsAfter ==
  [p \in DOMAIN MCRegisters |->
     CASE p = "transform" -> {0, 1}
       [] p \in {"profile", "immvibe"} -> {1}
       [] p = "resource" -> {0}
       [] OTHER -> {}]

MCAllowed  == <<"media.audio", "media.vibra", "media.leds", "audio">>
MCKeyMap   == "audio" :> Filename
MCOriginal == Filename :> "sound.filename.original"
MCFallback == ("sound.profile" :> "sound.profile.fallback") @@ (Pattern :> "mce.led_pattern.fallback")

MCProfileKeys  == <<"sound.profile">>
MCProfileEntry == ("tone@general" :> [target |-> Filename, key |-> "tone@general"])
                    @@ ("tone@fallback" :> [target |-> Filename, key |-> "tone@fallback"])

MCResources == {[key |-> "media.audio", type |-> "audio", default |-> TRUE],
                [key |-> "media.vibra", type |-> "vibra", default |-> TRUE],
                [key |-> "media.leds",  type |-> "leds",  default |-> FALSE]}

MCSinks == {"mce", "canberra", "gst", "ffmemless", "immvibe"}
MCSinkType == [s \in MCSinks |-> CASE s = "mce" -> "leds"
                                   [] s \in {"canberra", "gst"} -> "audio"
                                   [] OTHER -> "vibra"]
MCPlays == [s \in MCSinks |-> CASE s = "mce" -> "led"
                                [] s \in {"canberra", "gst"} -> "file"
                                [] s = "ffmemless" -> "effect"
                                [] s = "immvibe" -> "pattern"]

MCSinkOrder == <<"gst", "mce", "canberra">>

From(who, says) == [k \in DOMAIN says |-> Value(who, says[k])]

MCEvents ==
  << From("event", ("sound.profile" :> "tone@general")
                     @@ ("sound.profile.fallback" :> "tone@fallback")
                     @@ (Vibra :> "alert.ivt") @@ (Lookup :> "pattern@general")
                     @@ (Haptic :> "event")),
     From("event", (Filename :> "beep.wav") @@ (Custom :> "true") @@ (Pattern :> "blink")
                     @@ (Haptic :> "touch") @@ ("media.vibra" :> "false")
                     @@ ("media.leds" :> "true")) >>

\* Every request that says some of five things.
MCClients ==
  {From("client", [k \in keys |-> CASE k = "media.audio" -> "false"
                                     [] k = "media.vibra" -> "true"
                                     [] OTHER -> "mine.wav"]) :
     keys \in SUBSET {"media.audio", "media.vibra", "audio", Filename, Pattern}}

MCContexts ==
  {From("context", ("alert.enabled" :> "true") @@ ("vibration.level" :> "1")
                     @@ ("tone@general" :> "ring.wav") @@ ("tone@fallback" :> "plain.wav")),
   From("context", ("alert.enabled" :> "false") @@ ("vibration.level" :> "1")
                     @@ ("pattern@general" :> NoSound)),
   From("context", ("alert.enabled" :> "true") @@ ("call_state.mode" :> "active")
                     @@ ("tone@fallback" :> "plain.wav"))}

\* The hypotheses of CoreProofs.
ASSUME MCPipeline == FallbacksAreOwn /\ ResourceKeysPass
=============================================================================
