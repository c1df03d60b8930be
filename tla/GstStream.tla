------------------------------ MODULE GstStream ------------------------------
(***************************************************************************)
(* The GStreamer sink (src/src/plugins/gst/plugin.c): the StreamData of a  *)
(* request from prepare to the free of the stream, which a delayed or a    *)
(* faded stop puts off beyond the life of the request.  The calls of the   *)
(* core are those of SinkContract; GStreamer posts messages on the bus of  *)
(* a pipeline and timers of the main loop fire.                            *)
(*                                                                         *)
(* Streams live in memory cells, as g_slice hands them out: a cell that    *)
(* was freed may be handed out again, and a pointer to it may survive.     *)
(* Volumes, fade curves, roles and the time a fade or a delay takes are    *)
(* left out.  A definition introduced by "Slip" is no part of the model.   *)
(*                                                                         *)
(* When a call becomes active every stream is freed, also those of the     *)
(* requests that go on.  What the code does afterwards with the pointers   *)
(* it keeps is part of the model; cut says which requests that concerns.   *)
(***************************************************************************)
EXTENDS SinkContract

CONSTANTS
  Cells,      \* memory for streams; bound: as many as requests are enough
  Settings,   \* what the sound.* keys of a request may say
  Calls,      \* may a call become active?
  Null        \* no request, no stream

ASSUME CellAssumption ==
  /\ Calls \in BOOLEAN
  /\ Null \notin Requests \cup Cells

VARIABLES
  data,       \* GST_KEY of the properties of a request: the address of a cell
  mem,        \* the stream in a cell; Null when the cell is free
  active,     \* active_streams, a list of addresses
  misused,    \* the call that read or wrote a free cell, with its request
  cut         \* history: requests whose stream was freed, or stopped, by
              \* something else than their own stop

streamVars == <<data, mem, active, misused, cut>>
vars == <<contractVars, streamVars>>

\* What decides the control of a stream; the numbers only matter as zero or not.
Setting ==
  [enabled    : BOOLEAN,   \* sound_enabled
   repeat     : BOOLEAN,   \* repeat_enabled
   delay      : BOOLEAN,   \* delay_startup
   delayStop  : BOOLEAN,   \* delay_stop
   fadePause  : BOOLEAN, fadeResume : BOOLEAN, fadeStop : BOOLEAN]

Stream ==
  [owner     : Requests \cup {Null},                 \* request
   set       : Setting,
   state     : {"notStarted", "playing", "paused", "stopped"},
   pipe      : BOOLEAN,                              \* pipeline # NULL
   target    : {"none", "paused", "playing"},        \* last gst_element_set_state
   ready     : BOOLEAN,   \* the message that it left READY was dispatched
   watch     : BOOLEAN,                              \* bus_watch_id # 0
   eos       : BOOLEAN,                              \* EOS is on the bus
   pending   : BOOLEAN,                              \* synchronization_pending
   delaySync : BOOLEAN,                              \* delay_synchronize_source # 0
   fakePlay  : BOOLEAN,                              \* fake_play_source # 0
   stopping  : BOOLEAN,                              \* delay_stop_source # 0
   \* fade_source # 0, by what fade_completed_cb does: stream_pause, nothing
   \* or stream_stop
   fade      : {"none", "pause", "resume", "stop"}]

ASSUME StreamAssumption == Settings \subseteq Setting /\ Null \notin Stream

-----------------------------------------------------------------------------
(* Functions of one stream.                                                *)

\* gst_sink_prepare, with the pipeline (or the silence) it sets up.
NewStream(r, set) ==
  [owner |-> r, set |-> set, state |-> "notStarted",
   pipe |-> set.enabled, target |-> IF set.enabled THEN "paused" ELSE "none",
   ready |-> FALSE, watch |-> set.enabled, eos |-> FALSE, pending |-> FALSE,
   delaySync |-> ~set.enabled \/ set.delay,
   fakePlay |-> FALSE, stopping |-> FALSE, fade |-> "none"]

\* make_pipeline failed: the stream is left in the list, without a pipeline.
Stillborn(r, set) ==
  [NewStream(r, set) EXCEPT !.pipe = FALSE, !.target = "none",
                            !.watch = FALSE, !.delaySync = FALSE]

ClearDelays(s) ==
  [s EXCEPT !.fakePlay = FALSE, !.delaySync = FALSE, !.stopping = FALSE]

Cleanup(s) ==
  [s EXCEPT !.pipe = FALSE, !.target = "none", !.watch = FALSE, !.eos = FALSE]

\* Slips: a paused pipeline is not set to playing again; a resume fades the
\* sound in only when no fade is going on.
PlayedOnce(s) ==
  IF ~s.set.enabled THEN [s EXCEPT !.fakePlay = TRUE]
  ELSE IF ~s.pipe THEN s
  ELSE [ClearDelays(s) EXCEPT
          !.target = IF s.state = "notStarted" THEN "playing" ELSE @,
          !.state = "playing"]
PlayedUnfaded(s) ==
  IF ~s.set.enabled THEN [s EXCEPT !.fakePlay = TRUE]
  ELSE IF ~s.pipe THEN s
  ELSE [ClearDelays(s) EXCEPT
          !.target = IF s.state \in {"notStarted", "paused"} THEN "playing"
                                                             ELSE @,
          !.fade = IF @ = "none" /\ s.state = "paused" /\ s.set.fadeResume
                   THEN "resume" ELSE @,
          !.state = "playing"]

\* gst_sink_play.  A fade that is started replaces the one going on.
Played(s) ==
  IF ~s.set.enabled THEN [s EXCEPT !.fakePlay = TRUE]
  ELSE IF ~s.pipe THEN s
  ELSE [ClearDelays(s) EXCEPT
          !.target = IF s.state \in {"notStarted", "paused"} THEN "playing"
                                                             ELSE @,
          !.fade = IF s.state = "paused" /\ s.set.fadeResume THEN "resume"
                                                             ELSE @,
          !.state = "playing"]

\* gst_sink_pause: at once, or when the fade has come to its end.
Paused(s) ==
  IF ~s.pipe \/ s.state # "playing" THEN s
  ELSE IF s.set.fadePause THEN [s EXCEPT !.fade = "pause", !.state = "paused"]
  ELSE [s EXCEPT !.target = "paused", !.state = "paused"]

\* gst_sink_stop stops a sounding stream later if its settings say so.
StopsLater(s) ==
  s.state = "playing" /\ s.pipe /\ (s.set.delayStop \/ s.set.fadeStop)

\* Slips: the stream that stops later keeps its request; no timer is set up.
StoppingOwned(s) ==
  IF s.set.delayStop
  THEN [ClearDelays(s) EXCEPT !.state = "stopped", !.fade = "none",
                              !.stopping = TRUE, !.target = "paused"]
  ELSE [ClearDelays(s) EXCEPT !.state = "stopped", !.fade = "stop"]
StoppingForGood(s) ==
  [ClearDelays(s) EXCEPT !.owner = Null, !.state = "stopped", !.fade = "none",
                         !.target = "paused"]

\* The request is not around anymore when the stream is freed.
Stopping(s) ==
  IF s.set.delayStop
  THEN [ClearDelays(s) EXCEPT !.owner = Null, !.state = "stopped",
                              !.fade = "none", !.stopping = TRUE,
                              !.target = "paused"]
  ELSE [ClearDelays(s) EXCEPT !.owner = Null, !.state = "stopped",
                              !.fade = "stop"]

-----------------------------------------------------------------------------
(* The sink calls the core; sinkinterface.c takes no notice of a request   *)
(* that is NULL.                                                           *)

TellsReady(r) == IF r = Null THEN UNCHANGED contractVars ELSE Synchronizes(r)
TellsDone(r)  == IF r = Null THEN UNCHANGED contractVars ELSE Completes(r)
TellsError(r) == IF r = Null THEN UNCHANGED contractVars ELSE Fails(r)

Sets(c, s) ==
  mem' = [mem EXCEPT ![c] = s] /\ UNCHANGED <<data, active, misused, cut>>

\* Slip: the stream stays in the list of active streams.
FreesListed(c) ==
  mem' = [mem EXCEPT ![c] = Null] /\ UNCHANGED <<data, active, misused, cut>>

\* stream_stop; freeing the stream removes its sources and its watch.
Frees(c) ==
  /\ mem' = [mem EXCEPT ![c] = Null]
  /\ active' = active \ {c}
  /\ UNCHANGED <<data, misused, cut>>

Misuses(r, call) ==
  misused' = {<<r, call>>} /\ UNCHANGED <<data, mem, active, cut>>

\* The requests that lose a stream when those in C are freed or stopped.
OwnersIn(C) == {mem[c].owner : c \in C} \ {Null}

-----------------------------------------------------------------------------
(* Calls of the core.                                                      *)

Prepare(r) ==
  \E c \in Cells, set \in Settings :
    /\ mem[c] = Null
    /\ data' = [data EXCEPT ![r] = c]
    /\ active' = active \cup {c}
    /\ \/ Prepares(r) /\ mem' = [mem EXCEPT ![c] = NewStream(r, set)]
       \/ /\ set.enabled /\ Refused(r)
          /\ mem' = [mem EXCEPT ![c] = Stillborn(r, set)]
    /\ UNCHANGED <<misused, cut>>

Play(r) ==
  LET c == data[r]
  IN  IF mem[c] = Null THEN Misuses(r, "play") ELSE Sets(c, Played(mem[c]))

Start(r) == Plays(r) /\ Play(r)

Resume(r) == Resumes(r) /\ r \in played' /\ Play(r)

Pause(r) ==
  /\ Pauses(r)
  /\ LET c == data[r]
     IN  IF mem[c] = Null THEN Misuses(r, "pause")
         ELSE Sets(c, Paused(mem[c]))

\* Slip: a stop does not look at the list of active streams.
StopUnchecked(r) ==
  /\ Stops(r)
  /\ LET c == data[r]
     IN  IF mem[c] = Null THEN Misuses(r, "stop")
         ELSE /\ mem' = [mem EXCEPT ![c] = IF StopsLater(mem[c])
                                           THEN Stopping(mem[c]) ELSE Null]
              /\ active' = IF StopsLater(mem[c]) THEN active
                                                 ELSE active \ {c}
              /\ data' = [data EXCEPT ![r] = Null]
              /\ cut' = cut \cup (OwnersIn({c}) \ {r})
              /\ UNCHANGED misused

\* gst_sink_stop; "check that stream is active" compares addresses.
Stop(r) ==
  /\ Stops(r)
  /\ data' = [data EXCEPT ![r] = Null]
  /\ LET c == data[r]
     IN  IF c \notin active THEN UNCHANGED <<mem, active, cut>>
         ELSE /\ cut' = cut \cup (OwnersIn({c}) \ {r})
              /\ IF StopsLater(mem[c])
                 THEN /\ mem' = [mem EXCEPT ![c] = Stopping(mem[c])]
                      /\ UNCHANGED active
                 ELSE /\ mem' = [mem EXCEPT ![c] = Null]
                      /\ active' = active \ {c}
  /\ UNCHANGED misused

\* Other sinks, clients and timeouts end attempts.
EndAttempts ==
  \E R \in (SUBSET Requests) \ {{}} : Ends(R) /\ UNCHANGED streamVars

-----------------------------------------------------------------------------
(* Messages on the bus.                                                    *)

Alive(c) == mem[c] # Null

\* Slip: a synchronization that is pending is not made up for.
ReportsReadyEarly(s) == ~s.set.delay

\* Before a delayed start-up only a timer that came first is waited for.
ReportsReady(s) == ~s.set.delay \/ s.pending

\* The pipeline changes from READY to PAUSED.
Preroll(c) ==
  /\ Alive(c) /\ mem[c].watch /\ ~mem[c].ready
  /\ LET s == mem[c]
     IN  IF ReportsReady(s)
         THEN /\ Sets(c, [s EXCEPT !.ready = TRUE, !.pending = FALSE])
              /\ TellsReady(s.owner)
         ELSE /\ Sets(c, [s EXCEPT !.ready = TRUE])
              /\ UNCHANGED contractVars

\* The sound comes to its end; the message may wait on the bus.
Drain(c) ==
  /\ Alive(c) /\ mem[c].target = "playing" /\ mem[c].ready /\ ~mem[c].eos
  /\ Sets(c, [mem[c] EXCEPT !.eos = TRUE])
  /\ UNCHANGED contractVars

\* Slip: the end of the sound frees the stream and not only its pipeline.
EosFrees(c) ==
  /\ Alive(c) /\ mem[c].watch /\ mem[c].eos
  /\ LET s == mem[c]
     IN  IF s.set.repeat
         THEN Sets(c, [s EXCEPT !.eos = FALSE]) /\ UNCHANGED contractVars
         ELSE Frees(c) /\ TellsDone(s.owner)

\* A sound that repeats is rewound, another one loses its pipeline.
Eos(c) ==
  /\ Alive(c) /\ mem[c].watch /\ mem[c].eos
  /\ LET s == mem[c]
     IN  IF s.set.repeat
         THEN Sets(c, [s EXCEPT !.eos = FALSE]) /\ UNCHANGED contractVars
         ELSE Sets(c, Cleanup(s)) /\ TellsDone(s.owner)

Error(c) ==
  /\ Alive(c) /\ mem[c].watch
  /\ Sets(c, [mem[c] EXCEPT !.watch = FALSE])
  /\ TellsError(mem[c].owner)

-----------------------------------------------------------------------------
(* Timers.                                                                 *)

\* gst_sink_synchronize_cb: after the start-up delay, or for a silent stream.
DelayedSynchronize(c) ==
  /\ Alive(c) /\ mem[c].delaySync
  /\ LET s == [mem[c] EXCEPT !.delaySync = FALSE]
     IN  IF ~s.set.enabled \/ s.ready
         THEN Sets(c, s) /\ TellsReady(s.owner)
         ELSE Sets(c, [s EXCEPT !.pending = TRUE]) /\ UNCHANGED contractVars

FakeComplete(c) ==
  /\ Alive(c) /\ mem[c].fakePlay
  /\ Sets(c, [mem[c] EXCEPT !.fakePlay = FALSE])
  /\ TellsDone(mem[c].owner)

\* stream_fade_event_cb calls what the fade was started for.
FadeEnds(c) ==
  /\ Alive(c) /\ mem[c].fade # "none"
  /\ LET s == mem[c]
     IN  CASE s.fade = "stop"   -> Frees(c)
           [] s.fade = "resume" -> Sets(c, [s EXCEPT !.fade = "none"])
           [] s.fade = "pause"  ->
                Sets(c, [s EXCEPT !.fade = "none",
                                  !.target = IF s.pipe THEN "paused" ELSE @])
  /\ UNCHANGED contractVars

DelayedStop(c) ==
  /\ Alive(c) /\ mem[c].stopping
  /\ Frees(c)
  /\ UNCHANGED contractVars

\* call_state_changed: the call is active, every stream is freed.
CallActive ==
  /\ Calls /\ active # {}
  /\ mem' = [c \in Cells |-> IF c \in active THEN Null ELSE mem[c]]
  /\ active' = {}
  /\ cut' = cut \cup OwnersIn(active)
  /\ UNCHANGED <<data, misused, contractVars>>

-----------------------------------------------------------------------------
Init ==
  /\ ContractInit
  /\ data = [r \in Requests |-> Null]
  /\ mem = [c \in Cells |-> Null]
  /\ active = {} /\ misused = {} /\ cut = {}

\* After a misuse nothing is known.
Next ==
  /\ misused = {}
  /\ \/ EndAttempts \/ CallActive
     \/ \E r \in Requests :
          Prepare(r) \/ Start(r) \/ Resume(r) \/ Pause(r) \/ Stop(r)
     \/ \E c \in Cells :
          \/ Preroll(c) \/ Drain(c) \/ Eos(c) \/ Error(c)
          \/ DelayedSynchronize(c) \/ FakeComplete(c) \/ FadeEnds(c)
          \/ DelayedStop(c)

Spec == Init /\ [][Next]_vars

\* The main loop dispatches timers and messages, GStreamer prerolls a pipeline
\* (or reports an error) and a sound that is left playing comes to its end.
Fairness ==
  /\ \A r \in Requests : WF_vars(misused = {} /\ Stop(r))
  /\ \A c \in Cells :
       /\ WF_vars(misused = {} /\ Preroll(c))
       /\ WF_vars(misused = {} /\ Drain(c))
       /\ WF_vars(misused = {} /\ Eos(c))
       /\ WF_vars(misused = {} /\ DelayedSynchronize(c))
       /\ WF_vars(misused = {} /\ FakeComplete(c))
       /\ WF_vars(misused = {} /\ FadeEnds(c))
       /\ WF_vars(misused = {} /\ DelayedStop(c))

FairSpec == Spec /\ Fairness

-----------------------------------------------------------------------------
(* What the sink must never do and must eventually do.                     *)

\* Every variable has its type.
TypeOK ==
  /\ phase \in [Requests -> Phases]
  /\ paused \subseteq Requests /\ played \subseteq Requests
  /\ data \in [Requests -> Cells \cup {Null}]
  /\ mem \in [Cells -> Stream \cup {Null}]
  /\ active = {c \in Cells : mem[c] # Null}
  /\ misused \subseteq Requests \X {"play", "pause", "stop"}
  /\ cut \subseteq Requests

\* No timer and no watch is left that would pass a freed request to the core:
\* a stream that outlives its request has let go of it.
SourcesOwned ==
  TypeOK /\ \A c \in Cells : Alive(c) =>
    LET s == mem[c]
    IN  s.watch \/ s.delaySync \/ s.fakePlay =>
          s.owner = Null \/ Held(s.owner)

\* A stream whose request is gone has a timer that will free it, unless its
\* pipeline could never be made or a request that a call has cut off uses it
\* for its own, by an address that was handed out again, and will stop it: no
\* sound goes on for ever.
StopsInTheEnd ==
  \A c \in Cells : Alive(c) =>
    LET s == mem[c]
    IN  \/ s.owner # Null /\ Held(s.owner)
        \/ s.set.enabled /\ s.state = "notStarted" /\ ~s.pipe
        \/ s.stopping \/ s.fade = "stop"
        \/ \E r \in cut : Held(r) /\ data[r] = c

HasStream(r) == Held(r) /\ data[r] # Null /\ Alive(data[r])

\* A stream that was prepared reports that it is ready, whichever of the
\* preroll and the start-up delay comes first, unless a
\* resume during the delay plays it early or a call frees it.
SynchronizesUnlessResumed ==
  \A r \in Requests :
    phase[r] = "preparing" ~>
      \/ phase[r] # "preparing" \/ r \in played
      \/ misused # {} \/ r \in cut

\* A sound that is neither paused nor repeated for ever comes to its end,
\* however often it was paused and resumed, unless a fade of a pause without
\* one of a resume may silence it.
SoundEnds ==
  \A r \in Requests : []<>
    \/ phase[r] # "playing" \/ r \in paused
    \/ misused # {} \/ r \in cut
    \/ LET s == mem[data[r]]
       IN  \/ s.set.enabled /\ s.set.repeat
           \/ s.set.fadePause /\ ~s.set.fadeResume
           \/ ~s.pipe /\ ~s.fakePlay

\* While a request plays and is not paused its pipeline is playing, unless it
\* fades out without fading in again.
PipelineFollows ==
  \A r \in Requests :
    HasStream(r) /\ mem[data[r]].owner = r /\ mem[data[r]].state = "playing" =>
      LET s == mem[data[r]]
      IN  (s.set.fadePause => s.set.fadeResume) /\ s.pipe =>
            s.target = "playing"

-----------------------------------------------------------------------------
(* What assertions and comments claim, and for whom it holds.              *)

\* play and pause assert that they are given a stream: they use one that was
\* freed only for a request that a call has cut off.  And "check that stream is
\* active, if it's not then it has already been stopped and freed": the stop of
\* gst_sink_stop never does, not for these requests either.
NoUseAfterFree ==
  \A m \in misused : m[1] \in cut /\ m[2] \in {"play", "pause"}

\* Until it is stopped itself, or cut off, a request has its stream, at the
\* address it remembers: late stops, the ends of fades and of sounds, and the
\* stops of other requests leave it alone while memory is handed out again.
StopsOwnStream ==
  \A r \in Requests :
    Held(r) /\ r \notin cut =>
      data[r] \in active /\ mem[data[r]].owner = r
=============================================================================
