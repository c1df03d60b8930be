# A TLA+ model of ngfd, the non-graphic feedback daemon

ngfd plays feedback (sounds, vibration, LEDs, tones) for other programs. A
client asks for an event over D-Bus; the daemon resolves the event from its
rules, lets every sink that can render it prepare, plays them together, and
tells the client how the request goes on. This directory holds TLA+ modules that
model the daemon, TLC configurations that check them, and proofs that TLAPS
checks. Paths are relative to the root of the repository (its code is below
`src/`), lines are those of the commit this was written against.
`PROJECT.json` lists every run, the lines each definition stands for, a mutant
that breaks each property, the hazards of the code, and the theorems.

1. [The system](#1-the-system) - inventory
2. [The modules](#2-the-modules) - what models what
3. [The runs](#3-the-runs) - questions, bounds, fairness
4. [The proofs](#4-the-proofs)
5. [Known disagreements](#5-known-disagreements) - where the code does not do what it says
6. [What is left out](#6-what-is-left-out)
7. [Plan](#7-plan)

To check: `tlc -config X.cfg M` for the `module` and `cfg` of a run; `tlapm M.tla`
for each of the proof modules, those whose name ends in `Proofs`.

## 1. The system

The daemon is a single thread that runs a GLib main loop. D-Bus messages, timers
(`g_timeout_add`), idle sources, GStreamer bus messages, PulseAudio and context
callbacks are all dispatched by it, one after the other. There are no locks and
no data races; what is hard is the **order of callbacks**. A callback that holds
a pointer or a source id outlives what it points to; a status is sent for a
request that has changed since; a sink reports when the request already ends.

| Component | Source | State it keeps | Operations | Status |
|---|---|---|---|---|
| Player | `ngf/core-player.c`, `request.c`, `inputinterface.c`, `sinkinterface.c` | `core->requests`; per request: three sources, five lists of sinks, flags | play, pause, resume, stop; synchronize, complete, fail, set resync, resynchronize; three callbacks | modelled, proved |
| Core: events and context | `eventlist.c`, `event.c`, `eventrule.c`, `context.c`, `core.c` (reload) | events by name, shared rules with cached answers, context values and subscribers | parse, set value, evaluate, reload | modelled, proved |
| Core: start and shutdown | `main.c`, `core.c`, `plugin.c`, `hook.c` | plugins, sinks, inputs, hooks | open, load, order, initialize, fire, unload | modelled, proved |
| D-Bus input | `plugins/dbus/` | clients with counts of references and of requests, limits | Play, Stop, Pause, NameOwnerChanged, statuses | modelled, proved |
| D-Bus helper of the core | `core-dbus.c` | two connections, their references, filters, matches, pending calls | async call, add and remove match, free | modelled, proved |
| GStreamer sink | `plugins/gst/plugin.c` | a stream per request: pipeline, bus watch, four timers; the flag for system sounds | the sink calls, bus messages, timers, call state, sound level | partly (no volumes), proved |
| Timer sinks | `plugins/{canberra,fake,null}/plugin.c` | a record with a timer per request; connection and sample cache | the sink calls, timer | modelled, proved |
| LED sink | `plugins/mce/` | active patterns by request | activate, deactivate, replies and signals | modelled, proved |
| Immersion vibra sink | `plugins/immvibe/` | device handle, effects, poll and idle sources | start, repeat, poll, stop | modelled, proved |
| Force feedback sink | `plugins/ffmemless/` | table of effects, kernel slots, copies, timers | upload, play, pause, erase, complete | modelled, proved |
| Tone generator | `plugins/tonegen/` | connection, two shared streams, mute timeout | start, stop, drain, retry, mute | partly (no chains of tones), proved |
| Stream restore | `plugins/streamrestore/` | connection to PulseAudio, queued calls, entries and paths, roles, transforms | connect, retry, subscribe, set, query, signals | modelled, proved |
| Profile, call state, device lock, route trackers | `plugins/{profile,callstate,devicelock,route}/` | one or more context values each | queries, replies, signals | modelled, proved |
| Property and sink filters | `plugins/{transform,resource}/`, profile, `ngf/haptic.c` | keys allowed, media settings | hooks of the core, `can_handle` | modelled, proved |
| Values and property lists | `value.c`, `proplist.c` | containers | copy, set, get, merge | as functions only |
| Logging | `log.c` | | | not modelled: output |

**How they interact.** An input plugin makes an `NRequest` and calls
`n_input_interface_play_request`; the core runs the hooks (transformations,
filters of sinks), evaluates the request to an event (`EventRules`), asks each
sink whether it `can_handle`, and calls `prepare`. Sinks answer through
`sinkinterface.c`, from within the call or any time later: *synchronize* (ready),
*complete*, *fail*, *resynchronize*. When all are ready an idle source starts
them; when all are done, one fails, a client stops, or the maximum timeout fires,
an idle *done* source stops all sinks, sends the last status to the input, and
frees the request, or plays its fallback in its place, under the same id. Context
values are written by the trackers and read by rules, by the roles of stream
restore, by the haptic helper and by the gst sink. Trackers and the LED sink share
the connections of `core-dbus.c`; tonegen and stream restore have connections to
PulseAudio of their own.

**What makes each part correct.**

- *Player*: a request that ends has no source that could start it again; no source
  or sink outlives the request; sinks start only when all are ready; every sink
  that holds data is stopped; every accepted request gets one last status; a
  request that goes on has something that could end it.
- *Events*: an evaluation finds the event that the files promise, although answers
  are cached and rules shared; no callback reaches a rule that was freed by a reload.
- *D-Bus input*: a client structure lives exactly as long as something points to it;
  the limits hold; what a client leaves behind ends.
- *Sinks*: no timer, watch or stream reports to a freed request; no stream is
  used after it was freed, or stopped for another; a prepared stream becomes ready;
  a stream that outlives its request is freed.
- *D-Bus helper*: a connection is kept exactly while it is needed, and whoever
  listens hears.
- *Stream restore*: volumes end where the rules say, across restarts of PulseAudio;
  there is always one thing that will bring the connection back, never two.
- *Trackers*: when nothing is under way the context says what the services do, in
  whatever order the first answer, signals and changes came.
- *Start*: nothing calls into a plugin whose module was closed; what a client says
  reaches the sinks under allowed keys only; a request is offered to the sinks it is meant for.

The complete list of the hazards, each at its line, is in `PROJECT.json`.

## 2. The modules

```
 RequestLifecycle <-- implements -- Player -- implements --> SinkContract
        |                             |                           |
     EXTENDS                   PlayerProperties                EXTENDS
        |                                              +----------+-----------+
    DbusInput                                       GstStream  TimerSink  MceLed
                                                               Immvibe  Ffmemless
 EventRules    CoreDbus    ContextTrackers                     Tonegen
                                                                  |
 RequestPipeline  <-- EXTENDS -- CoreBoot                     INSTANCE
                                                                  |
 PulseLink <-- EXTENDS -- VolumeController <-- StreamRestore    Sinks

 Lists: the loops of EventRules, RequestPipeline, CoreBoot and StreamRestore
```

Two **abstract specifications** tie the parts together. `RequestLifecycle` is what
the core promises to inputs: an id is accepted once, begins to end once, is
retried with its fallback at most once and only after a failure, gets one last
status. `SinkContract` is what it promises to one sink: in which order prepare,
play, pause and stop come for one attempt at a request, and what the reports of
the sink do. `Player` is checked to implement both (properties
`ImplementsLifecycle`, `KeepsSinkContract`). The model of the input is built *on*
the first, and those of the sinks *on* the second: they see exactly the orders of
calls that the player was shown to keep to. A fallback is an attempt of
its own, with its own record.

In every module an action is one callback of the main loop, run to its end, with
everything it calls. A definition introduced by the word "Slip" is no part of the
model: it is a definition with a plausible bug, which the mutants of
`PROJECT.json` put in its place.

**Player.** The fields of `Request` are those of `NRequest`, by the name in the comment. `play`,
`stop` and `max` stand for the three source ids being non-zero. `preparing`, `prepared`, `resync`,
`stops` are the lists, as sets; `playing` counts, since a sink can stand in `sinks_playing` twice
after a resynchronization. `data` is not in `NRequest`: it is what the sinks keep for it. Nor is
`lost`: the sinks whose effect was taken away by a call (`CallActive`, for the sinks of `CallSinks`,
of which gst is the one there is), which changes nothing that the player can see. Functions of one
request (`SetupDone`, `FailSink`, `CompleteSink`, `SynchronizeSinks`, ...) have the names of the
`n_core_*` functions they translate, and the order of early returns is kept. Sinks are prepared in
the order of their list up to the first that fails; those of `prompt` call synchronize from within
prepare. Calls that end the daemon (`g_assert`, NULL data) set `aborted`, after which nothing
happens. Which event, sinks, timeout and fallback a request has is chosen freely: `EventRules` and
the hooks decide it. `Unkeyed` stands for tonegen, which keeps no data with the request, `NoPrepare`
for a sink without prepare.

**Lists.** A loop of the code over a list is `Through`: what the members, one after the other, make of
what there was. It is a recursive *function*, so that the proofs can say what each step keeps.
`Orders` are the orders in which a hash table may be walked, `Only` is the filter.

**DbusInput.** `RequestLifecycle` plus `clients`, `ref`, `active_requests` and the
client a request belongs to. `PlayMalformed` is the Play whose arguments are
refused *after* the client was registered. `ServiceRestarted` is NameOwnerChanged
of ohmd or mce, which stops all requests. Retry keeps the client: the fallback copy
has the same pointer in its properties. `excused` is history: the requests whose attempt had failed
when their client left. A bus name is unique and never handed out
twice (D-Bus specification), so `gone` names do not call again.

**EventRules.** A configuration is two sequences of groups, shipped and user's. The
list is built from them exactly in the order of the code: merging of equal rules,
sort of rules and events, layering of properties, removal of events, subscription
with every group. The cache of a rule has four states (inactive, unset, true,
false). A subscription names the list and the rule, so that a rule of a freed list
can be told from one in use. The reload exists twice, for files that define an
event and files that do not: the order of subscribing the new list and
unsubscribing the old matters, because the context drops the *first* subscriber of
the key with the same callback. `Promised` and `PropsOf` are the reference: they say
from the configuration alone, without lists, caches and subscriptions, which event
a request gets and which properties it has.

**GstStream.** A stream lives in a memory cell, to which the properties of the request and the list
of active streams point. Freed cells are handed out again. The fields are those of `StreamData`,
timers and watch as booleans. `target` is the last state asked of the pipeline, `fade` tells what
the end of the fade will do. The actions are the sink calls, the pipeline that prerolls, drains, and
has its end or an error dispatched, the four timers, and a call that becomes active, which frees
every stream. `misused` and `cut` are history: which request used a freed cell, in which call of the
core, and which request a call cut off.

**Sinks** composes the five sinks below under one `SinkContract`: `Init` chooses the
device, and each keeps its own variables. (What several sinks do to one request is in
`Player`; what one sink does with several requests is here.)

- *TimerSink*: one module for canberra, fake and null: without a sample a play only
  sets a timer. The number of a timer tells the timers of one request
  apart; `id` is the one the record knows. `context`, `cached_samples` and
  `support_cached_samples` are canberra's; `server` is the external libcanberra,
  which forgets everything with its connection.
- *MceLed*: `active_events` as a set of requests with their pattern, what the requests
  asked of mce, and the messages to and from mce in the order of the bus. mce is
  external: it lights patterns, acknowledges, and says when one has ended.
- *Immvibe*: the effect, the poll source and the idle source of a request; `device`
  is the external daemon, which hands out ids of effects and may lose them.
- *Ffmemless*: the table of effects read at start, the copy each request has of its
  effect, the slots of the kernel. `cacheEffects` is the setting: without it the
  effects stay uploaded, with it each play uploads and each end erases.
- *Tonegen*: the stream of indicators and that of DTMF with their states as PulseAudio
  tells them, whether each has a tone, the connection and its retry, the mute flag
  and its timeout. It keeps nothing with a request.

**CoreDbus.** References, filters, matches and pending calls per bus. `filterSet` is
the flag of the code, `hooked` the filter libdbus has. `wanted`, `reused` and
`released` are history: who listens, on which bus a listener joined an existing
match, and which connection was given up once.

**ContextTrackers.** Two halves. *D-Bus trackers*: `outbox` is what a tracker sent when it
was loaded (the match, then the query), `inbox` the answers and signals on their way;
`Serve` and `NotThere` are the bus and the service, `Change` and `Restart` the world.
`callActive` is the haptic helper's flag. *Profile*: `asking` are the profiles
whose values `query_current_values` has still to ask for, `tracking` that
`profile_tracker_init` was called, `news` the signals of profiled on their way.
`enabled` is gst's flag for system sounds, set by `InitDone` and each report.
`restarted` and `missed` are history: of which services, and whether of profiled,
the code can know nothing.

**PulseLink, VolumeController, StreamRestore.** `PulseLink` is the connection alone: address from
the environment or the session bus, open, filter, retry timer. It also is an abstract specification:
`StreamRestore` is proved to implement it. `VolumeController` holds operators from a *world* (the
record of what ngfd keeps and what PulseAudio has) to a world, one for each call that a handler
makes, because one handler makes several. `StreamRestore` is the state machine: `plugin.c` with its
roles, transforms and the context on top of the link. `lost`, `reordered`, `rerouted`, `missed` in
the world are history for the exceptions of the properties. `missed` are the streams whose last
volume ngfd could not hear: it was set while there was no connection, or before the new path of the
entry was listened to; `Heard` ends that with a signal or an answer that has the volume of now. The
parameters are read in any order, as are the keys at the end of the start, since both are in hash
tables; a role is `known` once it was read. A connection is `up`, `dead` (PulseAudio is gone, ngfd
does not know yet: calls fail) or `None`. `RetryTimeout` may find the connection dead in the middle
of the queue.

**RequestPipeline, CoreBoot.** `RequestPipeline` is a pure module: the hooks of transform, profile
and resource and the steps of `n_core_prepare_request` as functions on properties, whose values
carry who said them. `CoreBoot` (whose specification is `BootSpec`, since its proofs share a module
with those of `EventRules`) is the state machine of `main.c` and `core.c`: modules are opened and
loaded one at a time, each may fail before, between or after what it registers (`FailsAfter`), then
sinks and inputs are initialized, hooks fired, requests played, plugins unloaded. `strayed` is
history: plugins that were called after their module was closed.

## 3. The runs

| Run | Distinct states | Question |
|---|---|---|
| `player_safe` | 337 033 | One request with its fallback and three sinks that synchronize, complete, fail and are resynchronized by the master in every order, against stops, pauses, resumes and the timeout: safety, and is the invariant of the proofs one? |
| `player_live` | 21 533 | Does every request get its last status; does the player implement the two abstract specifications? |
| `player_restart` | - | Violation, see [5](#5-known-disagreements) |
| `dbus_clients` | 335 824 | Are the two counts of a client exact, do the limits hold, is everything freed? |
| `rules_reload` | 33 828 | Caches, subscriptions, and the outcome of each evaluation, over every order of up to three groups and two reloads |
| `gst_sound` | 8 435 | One stream with each of its settings: owned sources, stop in the end, readiness, completion |
| `gst_two` | 32 008 | Two streams, two cells, and calls that free both: who uses freed memory, whose stream a stop finds |
| `sinks` | 704 156 | canberra, mce, immvibe, ffmemless and tonegen, each with two requests: does what they keep end with the request it is kept for? |
| `dbus_listen` | 14 304 | Two buses, two signals, two callbacks: references and delivery |
| `trackers` | 1 737 852 | Does the context follow the services and profiled through start, signals and restarts? |
| `volumes` | 1 438 757 | Do volumes arrive where the rules say while PulseAudio goes and comes back; is the connection made again? |
| `boot` | 4 769 | Nine plugins that load or fail at each place, then every request of a small set through the hooks to the sinks |

What the properties say is written above each of them. Some remarks:

- `NeverForgotten` is the safety side of `EventuallyClosed`: without it a request
  could wait for a sink that is not at work. It holds although completions that
  arrive before the sink is noted as playing are dropped.
- `NeverForgotten`, `EventuallyClosed` and `KeepsSinkContract` are checked without
  resynchronization. No sink of the repository calls it, and a resynchronized sink stands
  in `sinks_playing` twice, is played again without a stop, and one completion
  leaves the other entry. Safety with resynchronization is in `player_safe`.
- `TimeoutStaysArmed` and `LateFailureIgnored` are properties of steps.
- `EvaluationIsExact` and `OfferIsExact` compare with a definition written from the
  configuration alone, without lists, caches, priorities or merging in place.
- `RefsAreCounted` is an equation for buses on which nobody joined an
  existing match, and an inequality for the others, on which the code leaks.
- Where a property excludes a case (`SynchronizesUnlessResumed`, `SoundEnds`, `RolesReachPulse`,
  `TransformsFollow`, `ContextFollows`, `LevelFollows`, `NothingOutlivesItsData`,
  `TonesHaveRequests`, `MuteIsReleased`, `EffectsEnd`, `PipelineFollows`, `CallsReachOpenPlugins`,
  `NoUseAfterFree`, `StopsOwnStream`, `StopsInTheEnd`, `OrphansAreEnding`, `GoneClientsAreFreed`,
  `EventuallyClosed`, `FirstListenersHear`), the case is one in which the code does otherwise; it is
  named in the comment, and each is listed in [5](#5-known-disagreements). The entry of a hazard in
  `PROJECT.json` says which half of it is caught and which is excepted.
- `NoUseAfterFree`, `StopsOwnStream` and `StopsInTheEnd` are checked and proved *with* the call that
  frees every stream. They say how far its harm goes: only the requests that it cut off use freed
  memory, in a play or pause and never in a stop; what the others have is theirs, also while memory
  is handed out again.

**Bounds.**

- *Requests of the player.* Requests share only `core->requests`, which only
  `StopAll` reads as a whole, and it treats each alike. One request therefore shows
  every behaviour of one; the proofs cover any number. Three sinks are a master, one
  that behaves like it and one that behaves differently, and give a list with a
  first, a middle and a last place for a prepare that fails.
- `MaxCopies` bounds how often a resynchronized sink stands in `sinks_playing`;
  2 is the first value at which removal of one copy differs from removal of all.
  It is a guard of `Resynchronize` only, hence the proofs hold for any value.
- *Clients*: two, `MaxClients = 1` and `MaxRequests = 2`, so that either limit is met;
  three requests, so that one client can be refused its third.
- *Rules*: the groups follow the shipped `data/events.d`: rules on the request and
  on the context, a shared context rule, the operators equals, nequals, greater and always, several
  priorities, and four additions of a user (removed event, removed property, changed
  priority, changed property). Two keys, four values, `"*"` among them. `MaxReloads = 2`
  allows a good reload after a failed one and the reverse.
- *Cells*: as many as requests; a stream needs one, and a stopped stream that
  lingers makes the next prepare wait for a cell. That leaves out only memory that
  is handed out fresh, which nothing points to.
- *Sinks*: two requests, because patterns, slots and streams are shared by requests;
  two patterns, effects and samples, so that sharing and not sharing both occur;
  three slots, two of which the table takes. `MaxPlays = 2` allows one resume, after which a second
  timer, effect or upload exists.
- *CoreDbus*: `MaxId = 3` and `MaxCalls = 1`: three listeners, one of which joins a
  match on either bus.
- *Trackers*: mce, whose values are not independent (a call within a call), and one
  of the others, which are alike; two profiles; levels on both sides of the ends of
  the table and between. `MaxChanges = 2`: a change and its reverse, a change and a restart.
- *Volumes*: one role with a rule per route and a minimum of two keys; a transform to a stream and
  one to the context; a fixed volume for the stream that is transformed; a volume of two channels
  that differ, of which the code makes one volume in two ways. `MaxChanges = 2`, `MaxRestarts = 1`,
  two addresses (a restart may change it).
- *Boot*: the plugins of the shipped `ngfd.ini` that register or fail in different
  ways; two events; all 32 requests that say some of five things; three contexts; three resources, one of them
  disabled by default.

`CHECK_DEADLOCK FALSE` is set where the system really stops: ids are used up
(Player, DbusInput, GstStream, Sinks, CoreDbus hand out a bounded number),
changes are used up (ContextTrackers, StreamRestore), the start failed or the daemon ended (CoreBoot), the
daemon has aborted, or memory was misused and nothing is known any more.
`rules_reload` checks for deadlock. Symmetry is used only where no liveness is
checked, over requests, cells, keys and callbacks that no definition tells apart.

**Fairness.** Always weak, and always of the main loop or of what it waits for:

- *Player*: an idle source or a timeout that stays armed is dispatched (`SynchronizeDone`,
  `RequestDone`, `MaxTimeout`); a sink that deferred in prepare reports in the end, as long as its
  effect is still prepared, was not played by a resume, and was not taken away by a call
  (`Reports`). The second is an obligation of the sinks. `gst_sound` discharges it for gst with
  these exceptions and no others (`SynchronizesUnlessResumed`), and the timer sinks meet it by
  synchronizing in prepare. Nothing is assumed of clients, nor that an effect comes to its end.
  Hence the two exceptions of `EventuallyClosed`: a request without a timeout whose sinks play on,
  and one that waits for a sink that was resumed early or lost its effect.
- *RequestLifecycle, DbusInput*: a pending done source is dispatched.
- *GstStream*: timers and messages are dispatched; GStreamer prerolls a pipeline or
  reports an error, and a pipeline left playing drains. Stop comes when the attempt
  ends (from `SinkContract`, which the player implements).
- *StreamRestore*: of the connection only: the retry timer fires, the session bus is found in the
  end and answers (with an address or an error; a retry that finds no session bus sets its timer
  again, and does not count), and the end of a connection is noticed. That PulseAudio starts again
  is not assumed: `Reconnects` speaks of the case that it stays.

## 4. The proofs

Eight modules of proofs, for **every** value of the constants that meets the assumptions. Each is
about one specification, but `CoreProofs`, which is about `EventRules` and `CoreBoot`. The
exceptions of a property are those of its definition, and are the same in run and theorem. Every
invariant and every action property of a passing run is stated by one of the theorems.

| Module | Theorem | States |
|---|---|---|
| `PlayerProofs` | `Invariance` | `[]PlayerInv`, the inductive invariant |
| | `TypeCorrect` | every variable keeps its type |
| | `DoneTakesPrecedence` | a request that ends has no play source and no timeout |
| | `SourcesDie` | no source and no list entry outlives its request |
| | `UnlistedEnds` | a request that no lookup finds is ending |
| | `PlaysAfterSynchronization` | playback is scheduled only when all sinks are ready |
| | `KeepersAreStopped`, `NothingIsLeft` | whoever keeps data is on the stop list; nothing is kept for a freed request |
| | `ResyncAssertionHolds` | the assertion of `n_core_resynchronize_sinks` never fails |
| | `LateFailuresAreIgnored`, `TimeoutsStayArmed` | the two action properties of the player |
| | `ImplementsLifecycleSteps` | the safety part of `ImplementsLifecycle`: the initial states and every step map to `RequestLifecycle` |
| | `NobodyIsForgotten` | every request has something that could end it: where no sink resynchronizes (`~MasterResyncs`) |
| | `SinksGetTheirContract` | `KeepsSinkContract`: for every sink with a prepare function, and for attempt and fallback alike, the initial states and every step map to `SinkContract`; with the same hypothesis |
| `SinksProofs` | `TimersDieWithTheirData` | no timer, source or list entry outlives the data of its request |
| | `CacheFollowsTheConnection` | canberra believes nothing cached that the present connection has not |
| | `WhatIsStartedEnds` | LED and vibration end with their requests, and a vibration is watched |
| | `SlotsAreNotLost` | each effect in the kernel is of the table or of a held request |
| | `TonesBelongToRequests`, `MuteHasAnEnd` | no tone without a request, no mute without an end |
| `DbusInputProofs` | `CountsStayExact` | reference and request counts, and the limits |
| | `OrphansEnd` | what a client leaves behind is ending, running fallbacks included, but for the retry of an attempt that had failed before |
| `CoreDbusProofs` | `ReferencesCount` | references of a connection; it is kept exactly while referenced |
| | `ListenersHear` | the first listeners of a signal hear it |
| `GstStreamProofs` | `StreamsLetGo`, `PlayingSounds` | sources are owned; a playing request has a playing pipeline |
| | `StreamsAreThere`, `StopsFindTheirs`, `SoundsAreFreed` | only what a call cut off uses freed memory, and no stop does; whoever was not cut off has its own stream; no stream is left over. With calls, streams and cells without limit |
| `ContextTrackersProofs` | `ContextsFollow`, `LevelsFollow` | `[]ContextFollows`, `[]LevelFollows` for any number of changes |
| `StreamRestoreProofs` | `NeverStuck` | exactly one thing can wake the connection up |
| | `ImplementsLink` | every step is one of `PulseLink` or leaves the connection alone |
| | `RolesAreReached` | `[]RolesReachPulse`: PulseAudio has the volume that the rules of a role make of the context; for roles that nothing else writes (`RolesAreOwn`) |
| | `TransformsAreFollowed` | `[]TransformsFollow`: the paths that are listened to are those of the entries, and the last volume that could be heard is carried over; for transforms whose targets nothing else writes (`TransformsAreOwn`) |
| `CoreProofs` | `AnswersStayFresh` | `[]CacheIsFresh`: no cached answer is stale |
| | `CallbacksFindLiveRules` | a context change calls context rules of the list in use, each once |
| | `UsedRulesAreSubscribed` | a context rule that an evaluation can look at hears of its key |
| | `EvaluationsAreExact` | `[]EvaluationIsExact`: every evaluation finds the event that the files promise, with its properties; for files that make sense (`FilesMakeSense`) |
| | `CallsStayIn` | `[]CallsReachOpenPlugins`: no call into a closed module, but of what an optional plugin left |
| | `ClientsAreFiltered` | `[]ClientKeysAreFiltered`: clients are heard under the allowed keys only; where fallbacks have keys of their own (`FallbacksAreOwn`) |
| | `OffersAreExact` | `[]OfferIsExact`: a request is offered to the right sinks, in their order; where the keys of resources are let through (`ResourceKeysPass`) |

*Assumptions*, all in the modules that declare the constants:

- `RankAssumption`: the order of the sinks is total and strict, so a
  request has one master (`n_core_sink_priority_cmp` orders by the priority that
  `sink-order` gives; sinks it does not name have priority 0, and the sort is stable, so
  that ties keep the order in which the sinks were registered). `SinkAssumption`: the special
  sinks are sinks (those of `CallSinks` too), the bound is positive.
- `ClientAssumption`, `LimitAssumption`: nobody is no client; limits are numbers.
- `CellAssumption`, `StreamAssumption`, `NoneAssumption`, `ProfileAssumption`: the value for
  "nothing" is none of the things. (For `ProfileAssumption`: a profile named
  `current` would share its context key with the current one.)
- `BoundAssumption`, `TrackerAssumption`, `LinkAssumption`, `StreamRestoreAssumption`: types of
  bounds and tables; the table of volumes is not empty, as that of the shipped `profile.ini`. A role
  with a default has no other rule, and a stream has one transform: the tables of the plugin hold
  one value for a key.
- `FilesAssumption`, `AskedAssumption`: what the parser makes of a file is a list of groups, each
  with a known name, a priority, properties by key, and a list of rules, whose context rules look at
  keys of the context; a request names an event of the table.
- `StartAssumption`: a plugin is named once, and no two sinks have one name (`gst` and the others
  name themselves); transform and resource act through their hooks. `SayingsAssumption`: what an
  event or the context says is not from a client. `PipelineAssumption`: types; what a key is mapped
  to has a key under which the original is saved.
- `SinksAssumption`: what is a request is not the name of an effect or one of the words that say whose a
  slot is; the slots are numbers, as ids of the kernel are.

`NobodyIsForgotten` and `SinksGetTheirContract` have the hypothesis `~MasterResyncs`: no sink of the
repository calls `n_sink_interface_resynchronize`, which is the call the constant stands for. With it
both are false (section 3), and everything else that is proved of the player holds with it too.

The theorems of `CoreProofs` about events have the hypothesis that no *shipped* file read by a
reload takes an event back with `%unset_event` (a user's may, and so may any file at the start).
Without it they are false: a shipped list that takes back all it makes fails the reload, and freeing
it drops subscribers of the list in use (section 5).

The other hypotheses are about configurations, and without them the property is not what the code
does. The MC modules `ASSUME` that their instances, which follow the shipped files, meet them
(`MCFilesMakeSense`, `MCPipeline`, `MCRolesAreOwn`, `MCTransformsAreOwn`).

- `FilesMakeSense`: a group names each of its rules once, no two rules differ in their target alone
  (the code takes them for one, section 5), and a group that removes an event comes behind one that
  makes it (the code adds the event otherwise).
- `FallbacksAreOwn`: the keys that a fallback replaces are not allowed to clients, and nothing is
  mapped to them. `ResourceKeysPass`: the keys of resources are allowed and reach the filter as they
  are.
- `RolesAreOwn`: a role is no stream of a transform, nor one with a fixed volume.
  `TransformsAreOwn`: two transforms have two targets, and a stream that a transform writes is no
  role, has no fixed volume, and is not transformed again.

Nothing is assumed of finiteness of requests, sinks, clients, context keys of rules, streams or
cells. (Stream restore has finitely many parameters and keys, since it reads all of them.) In
`DbusInputProofs` and `CoreDbusProofs`, which count, that what is counted is finite is part of the
invariant.

*The arguments.*

- *Player.* The properties are not inductive alone. `PlayerInv` adds what one
  request looks like between two callbacks: `DoneFirst`, `PlaysSynchronized`,
  `KeepersStop`, and `MasterWaits`, which is the one that needs an idea. The
  assertion says that no sink is preparing when the master resynchronizes. The guard
  of that call is that the master stands in `sinks_playing`; so the invariant must say
  that a master that plays waits for nobody (`preparing = {}`), which in turn needs
  that it stands there once (else it would still be there after its own removal, while the
  others prepare again), is never on the resync list (else it would prepare itself while it
  plays), and is not in `prepared` (else it would be counted twice by the next start) unless
  the request ends. For ids without a request `Idle` says that nothing is left, which
  makes a new request begin like `Blank`. Lemmas prove that each function of one
  request preserves `Request`, `Sound`, `stop`, and the sets it leaves alone; the step
  lemma has one case per action.
- *Player to RequestLifecycle.* The mapping reads the stage of an id from its request: absent, open
  (playing or paused), ending when the done source is pending, failed when it is and `has_failed` is
  set. A call that takes effects away changes nothing of that (`SameBut`, `CallUnseen`). The lemmas
  say per group of actions which abstract action it is, or that none of the mapped variables
  changes.
- *Nobody is forgotten.* `Attended` of a request says what `NeverForgotten` needs: a source is
  pending, or a sink still prepares, or the list of playing sinks is not empty; and each entry
  of that list is *one* entry of a sink whose data is at work. That is why a sink must not stand there
  twice, and why a completion dropped before the sink was noted as playing is harmless: its data stays
  active until the stop.
- *Player to SinkContract.* The mapping reads what a sink sees from the lists: preparing, prepared,
  playing, ending, gone. The functions of the core walk lists and move several sinks at once; so
  `Serves` states for one sink what a function of one request amounts to, `SeenMoves` which moves of
  one attempt the contract has, and `MovesAreSeen` puts it together with the attempts that stay as
  they were. `StopAll` ends several attempts at once, which the contract takes as one step. The done
  source that starts the fallback is seen by the sink in both attempts, as a stop in one and a begin
  in the other.
- *Sinks.* One invariant for each device, under the guard that it is the device. *canberra*: `Datum`
  ties the timers of a request to its record as long as it was played once; `Cache` says that a
  sample is on the list only while connection and server agree. *mce*: for a request that alone
  wants its pattern, `LightIsFollowed`: if the LED is lit or a call that will light it is on its
  way, then it is listed, or a call that puts it out comes behind every call that lights it, or its
  end is on its way. The order in the queue of the bus carries the argument. *immvibe*: only a fresh
  request is ever started, hence each effect that sounds has one owner (`Owned`). *ffmemless*: whose
  a slot is, is compared with what the table and the data know of it, through both passes of the
  setup; that a copy's slot is not that of another follows from the kernel, which hands out free
  ones. *tonegen*: what each of the two streams may be in each state of the connection
  (`ToneParts`).
- *Lists without one element.* The list of the LED sink without a request is a recursive function.
  What it returns for any list is proved by induction over a *set* of numbers (the least number at
  which the claim fails, `SetInduction`), since the library's induction theorems take an operator.
- *D-Bus input.* The counts are cardinalities of the set of open requests of a client. That a *new*
  client starts at zero needs `OwnersAreKnown`: an open request belongs to a client that is listed
  or gone. That orphans end needs `UnlistedAreEnding`: the disconnection stops only what a lookup
  finds, and what it does not find was ending from the start. `RetriesAreExcused` says the same of
  what is still to come: a first attempt of a client that left which has failed is excused, so that
  a fallback that is not ending can only have taken the place of one.
- *D-Bus helper.* `ref` is compared with the number of matches plus that of
  callbacks plus pending calls. One callback more or less changes the union of the
  callback sets by one pair, since the key is part of the pair. Delivery follows from
  `Routed`: a match has its rule on its bus, and the filter is off only on a bus that was given up.
- *gst.* `Belongs` and `Coherent` tie a stream to its request and its timers to its state; each
  function of one stream (`Played`, `Paused`, `Stopped`, ...) has a lemma that it keeps them.
  `OwnInv` adds that a request that was not cut off points to its own stream. The others point to
  freed cells, which may be handed out again; what they do to the stream of another is what the case
  distinction `Borrowed` is for: it may lose its timer only while the borrower is held, whose stop
  will come.
- *Trackers.* `Catches`: the *last* message that waits says what the service does; since a
  service is listened to before it is asked, every change behind the query is a message.
  For the profile that is not enough, as a switch of profile reports only the
  values that differ. `Follows` therefore states a path: the context is what
  profiled had at some time, and each signal that waits is one step on the way to the
  present. A signal read drops the first step, a change appends one.
- *Events.* The list under construction is the hard part: while a reload parses, its rules are
  appended to the subscribers of the list in use, group by group. `Registered(l, t, b, k)` says that
  behind place `b` the subscribers `t` of a key are exactly the rules of `l` that listen to it, each
  once. With `b` the number there was before, it is an invariant of the construction
  (`InTheMaking`): merging adds rules without renumbering (`Extends`), a rule is subscribed at most
  once, and, once its group is added, the context rules of every event are subscribed (`Attached`).
  At the end of a reload the old list drops as many first subscribers of a key as it has rules there
  (`SubscribersCounted`), so that `b` becomes 0 again (`FirstDropped`). That an answer is fresh then
  follows: whoever has an answer listens, and `SetValue` reaches whoever listens.
- *Lists made step by step.* `Through` walks a list with a recursive function. That the function
  exists, and what each step keeps, is proved by the same induction over a set of numbers, for each
  kind of list (`KeptExists`, `MergedExists`, ...).
- *What an evaluation finds.* `MadeOf(l, W, m)` says what the first `m` groups of the files `W` have
  made of the list `l`: each event of a name is what the files say of its *title* (its name and its
  set of rules), every title with a layer that was not removed has its event, and the events stand
  in the order `Outranks`. That is priority, then the number of rules of either kind, then the place
  of the first layer. The place makes the order total, and the code never compares places; they come
  in because the insertion is stable and a later group comes later. Adding a group has three cases:
  a new title is inserted (`Inserted`), a known one gets one layer more without moving (`Layered`),
  a removal takes an event away. The list has places of shared rules where the files have rules, so
  one part of the proof is that merging and sorting lose no rule and that equal sets of places are
  equal titles. With `m` at the end, and with the answers known to be fresh, the rules of an event
  hold for the code when they hold for the files; the first event that holds is then the promised
  one, since a heavier title would stand before it.
- *Start.* `BootInv`: whatever is on a hook, a sink or an input belongs to a plugin that is open
  (`Held`) or to an optional one that failed after it had registered (`Leavers`), through each place
  at which loading may stop.
- *What clients say.* `HooksInv` adds that transform and resource are on their hooks while they are
  open. `Filtered` is then carried through the pipeline: the hook of transform establishes it,
  merging the event and the profile brings in no word of a client, and fallbacks move keys that no
  client may use.
- *Offers.* `SinksInv` says that every sink is registered once. The sort of the sinks by priority is
  an insertion: what it returns has the same members and falls (`Falling`), and priorities of sinks
  named by the sink order differ. Membership follows from who is believed about a resource, from
  client to event to default.
- *Stream restore: the connection.* `OneThingAtATime` with the stages of the plugin.
- *Stream restore: roles.* With a connection and nothing waiting, PulseAudio has what was last
  computed (`Holds`), and what was last computed is the rule of what the keys were when the role
  last saw one (`Computed`). `SawAll` says that after the start every role has seen every key.
  Without a connection the same holds of what the queue will make: one volume waits for a role
  (`OnlyWaits`), unless it is one of the excepted, whose volumes changed places; and what is set
  comes before what is asked for. `ProcessQueuedOps` is an induction over that queue, in which the
  connection may die at any place.
- *Stream restore: transforms.* For each transform one of three holds: its volume was missed; no
  signal of its entry waits and the volume is carried over; or the *last* signal of its entry that
  waits has the volume of now. `Steady` is what that needs of the paths: those of two entries
  differ, the object map has what is known of them, what is known is the path of the entry or a
  signal that waits says otherwise (`InTune`), and the volumes of a path come before its removal. A
  lost connection empties the signals and the paths (`Cut`); the next one asks for all entries anew,
  which is the induction over the object map that re-establishes it.

*Only model-checked.* Liveness (`EventuallyClosed`, `GoneClientsAreFreed`,
`SynchronizesUnlessResumed`, `SoundEnds`, `Reconnects`), which is out of the prover's reach, and
with it the fairness part of `ImplementsLifecycle`. That the hypotheses on configurations hold of
the files in use is checked for the instances only.

## 5. Known disagreements

**Kept as a run** (a finding of `PROJECT.json`): `player_restart`, in which a stop that is
acknowledged while the done source of a failed attempt is pending does not keep the
fallback from playing (`core-player.c:617`).

**Seen in the models, not kept as runs of their own.** The properties above exclude
these by name: no property can hold of them.

- *Player.* The header says play takes a request that is "paused or not yet
  started" (`inputinterface.h:69`); the Pause method with `pause = false` for one that is
  playing runs into the assertion at `core-player.c:465`. A pause or resume after a prepare
  that failed half way reaches sinks that were never prepared (`core-player.c:562`, `594`;
  `aborted = "nodata"`). A resume plays tonegen, which is not on the stop list before it
  was started (`382`). A pause while sinks prepare does not keep them from starting (`245`).
  A request that waits for a sink which never reports waits for ever: the timeout is armed only after the
  synchronization (`242`), and a completion that comes before it is dropped (`761`). With gst that happens to
  a request that is paused and resumed, or met by a call, while it prepares (next but one).
- *Events.* A reload whose shipped files take their only event back leaves a freed rule subscribed
  (`core.c:536`, `eventlist.c`). Rules that differ only in their target count as equal
  (`eventrule.c:224`). A group that removes an event which is not there adds it (`eventlist.c:161`).
  The groups of `MCEventRules` meet none of these (`FilesMakeSense`).
- *gst.* A call that becomes active frees streams whose requests go on (`gst/plugin.c:1270`): the
  next play or pause uses freed memory, and the address of a freed stream may be that of a newer
  one, which is then stopped for another request (`1234`). A pause and resume during the
  start-up delay removes the timer that would have synchronized (`1108`, `536`). A
  resume during the fade of a pause is paused by the end of that fade (`1115`). A level of 0
  that is reported twice turns system sounds on (`709`), and off again with the next such report.
- *Timer sinks.* A pause and resume sets up a second timer over the id of the first,
  which then outlives its record (`canberra/plugin.c:243`, `fake/plugin.c:104`,
  `null/plugin.c:95`). The timer fires while the request is paused (`fake/plugin.c:117`).
- *mce.* An acknowledgement is matched by pattern: of two requests with one pattern the first in
  the list is marked (`mce/plugin.c:54`), whichever was acknowledged.
- *immvibe.* A device that stays uninitialized although it can be reconnected gives up after one
  retry, but any other error after a reconnect repeats the call for as long as it lasts
  (`immvibe/plugin.c:219-244`). A second play puts the id of an idle source over the
  first (`444-446`). `can_handle` looks for `immvibe.filename_original` (`295`), while
  the originals are saved under `.original`.
- *ffmemless.* The end of an effect erases its slot and the stop does so again
  (`ffmemless/plugin.c:559`, `573`), when the slot may be another's already. With `cache_effects` a
  stop before a play erases the slot of the effect in the table, from which the copy was made. A
  play forgets the timer of the play before it (`571`).
- *tonegen.* A stop for a stream that is not ready returns before it is unlinked
  (`tonegen/stream.c:260-266`). Requests of one kind share a stream, so that the stop of one
  silences the other. No tone is ever reported complete. A DTMF stream that dies between the stop
  and the mute timeout takes the timeout with it, and telephony stays muted (`tonegen/dtmf.c:203`).
- *Start.* The comment at `core.c:843` says the first sink has the highest priority;
  the last one listed gets priority 0, the same as the sinks that are not listed
  (`core.c:352-380`), so that the shipped `sink-order = gst` decides nothing and canberra, loaded before
  gst, is the master of both. `core-internal.h:47` says of an optional plugin that loading
  may fail without harm; one that registers a sink and then fails leaves it in a
  closed module (`immvibe/plugin.c:521-529`); `transform` (`230`, `238`) and `profile` (`595`, `616`)
  likewise register before they fail, but are required, and the start fails with them.
- *Filters.* The usage text says that one `media.foo` in a request makes all other resources default
  to disabled (`resource/plugin.c:22-36`); the code looks at each resource for itself and takes the
  configured default of those that are not named (`121-141`), as
  `data/plugins.d/50-resource.ini:1-6` says. `OfferIsExact` is stated by the code; the mutant
  `DisabledUnlessNamed` is the usage text. The shipped events say `haptic.type = alarm`, which
  `haptic.c:205-216` does not know. Entries of the profile are looked for in the events that were
  there at load, and only the first key with a value is entered (`profile/plugin.c:235-260`).
- *Trackers.* profiled is tracked only after its values were queried; a change
  in between is missed until the next one (`profile/plugin.c:618`). A service that restarts is not asked
  again (`callstate/plugin.c:126`).
- *Stream restore.* Of two volumes of a role that wait for a connection the older is applied
  last (`volume-controller.c:985`). A change of route takes effect with the next change of a key
  (`streamrestore/plugin.c:525-529`). A role whose first volume is 0 is never sent; a volume
  sent on a connection that is dead is lost. An address from the session bus at which nobody
  answers is kept and tried for ever, also when PulseAudio comes back at another. Between a lost
  connection and the next the object map has keys that were freed (`271`). Converting a volume to
  PulseAudio's scale and back loses 1 for some values; `TransformsFollow` is stated with both conversions.
- *CoreDbus.* A signal listened to on both buses has one match, on the first
  (`core-dbus.c:297`). The filter is not added again after a connection was given up
  (`176`). A call that waits at shutdown, or a leaked reference of a second listener,
  fails the assertion of the free (`266`, `305`).

**Read, not modelled**: a Stop from a sender that is no client is answered twice
(`dbus/plugin.c:508`); the gst sink overrides the timeout of a request with the one of
the core (`gst/plugin.c:1054`), leaks what it made of a pipeline that fails (`1072`) and keeps a
subscription when it is unloaded (`1307`); an unknown type of key takes the type of the line before it
(`core.c:714`, `736`); a request without any effect key makes ffmemless look up a NULL key
(`ffmemless/plugin.c:693-695`).

## 6. What is left out

- Allocation failures (GLib aborts), logging, the wording of files and messages,
  `%define` and `%include` of event files (they copy text).
- Numbers that decide nothing but time or loudness: delays, fade curves, the volume of a
  GStreamer stream, the shapes of effects, the synthesis of tones (`tone.c`,
  `envelop.c`, `rfc4733.c`). A timer may fire any time after it was set.
- Sinks that misbehave in ways no shipped sink does (synchronizing for a request
  they do not have, completing twice).
- Chains of tones within an indicator, which no request asks for.
- The containers of values and property lists, but for what they compute; memory that is
  leaked without being used again.
- Shutdown of single components with requests outstanding, except where a module has an action for it
  (`CoreBoot`, `CoreDbus`, `StreamRestore`): the process ends.
- `Sinks` has one sink at a time and `CoreBoot` takes what a sink plays as given: the
  whole daemon as one state machine is out of TLC's reach. The abstract specifications
  are what holds the parts together.

## 7. Plan

Everything the survey named is modelled, but for the parts of section 6, and every safety property
that a run checks is proved. What would add most:

1. *A refinement* of `SinkContract` by `Player` with resynchronization, once a sink uses it: the
   contract would have to let a sink be played again without a stop.
2. *Volumes and fades* of the GStreamer sink, which the call state and the sound level change while
   a stream plays.
3. *Chains of tones* of the generator, once a request asks for one.
4. *The containers* of values and property lists with their memory, as the abstract functions that
   `RequestPipeline` already uses them as.
