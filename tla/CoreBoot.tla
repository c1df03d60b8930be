------------------------------ MODULE CoreBoot ------------------------------
(***************************************************************************)
(* How the daemon starts and ends (src/src/ngf/{core,plugin,hook,main}.c): *)
(* plugins are opened and loaded in the order of the configuration, sinks  *)
(* and inputs that they registered are initialized, INIT_DONE is fired,    *)
(* and from then on requests go through the hooks to the sinks             *)
(* (RequestPipeline).                                                      *)
(*                                                                         *)
(* The load function of a plugin registers its sink, its input and its     *)
(* hooks, and may fail before, between or after that.  The module of a     *)
(* plugin that fails is closed, what it registered stays.                  *)
(***************************************************************************)
EXTENDS RequestPipeline

CONSTANTS
  Required, Optional,   \* the plugins of ngfd.ini, in order
  Registers,            \* what each registers, [kind, name] in order
  FailsAfter,           \* after how many of them its load may fail
  Events,               \* the properties of events
  Clients, Contexts     \* properties of requests, and contexts, that there may be

\* ngfd.ini names a plugin once.  Transform and resource live from their hooks,
\* and every sink has a name of its own.
ASSUME StartAssumption ==
  /\ \A all \in {Required, Optional} : all \in Seq(Range(all)) /\ IsInjective(all)
  /\ Range(Required) \cap Range(Optional) = {}
  /\ \A p \in Range(Required) \cup Range(Optional) :
       /\ Registers[p] \in Seq(Range(Registers[p]))
       /\ FailsAfter[p] \subseteq 0..Len(Registers[p])
  /\ \A p \in {"transform", "resource"} \cap (Range(Required) \cup Range(Optional)) :
       \E i \in DOMAIN Registers[p] :
         /\ Registers[p][i].kind = "hook"
         /\ Registers[p][i].name \in {"NEW_REQUEST", "TRANSFORM_PROPERTIES", "FILTER_SINKS"}
  /\ \A p, q \in Range(Required) \cup Range(Optional) :
       \A i \in DOMAIN Registers[p], j \in DOMAIN Registers[q] :
         /\ Registers[p][i].kind = "sink" /\ Registers[q][j].kind = "sink"
         /\ Registers[p][i].name = Registers[q][j].name
         => p = q /\ i = j

\* What an event or the context says is not from a client.
ASSUME SayingsAssumption ==
  \A props \in Range(Events) \cup Contexts :
    \A k \in DOMAIN props : props[k].from # "client"

NoOffer == [sinks |-> <<>>, props |-> <<>>]

VARIABLES
  stage,      \* "open", "events", "load", "sinks", "inputs", "running", ...
  toOpen,     \* names of plugins that are still to be opened
  toLoad,     \* opened plugins that are still to be loaded
  plugins,    \* core->plugins
  closed,     \* plugins whose module was closed
  hooks,      \* [hook, plugin] of the slots, in order
  sinks,      \* [sink, plugin] of core->sinks, in order
  inputs,     \* [input, plugin] of core->inputs, in order
  prepared,   \* how many sinks, or inputs, are initialized
  priority,   \* of each sink
  strayed,    \* plugins of which a function was called after they were closed
  request,    \* the last request, [client, event, context, fallback]
  offer       \* properties and sinks that it came to

plugVars == <<toOpen, toLoad, plugins, closed, hooks, sinks, inputs>>
boot == <<stage, plugVars, prepared, priority, strayed, request, offer>>

NoRequest == [client |-> <<>>, event |-> <<>>, context |-> <<>>, fallback |-> FALSE]

\* Functions of these plugins are called.
CallInto(them) == strayed' = strayed \cup (them \cap closed)

-----------------------------------------------------------------------------
\* n_core_open_plugin; a required plugin that is not there ends it.
OpenPlugin(ok) ==
  /\ stage = "open" /\ toOpen # <<>>
  /\ LET p == Head(toOpen)
     IN  /\ toOpen' = Tail(toOpen)
         /\ toLoad' = IF ok THEN Append(toLoad, p) ELSE toLoad
         /\ stage' = IF ~ok /\ p \in Range(Required) THEN "failed" ELSE stage
  /\ UNCHANGED <<plugins, closed, hooks, sinks, inputs, prepared, priority, strayed,
                 request, offer>>

\* n_core_parse_events: there must be one event.
EventsParsed(ok) ==
  /\ stage = "open" /\ toOpen = <<>>
  /\ stage' = IF ok /\ Required \o Optional # <<>> THEN "load" ELSE "failed"
  /\ UNCHANGED <<plugVars, prepared, priority, strayed, request, offer>>

RegisteredBy(p, n, kind) ==
  LET mine == Only(SubSeq(Registers[p], 1, n), {r \in Range(Registers[p]) : r.kind = kind})
  IN  [i \in DOMAIN mine |-> [name |-> mine[i].name, plugin |-> p]]

\* Slip: every plugin is as good as optional.
AfterAnyFailure(p) == "load"

\* What a failure does to the start of the daemon.
AfterFailure(p) == IF p \in Range(Required) THEN "failed" ELSE "load"

\* n_core_init_plugin: the load function gets to register all, or n things.
LoadPlugin(ok) ==
  /\ stage = "load" /\ toLoad # <<>>
  /\ LET p == Head(toLoad)
     IN  \E n \in IF ok THEN {Len(Registers[p])} ELSE FailsAfter[p] :
           /\ toLoad' = Tail(toLoad)
           /\ hooks'  = hooks  \o RegisteredBy(p, n, "hook")
           /\ sinks'  = sinks  \o RegisteredBy(p, n, "sink")
           /\ inputs' = inputs \o RegisteredBy(p, n, "input")
           /\ IF ok THEN plugins' = Append(plugins, p) /\ UNCHANGED <<stage, closed>>
                    ELSE /\ closed' = closed \cup {p}
                         /\ stage' = AfterFailure(p)
                         /\ UNCHANGED plugins
  /\ UNCHANGED <<toOpen, prepared, priority, strayed, request, offer>>

NamesOf(registered) == [i \in DOMAIN registered |-> registered[i].name]

Loaded ==
  /\ stage = "load" /\ toLoad = <<>>
  /\ stage' = IF sinks = <<>> THEN "failed" ELSE "sinks"
  /\ priority' = Priorities(NamesOf(sinks))
  /\ UNCHANGED <<plugVars, prepared, strayed, request, offer>>

\* The initialize functions, of which one that fails ends it.
InitSink(ok) ==
  /\ stage = "sinks" /\ prepared < Len(sinks)
  /\ prepared' = prepared + 1
  /\ CallInto({sinks[prepared + 1].plugin})
  /\ stage' = IF ok THEN stage ELSE "failed"
  /\ UNCHANGED <<plugVars, priority, request, offer>>

SinksDone ==
  /\ stage = "sinks" /\ prepared = Len(sinks)
  /\ prepared' = 0
  /\ stage' = IF inputs = <<>> THEN "failed" ELSE "inputs"
  /\ UNCHANGED <<plugVars, priority, strayed, request, offer>>

InitInput(ok) ==
  /\ stage = "inputs" /\ prepared < Len(inputs)
  /\ prepared' = prepared + 1
  /\ CallInto({inputs[prepared + 1].plugin})
  /\ stage' = IF ok THEN stage ELSE "failed"
  /\ UNCHANGED <<plugVars, priority, request, offer>>

OnHook(h) == {hooks[i].plugin : i \in {j \in DOMAIN hooks : hooks[j].name = h}}

InitDone ==
  /\ stage = "inputs" /\ prepared = Len(inputs)
  /\ stage' = "running"
  /\ CallInto(OnHook("INIT_DONE"))
  /\ UNCHANGED <<plugVars, prepared, priority, request, offer>>

RequestHooks == OnHook("NEW_REQUEST") \cup OnHook("TRANSFORM_PROPERTIES")
                  \cup OnHook("FILTER_SINKS")

\* A request comes, or the fallback of the last one is tried.
NewRequest(client, e, context, fallback) ==
  /\ stage = "running"
  /\ fallback => request # NoRequest /\ ~request.fallback /\ client = request.client
  /\ LET event == Events[e]
         firing == RequestHooks \ closed
         props  == Properties(firing, client, event, context, fallback)
     IN  /\ request' = [client |-> client, event |-> event, context |-> context,
                        fallback |-> fallback]
         /\ offer' = [props |-> props,
                      sinks |-> Offer(firing, NamesOf(sinks), priority, props, context)]
  /\ CallInto(RequestHooks \cup {sinks[i].plugin : i \in DOMAIN sinks})
  /\ UNCHANGED <<stage, plugVars, prepared, priority>>

\* n_core_shutdown: inputs, sinks, then plugins, each unloaded and closed.
Shutdown ==
  /\ stage = "running"
  /\ stage' = "down"
  /\ CallInto({sinks[i].plugin : i \in DOMAIN sinks}
            \cup {inputs[i].plugin : i \in DOMAIN inputs} \cup Range(plugins))
  /\ closed' = closed \cup Range(plugins)
  /\ plugins' = <<>> /\ sinks' = <<>> /\ inputs' = <<>>
  /\ hooks' = Only(hooks, {h \in Range(hooks) : h.plugin \notin Range(plugins)})
  /\ UNCHANGED <<toOpen, toLoad, prepared, priority, request, offer>>

BootInit ==
  /\ stage = "open"
  /\ toOpen = Required \o Optional /\ toLoad = <<>> /\ plugins = <<>> /\ closed = {}
  /\ hooks = <<>> /\ sinks = <<>> /\ inputs = <<>>
  /\ prepared = 0 /\ priority = <<>> /\ strayed = {}
  /\ request = NoRequest /\ offer = NoOffer

BootNext ==
  \/ \E ok \in BOOLEAN : OpenPlugin(ok) \/ EventsParsed(ok) \/ LoadPlugin(ok)
                       \/ InitSink(ok) \/ InitInput(ok)
  \/ Loaded \/ SinksDone \/ InitDone \/ Shutdown
  \/ \E client \in Clients, e \in DOMAIN Events, context \in Contexts,
        fallback \in BOOLEAN : NewRequest(client, e, context, fallback)

BootSpec == BootInit /\ [][BootNext]_boot

-----------------------------------------------------------------------------
\* No function of a plugin is called once its module is closed.  (Excepted is
\* an optional plugin that failed after it had registered: its hooks and its
\* sink stay, see n_core_init_plugin and immvibe/plugin.c:521-529.)
CallsReachOpenPlugins ==
  strayed \subseteq {p \in Range(Optional) : FailsAfter[p] \ {0} # {}}

\* What a client says reaches the sinks under no other key than the ones that
\* are allowed, the ones that these are mapped to and where the mapped ones
\* are saved, and the file name where the event allows custom ones; through the
\* event, the fallbacks and the profile too.
ClientKeysAreFiltered ==
  /\ "transform" \in Range(plugins) /\ ~AllowAll =>
       \A k \in DOMAIN offer.props :
         offer.props[k].from = "client" =>
           \/ k \in Range(Allowed) \ DOMAIN KeyMap
           \/ \E a \in Range(Allowed) \cap DOMAIN KeyMap \cap DOMAIN request.client :
                k \in {KeyMap[a], Original[KeyMap[a]]}
           \/ k \in {Filename, Enabled} /\ Says(request.event, Custom, "true")

\* A request is offered to exactly the sinks that can play it and whose type is
\* enabled: by the client before the event, by the event before the default of
\* its own key, as data/plugins.d/50-resource.ini:1-6 has it and filter_sinks_cb
\* does it.  (By plugins/resource/plugin.c:26-28 one media key in a request would
\* disable all types that it does not name; the code does not do this.)
\* Of two sinks in the sink order the one that it names first is offered it first.
OfferIsExact ==
  stage = "running" /\ request # NoRequest =>
    LET told(r) == IF r.key \in DOMAIN request.client THEN request.client[r.key].is = "true"
                   ELSE IF r.key \in DOMAIN request.event THEN request.event[r.key].is = "true"
                   ELSE r.default
        off     == {r.type : r \in {x \in Resources : ~told(x)}}
        chosen  == offer.sinks
    IN  /\ Range(chosen) = {s \in Range(NamesOf(sinks)) :
                              /\ CanHandle(s, offer.props, request.context)
                              /\ "resource" \in Range(plugins) => SinkType[s] \notin off}
        /\ \A i, j \in DOMAIN chosen : i # j => chosen[i] # chosen[j]
        /\ \A i, j \in DOMAIN chosen :
             (\E p \in DOMAIN SinkOrder :
                /\ SinkOrder[p] = chosen[i]
                /\ \A q \in 1..p : SinkOrder[q] # chosen[j])
             /\ chosen[j] \in Range(SinkOrder) => i < j
=============================================================================
